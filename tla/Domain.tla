------------------------------- MODULE Domain -------------------------------
(***************************************************************************)
(* The domain that processes attach to (shm/shm_domain.cc, shm/topo,       *)
(* mm/port/xsi_shm.cc): one System V segment with the tables of processes, *)
(* of writers with their readers, and of segment names, and one event      *)
(* queue per process index.                                                *)
(*                                                                         *)
(* A process starts, opens or creates the segment, initialises it or waits *)
(* until it is initialised, registers, and then registers readers and      *)
(* writers, pushes and pops, until it exits.  The tables are changed under *)
(* locks, but Push reads the readers of a writer without one: the stores   *)
(* that make a reader visible are therefore steps of their own.            *)
(*                                                                         *)
(* Segments are numbered in the order of their creation; 0 stands for none *)
(* (or a bad address).  Table indices start at 0, as in the code.          *)
(***************************************************************************)
EXTENDS Integers, Sequences, FiniteSets, FiniteSetsExt

CONSTANTS
  Processes,
  Channels,        \* names of writers, and of the channels that readers read
  SegmentNames,
  Objects,         \* shared objects, each pushed at most once
  MaxProcesses,    \* ShmMeta::MAX_PROCESS_NUM
  MaxReaders,      \* ShmMeta::MAX_READER_NUM, which also bounds the writers
  EventCapacity,   \* ShmMeta::MAX_READER_EVENT_SIZE
  MaxSegments,     \* bound: segments created under the domain's key
  MaxCalls         \* bound: registrations, pushes and exits of all processes

ASSUME DomainAssumption ==
  /\ IsFiniteSet(Processes)
  /\ {MaxProcesses, MaxReaders, EventCapacity, MaxSegments} \subseteq Nat \ {0}
  /\ MaxCalls \in Nat

VARIABLES
  key,        \* the segment that shmget finds under the key
  layouts,    \* layouts[g]: contents of the g-th segment created
  pc,
  id,         \* id[p]: what shmget returned
  at,         \* at[p]: the segment p is attached to (BaseAddr)
  index,      \* index[p]: process_idx_
  writer,     \* writer[p][c]: what RegisterWriter returned for c, -1 before
  call,       \* call[p]: the loop variables of the call p is in
  refs,       \* refs[o]: ref_cnt
  message,    \* objects whose std::shared_ptr<T> message is alive
  left,       \* history: has a process left the domain?
  calls,      \* number of registrations, pushes and exits so far
  reads,      \* history: reads[p], the channels p has registered to read
  audience,   \* history: audience[o], the processes reading o's channel when its push began
  told        \* history: told[o], the events that were pushed or refused for o

kernel  == <<key, id, at, left>>
own     == <<index, writer, reads>>
objects == <<refs, message, audience, told>>
vars    == <<kernel, layouts, pc, call, calls, own, objects>>

Pcs == {"start", "open", "attach_new", "attach", "layout_init", "wait", "register", "idle",
        "slot_index", "slot_online", "push_loop", "push_ref", "push_event", "detached",
        "bad_address"}

NoCall == [writer |-> -1, slot |-> 0, object |-> {}, target |-> -1, channel |-> {}]

EmptyQueue == [available |-> 0, events |-> <<>>]

\* A segment as the kernel hands it out, full of zeros.
Zeros ==
  [inited  |-> FALSE,
   pids    |-> <<>>,
   writers |-> <<>>,      \* records with a name and a sequence of reader slots
   names   |-> <<>>,      \* indicator_table
   mutex   |-> {},        \* the holder of topo_data_.mutex
   queues  |-> [i \in 0 .. MaxProcesses - 1 |-> EmptyQueue]]

Init ==
  /\ key = 0
  /\ layouts = <<>>
  /\ pc = [p \in Processes |-> "start"]
  /\ id = [p \in Processes |-> 0]
  /\ at = [p \in Processes |-> 0]
  /\ index = [p \in Processes |-> -1]
  /\ writer = [p \in Processes |-> [c \in Channels |-> -1]]
  /\ call = [p \in Processes |-> NoCall]
  /\ refs = [o \in Objects |-> 0]
  /\ message = Objects
  /\ reads = [p \in Processes |-> {}]
  /\ left = FALSE
  /\ calls = 0
  /\ audience = [o \in Objects |-> {}]
  /\ told = [o \in Objects |-> 0]

\* A process that is attached and between two calls makes a call.
Call(p) ==
  /\ pc[p] = "idle"
  /\ calls < MaxCalls
  /\ calls' = calls + 1

GoTo(p, where) == pc' = [pc EXCEPT ![p] = where]

\* The layout p works on.
Layout(p) == layouts[at[p]]
Change(p, layout) == layouts' = [layouts EXCEPT ![at[p]] = layout]

-----------------------------------------------------------------------------
\* Attaching.

\* A segment exists while it has a key or somebody is attached to it.
Alive(g) == key = g \/ \E q \in Processes : at[q] = g

\* Mutant of OpenOrCreate: a segment found under the key is taken for a stale one and
\* replaced.
OpenOrCreateAnew(p) ==
  /\ pc[p] = "start"
  /\ Len(layouts) < MaxSegments
  /\ layouts' = Append(layouts, Zeros)
  /\ key' = Len(layouts) + 1
  /\ id' = [id EXCEPT ![p] = Len(layouts) + 1]
  /\ GoTo(p, "attach_new")
  /\ UNCHANGED <<at, left, call, own, objects, calls>>

\* shmget with IPC_CREAT | IPC_EXCL.
OpenOrCreate(p) ==
  /\ pc[p] = "start"
  /\ IF key = 0
       THEN /\ Len(layouts) < MaxSegments
            /\ layouts' = Append(layouts, Zeros)
            /\ key' = Len(layouts) + 1
            /\ id' = [id EXCEPT ![p] = Len(layouts) + 1]
            /\ GoTo(p, "attach_new")
       ELSE GoTo(p, "open") /\ UNCHANGED <<key, id, layouts>>
  /\ UNCHANGED <<at, left, call, own, objects, calls>>

\* The segment exists: shmget without IPC_CREAT.  It may have gone meanwhile; XsiShm::Init
\* does not look at the result, and DomainMetadata::Init uses the address.
OpenOnly(p) ==
  /\ pc[p] = "open"
  /\ id' = [id EXCEPT ![p] = key]
  /\ GoTo(p, IF key = 0 THEN "bad_address" ELSE "attach")
  /\ UNCHANGED <<key, at, left, layouts, call, own, objects, calls>>

\* Mutant of Attach: a segment that has lost its key is given up.
AttachKeyed(p) ==
  /\ pc[p] \in {"attach_new", "attach"}
  /\ IF key = id[p]
       THEN /\ at' = [at EXCEPT ![p] = id[p]]
            /\ GoTo(p, IF pc[p] = "attach_new" THEN "layout_init" ELSE "wait")
       ELSE GoTo(p, "bad_address") /\ UNCHANGED at
  /\ UNCHANGED <<key, id, left, layouts, call, own, objects, calls>>

\* shmat.  Linux attaches to a segment that was removed as long as somebody uses it.
Attach(p) ==
  /\ pc[p] \in {"attach_new", "attach"}
  /\ IF Alive(id[p])
       THEN /\ at' = [at EXCEPT ![p] = id[p]]
            /\ GoTo(p, IF pc[p] = "attach_new" THEN "layout_init" ELSE "wait")
       ELSE GoTo(p, "bad_address") /\ UNCHANGED at
  /\ UNCHANGED <<key, id, left, layouts, call, own, objects, calls>>

\* ShmDomainLayout::Init by the creator: tables and queues are constructed, then the
\* flag is set.
LayoutInit(p) ==
  /\ pc[p] = "layout_init"
  /\ IF Layout(p).inited THEN UNCHANGED layouts
                         ELSE Change(p, [Zeros EXCEPT !.inited = TRUE])
  /\ GoTo(p, "register")
  /\ UNCHANGED <<kernel, call, own, objects, calls>>

\* Mutant of WaitUntilReady: the opener does not wait.
WaitForNothing(p) ==
  /\ pc[p] = "wait"
  /\ GoTo(p, "register")
  /\ UNCHANGED <<kernel, layouts, call, own, objects, calls>>

WaitUntilReady(p) ==
  /\ pc[p] = "wait"
  /\ Layout(p).inited
  /\ GoTo(p, "register")
  /\ UNCHANGED <<kernel, layouts, call, own, objects, calls>>

\* RegisterPid under the lock of the process table; a full table is not reported, and the
\* caller's index is 0 whatever RegisterPid returns.  A process that starts has a pid that
\* is not in the table.
RegisterProcess(p) ==
  /\ pc[p] = "register"
  /\ IF Len(Layout(p).pids) < MaxProcesses
       THEN Change(p, [Layout(p) EXCEPT !.pids = Append(@, p)])
       ELSE UNCHANGED layouts
  /\ index' = [index EXCEPT ![p] = 0]
  /\ GoTo(p, "idle")
  /\ UNCHANGED <<kernel, call, writer, reads, objects, calls>>

-----------------------------------------------------------------------------
\* Registration.

\* The position of c in a table, -1 if it is not there.
Find(names, c) ==
  IF \E i \in 1 .. Len(names) : names[i] = c
    THEN Min({i \in 1 .. Len(names) : names[i] = c}) - 1
    ELSE -1

WriterNames(layout) == [i \in 1 .. Len(layout.writers) |-> layout.writers[i].name]

\* Mutant of RegisterWriterLocked: the table is not searched.
RegisterWriterTwice(layout, c) ==
  IF Len(layout.writers) >= MaxReaders
    THEN [layout |-> layout, index |-> -1]
    ELSE [layout |-> [layout EXCEPT !.writers = Append(@, [name |-> c, slots |-> <<>>])],
          index  |-> Len(layout.writers)]

\* Mutant of RegisterWriterLocked: one writer more than the bound is let in.
RegisterWriterBeyond(layout, c) ==
  LET found == Find(WriterNames(layout), c)
  IN  IF found >= 0 \/ Len(layout.writers) > MaxReaders
        THEN [layout |-> layout, index |-> found]
        ELSE [layout |-> [layout EXCEPT !.writers = Append(@, [name |-> c, slots |-> <<>>])],
              index  |-> Len(layout.writers)]

\* What RegisterWriterLocked does to the writers, and the index it returns.
RegisterWriterLocked(layout, c) ==
  LET found == Find(WriterNames(layout), c)
  IN  IF found >= 0 \/ Len(layout.writers) >= MaxReaders
        THEN [layout |-> layout, index |-> found]
        ELSE [layout |-> [layout EXCEPT !.writers = Append(@, [name |-> c, slots |-> <<>>])],
              index  |-> Len(layout.writers)]

RegisterWriter(p, c) ==
  /\ Call(p)
  /\ Layout(p).mutex = {}
  /\ LET r == RegisterWriterLocked(Layout(p), c)
     IN  /\ Change(p, r.layout)
         /\ writer' = [writer EXCEPT ![p][c] = r.index]
  /\ UNCHANGED <<kernel, pc, call, index, reads, objects>>

\* Mutant of NewSlot: a slot is online from the start.
OnlineSlot == [process |-> -1, online |-> TRUE]

NewSlot == [process |-> -1, online |-> FALSE]

\* Reader slots are searched by process index.  A new slot comes into sight of Push with
\* reader_num, before it is filled.  (The table of slots cannot be full: every process has
\* index 0, so a writer has one slot.)
RegisterReader(p, c) ==
  /\ Call(p)
  /\ Layout(p).mutex = {}
  /\ LET r     == RegisterWriterLocked(Layout(p), c)
         slots == r.layout.writers[r.index + 1].slots
         known == \E i \in 1 .. Len(slots) : slots[i].process = index[p]
     IN  \/ /\ r.index = -1
            /\ UNCHANGED <<layouts, pc, call, reads>>
         \/ /\ r.index # -1 /\ known
            /\ Change(p, r.layout)
            /\ reads' = [reads EXCEPT ![p] = @ \cup {c}]
            /\ UNCHANGED <<pc, call>>
         \/ /\ r.index # -1 /\ ~known
            /\ Change(p, [r.layout EXCEPT
                            !.mutex = {p},
                            !.writers[r.index + 1].slots = Append(@, NewSlot)])
            /\ call' = [call EXCEPT ![p].writer = r.index, ![p].slot = Len(slots),
                                    ![p].channel = {c}]
            /\ GoTo(p, "slot_index")
            /\ UNCHANGED reads
  /\ UNCHANGED <<kernel, index, writer, objects>>

\* The slot that p's call is about.
Slot(p) == Layout(p).writers[call[p].writer + 1].slots[call[p].slot + 1]
ChangeSlot(p, layout, slot) ==
  Change(p, [layout EXCEPT !.writers[call[p].writer + 1].slots[call[p].slot + 1] = slot])

SetSlotIndex(p) ==
  /\ pc[p] = "slot_index"
  /\ ChangeSlot(p, Layout(p), [Slot(p) EXCEPT !.process = index[p]])
  /\ GoTo(p, "slot_online")
  /\ UNCHANGED <<kernel, call, own, objects, calls>>

SetSlotOnline(p) ==
  /\ pc[p] = "slot_online"
  /\ ChangeSlot(p, [Layout(p) EXCEPT !.mutex = {}], [Slot(p) EXCEPT !.online = TRUE])
  /\ reads' = [reads EXCEPT ![p] = @ \cup call[p].channel]
  /\ call' = [call EXCEPT ![p] = NoCall]
  /\ GoTo(p, "idle")
  /\ UNCHANGED <<kernel, index, writer, objects, calls>>

\* SegmentIndicatorTable::RegisterSegment.  A name that is there is found; the table has no
\* bound.
GetSegment(p, n) ==
  /\ Call(p)
  /\ Find(Layout(p).names, n) = -1
  /\ Change(p, [Layout(p) EXCEPT !.names = Append(@, n)])
  /\ UNCHANGED <<kernel, pc, call, own, objects>>

-----------------------------------------------------------------------------
\* Events.

\* MakeShmObject, and the call of Push with the writer's index.
Push(p, c, o) ==
  /\ Call(p)
  /\ writer[p][c] >= 0
  /\ o \in message /\ refs[o] = 0
  /\ refs' = [refs EXCEPT ![o] = @ + 1]
  /\ audience' = [audience EXCEPT ![o] =
                    {q \in Processes : at[q] = at[p] /\ c \in reads[q]}]
  /\ call' = [call EXCEPT ![p] = [NoCall EXCEPT !.writer = writer[p][c], !.object = {o}]]
  /\ GoTo(p, "push_loop")
  /\ UNCHANGED <<kernel, layouts, own, message, told>>

\* One round of the loop up to process_state->Push.  reader_num, is_online and
\* process_state_index are read one after the other; the first two only grow and the
\* third is stored before the second, so the reads may be taken together.
PushLoop(p) ==
  /\ pc[p] = "push_loop"
  /\ \/ /\ call[p].slot >= Len(Layout(p).writers[call[p].writer + 1].slots)
        /\ call' = [call EXCEPT ![p] = NoCall]
        /\ GoTo(p, "idle")
     \/ /\ call[p].slot < Len(Layout(p).writers[call[p].writer + 1].slots)
        /\ IF Slot(p).online
             THEN /\ call' = [call EXCEPT ![p].target = Slot(p).process]
                  /\ GoTo(p, "push_ref")
             ELSE call' = [call EXCEPT ![p].slot = @ + 1] /\ UNCHANGED pc
  /\ UNCHANGED <<kernel, layouts, own, objects, calls>>

\* Mutant of AddReference: the event is pushed without a reference.
AddNoReference(p) ==
  /\ pc[p] = "push_ref"
  /\ GoTo(p, "push_event")
  /\ UNCHANGED <<kernel, layouts, call, own, objects, calls>>

AddReference(p) ==
  /\ pc[p] = "push_ref"
  /\ refs' = [o \in Objects |-> IF o \in call[p].object THEN refs[o] + 1 ELSE refs[o]]
  /\ GoTo(p, "push_event")
  /\ UNCHANGED <<kernel, layouts, call, own, message, audience, told, calls>>

\* reader_event_queue_.TryPush; its result is ignored.
PushEvent(p) ==
  /\ pc[p] = "push_event"
  /\ LET q == Layout(p).queues[call[p].target]
     IN  IF q.available >= EventCapacity
           THEN UNCHANGED layouts
           ELSE Change(p, [Layout(p) EXCEPT !.queues[call[p].target] =
                  [available |-> q.available + 1, events |-> Append(q.events, call[p].object)]])
  /\ told' = [o \in Objects |-> IF o \in call[p].object THEN told[o] + 1 ELSE told[o]]
  /\ call' = [call EXCEPT ![p].slot = @ + 1, ![p].target = -1]
  /\ GoTo(p, "push_loop")
  /\ UNCHANGED <<kernel, own, refs, message, audience, calls>>

\* ProcessState::Pop: the layout when queue i has lost its first event.
FirstTaken(layout, i) == [layout EXCEPT !.queues[i].events = Tail(@)]

\* Pop and TryPop: both block while the queue is empty, and leave the queue's counter and
\* the object's reference alone.
Pop(p) ==
  /\ pc[p] = "idle"
  /\ Layout(p).queues[index[p]].events # <<>>
  /\ Change(p, FirstTaken(Layout(p), index[p]))
  /\ UNCHANGED <<kernel, pc, call, own, objects, calls>>

\* The message's last std::shared_ptr<T> goes away: ShmObjectDeleter.  (The deleter of
\* std::shared_ptr<ShmObject> finds that its pointer is not data_addr and does nothing; DeleteObject is empty.  A message
\* that is dropped before it was made a ShmObject is never pushed.)
DropMessage(o) ==
  /\ o \in message /\ refs[o] > 0
  /\ message' = message \ {o}
  /\ refs' = [refs EXCEPT ![o] = @ - 1]
  /\ UNCHANGED <<kernel, layouts, pc, call, own, audience, told, calls>>

-----------------------------------------------------------------------------
\* The destructor of the process's ShmDomain: XsiShm::Shutdown.  The kernel destroys a
\* segment that has neither a key nor an attached process.
Destroyed(g, dead) == IF dead THEN [layouts EXCEPT ![g] = Zeros] ELSE layouts

Detach(p) ==
  /\ Call(p)
  /\ left' = TRUE
  /\ at' = [at EXCEPT ![p] = 0]
  /\ id' = [id EXCEPT ![p] = 0]
  /\ layouts' = Destroyed(at[p], key # at[p] /\ \A q \in Processes \ {p} : at[q] # at[p])
  /\ index' = [index EXCEPT ![p] = -1]
  /\ writer' = [writer EXCEPT ![p] = [c \in Channels |-> -1]]
  /\ reads' = [reads EXCEPT ![p] = {}]
  /\ GoTo(p, "detached")
  /\ UNCHANGED <<key, call, objects>>

\* Whatever segment has the key now is removed.  Another process may start in p's place.
Remove(p) ==
  /\ pc[p] = "detached"
  /\ key' = 0
  /\ layouts' = Destroyed(key, key # 0 /\ \A q \in Processes : at[q] # key)
  /\ GoTo(p, "start")
  /\ UNCHANGED <<id, at, left, call, own, objects, calls>>

Step(p) ==
  \/ OpenOrCreate(p) \/ OpenOnly(p) \/ Attach(p) \/ LayoutInit(p) \/ WaitUntilReady(p)
  \/ RegisterProcess(p) \/ SetSlotIndex(p) \/ SetSlotOnline(p)
  \/ PushLoop(p) \/ AddReference(p) \/ PushEvent(p) \/ Remove(p)

Next ==
  \/ \E p \in Processes :
       \/ Step(p) \/ Pop(p) \/ Detach(p)
       \/ \E c \in Channels :
            \/ RegisterWriter(p, c) \/ RegisterReader(p, c)
            \/ \E o \in Objects : Push(p, c, o)
       \/ \E n \in SegmentNames : GetSegment(p, n)
  \/ \E o \in Objects : DropMessage(o)

Spec == Init /\ [][Next]_vars

-----------------------------------------------------------------------------
\* Properties.

TypeOK ==
  LET segments == 1 .. Len(layouts)
      slot     == [process : {-1, 0}, online : BOOLEAN]
  IN  /\ key \in segments \cup {0}
      /\ Len(layouts) <= MaxSegments
      /\ \A g \in segments :
           /\ layouts[g].inited \in BOOLEAN
           /\ layouts[g].pids \in Seq(Processes)
           /\ Len(layouts[g].pids) <= MaxProcesses
           /\ layouts[g].writers \in Seq([name : Channels, slots : Seq(slot)])
           /\ Len(layouts[g].writers) <= MaxReaders
           /\ layouts[g].names \in Seq(SegmentNames)
           /\ \E p \in Processes : layouts[g].mutex \subseteq {p}
           /\ \A i \in DOMAIN layouts[g].queues :
                layouts[g].queues[i].available \in Len(layouts[g].queues[i].events) .. EventCapacity
      /\ pc \in [Processes -> Pcs]
      /\ id \in [Processes -> segments \cup {0}]
      /\ at \in [Processes -> segments \cup {0}]
      /\ index \in [Processes -> {-1, 0}]
      /\ writer \in [Processes -> [Channels -> Int]]
      /\ refs \in [Objects -> Nat]
      /\ message \subseteq Objects

GrowsTo(s, t) == Len(s) <= Len(t) /\ \A i \in 1 .. Len(s) : t[i] = s[i]

\* What a process has registered in a segment stays there as long as somebody uses it: DomainMetadata::Init lets nobody
\* register before the creator has constructed the tables, and constructs them once.
RegistrationsSurvive ==
  [][\A g \in {h \in 1 .. Len(layouts) : Alive(h)'} :
       /\ GrowsTo(layouts[g].pids, layouts'[g].pids)
       /\ GrowsTo(WriterNames(layouts[g]), WriterNames(layouts'[g]))
       /\ GrowsTo(layouts[g].names, layouts'[g].names)]_vars

\* As long as no process has left (XsiShm::Shutdown), all processes of a domain are attached
\* to the same segment, and XsiShm::Init gave each of them its address.
OneDomainUntilExit ==
  ~left =>
    /\ \A p \in Processes : pc[p] # "bad_address"
    /\ \A p, q \in Processes : at[p] # 0 /\ at[q] # 0 => at[p] = at[q]

\* ShmDomain::Push, which takes no lock, never meets the slot of a reader that is still
\* being registered: the process index it uses is one that a process of the domain has.
PushSeesWholeSlots ==
  \A p \in Processes :
    pc[p] \in {"push_ref", "push_event"} => call[p].target \in {index[q] : q \in {r \in Processes : at[r] = at[p]}} \ {-1}

\* Processes attached to one segment that have registered as writers of the same channel
\* have got the same index, of different channels different ones, so that writers and
\* readers meet in one slot; and a segment has one place in the table, from which all
\* processes compute its address.
NamesAgree ==
  /\ \A p, q \in Processes : at[p] # 0 /\ at[p] = at[q] =>
       \A c, d \in Channels :
         writer[p][c] >= 0 /\ writer[q][d] >= 0 => (writer[p][c] = writer[q][d] <=> c = d)
  /\ \A g \in 1 .. Len(layouts) : \A i, j \in 1 .. Len(layouts[g].names) :
       layouts[g].names[i] = layouts[g].names[j] => i = j

QueuedEvents(o) ==
  {x \in (1 .. Len(layouts)) \X (0 .. MaxProcesses - 1) \X (1 .. EventCapacity) :
     LET events == layouts[x[1]].queues[x[2]].events
     IN  x[3] <= Len(events) /\ events[x[3]] = {o}}

\* Every event that waits in a queue has a reference to its object (ProcessState::Push),
\* whenever the sender drops its message: ref_cnt cannot reach zero under it.
EventsHoldReferences == \A o \in Objects : refs[o] >= Cardinality(QueuedEvents(o))

\* A process in ShmDomainLayout::WaitUntilReady, which has no time limit, waits for somebody:
\* the creator of its segment is still about to initialise it, and will get its address,
\* even if a leaving process has removed the segment meanwhile.
WaitersHaveCreator ==
  \A p \in Processes : pc[p] = "wait" /\ ~Layout(p).inited =>
    \E q \in Processes : pc[q] \in {"attach_new", "layout_init"} /\ id[q] = at[p]

\* ShmDomain::Push is to "get all readers process idx" and "notify each process reader":
\* when the push of an object is over there has been an event for each process
\* that was registered as a reader when it began.
NotifiesEachReader ==
  \A o \in Objects :
    (\A p \in Processes : call[p].object # {o}) => told[o] >= Cardinality(audience[o])
=============================================================================
