# fuxi_n: TLA+ models and proofs

fuxi_n is a C++ library for communication through shared memory on one host. It
has three layers, under `src/fuxi/`:

- `base/`: lock-free building blocks (queues, rings, id allocator, vector,
  thread-local counters);
- `mm/`: page allocators, memory resources and shared-memory ports built on them;
- `shm/`: the domain that processes attach to, with its table of processes, writers
  and readers, and the segments, extents and blocks that hold messages.

The core of the program is in `base/`: everything above hands its concurrency to
those structures. The models start there and go up to the domain, the segments and the
memory resources that use them.

## Inventory

| component | state | operations | what is hard | what makes it correct |
|---|---|---|---|---|
| ConcurrentBoundedQueue (`base/bounded_queue`) | two ticket counters; per slot a 32-bit futex word (16-bit version, waiters mark) and an element | push, pop, push_n, pop_n, try_ forms, compensating push_n/pop_n, timed pop, clear, reserve | MPMC interleavings, 16-bit version wrap, futex sleep against wake, batches over the end of the ring | slots exclusive, k-th pop gets k-th push, no lost wakeup, blocked calls return |
| FlatSignalQueue (`base/flat_signal_queue.h`) | a bounded queue and a counter | TryPush, Push, TryPop, Pop | counter and queue change at different times, signed/unsigned comparison | refuses only when full (empty), never blocks in the try forms |
| RteRing, RingBuffer (`base/rte_ring`, `ring_buffer`, `ring_common`) | head and tail per side, array | DoEnqueue, DoDequeue in single or multi mode | claim, copy, publish by several threads; 32-bit wrap | no element lost or duplicated, spinning ends |
| FlatObjectQueue (`base/flat_object_queue.h`) | a ring of free ids, objects | Initialize, Get, Put | the ring's mode | an object has one owner, Put succeeds |
| IdAllocator, ThreadId (`base/id_allocator`) | counter, versioned free-list head, link array | allocate, deallocate, for_each, end | ABA, version wrap, traversal during changes | ids unique, none lost, dense, traversal complete |
| ConcurrentVector, RetireList (`base/vector`) | block table, list of retired tables | ensure, reserve, snapshot, for_each, retire, gc | concurrent growth, reclamation by time | an element never moves, a table in use is not freed |
| counters (`base/counter`, `thread_local.h`) | one slot per thread, a period version | `<<`, value, reset | reads without synchronisation | sums exact at rest, maxima of a period |
| page allocators (`mm/page_allocator`) | cached free pages, per-thread batches, counts | allocate, deallocate, set capacity | compensation when the cache is empty or full | every page has one owner, none is lost |
| memory resources (`mm/memory_resource`) | chains of pages, oversize pages, destroy tasks | allocate, register_destructor, release | bookkeeping inside the pages it manages | release returns each page once, each destructor runs once |
| shared-memory ports (`mm/port`) | descriptors, addresses | open, create, map, remove | create against open | one creator |
| domain topology (`shm/topo`, `shm/shm_domain`) | header with inited flag, tables of processes, writers, readers, segments, event queues | Init, WaitUntilReady, Register*, Push, Pop | attach by several processes, crash of the creator, table limits, references of refused events | one index per process, every online reader notified |
| segments, extents, blocks (`shm/impl`, `shm/port`) | reference count, inited flag, free block ids, block locks | Initialize, AcquireBlock*, Release*, Destroy | open against remove, timeout of the opener | a block has one writer, a segment in use is not removed |
| configuration, utilities (`shm/impl/shm_conf`, `common`, traits, string_view) | none | pure functions | none | not modelled |

Interactions: FlatSignalQueue calls ConcurrentBoundedQueue; FlatObjectQueue and
ExtentLayout call RteRing; IdAllocator uses ConcurrentVector; the thread-local
storage of the counters is indexed by ThreadId; the page allocators use the
compensating operations of ConcurrentBoundedQueue; ProcessState owns one
FlatSignalQueue per process, in shared memory; ShmDomain::Push walks the readers of
a writer and pushes into the queue of each reader's process.

The places where the code is hard to test are listed in `PROJECT.json` ("hazards").

## Modules

All modules take one atomic access to shared memory, or one futex system call, with
the local computation that follows it, as one step, and assume sequentially
consistent memory: the orderings and fences of the code are not modelled.

**BoundedQueue** models `base/bounded_queue.hpp`. `next` holds the two ticket
counters; `version` and `waiters` are the two halves of a slot's futex word; `data`
is the element, named by the ticket that pushed it; `turn` is a history variable, the
number of times the slot was advanced, of which `version` is the remainder modulo
2^16. A thread has a program counter, the operation it runs (`op`: side, kind, and the
template arguments USE_FUTEX_WAIT and USE_FUTEX_WAKE), the contiguous range it works
on (`base`, `cnt`), what is left for the second range (`rest`), a loop counter
(`pos`) and the version it read last (`seen`).

| actions | code |
|---|---|
| PushOrPop, PushOrPopN, TryPushOrPop, TryPushOrPopN | push/pop, push_n/pop_n, try_push/try_pop, try_push_n/try_pop_n up to the first access |
| Load, MarkWaiter, FutexWait, SpuriousReturn | wait_until_reach_expected_version and its slow paths; futex_wait |
| TryCheck, TryRecheck, TryClaim, TryClaimFails | try_deal |
| TryNCheck, TryNClaim | try_deal_n_continuously |
| Callback | the caller's callback on the slots of the range |
| PublishAndWake, Publish | set_version_and_wakeup_waiters, set_version |
| WakeLoad, WakeClear, WakeAll | wakeup_waiters; futex_wake |

**TicketQueue** is what the queue promises, without slots and versions: tickets are
drawn, the element of push ticket k is stored once ticket k - Capacity was taken out,
and pop ticket k takes out the element of push ticket k. BoundedQueue implements it
(`ImplementsTickets`) with the tickets a slot's `turn` has passed as `stored` and
`taken`.

**BoundedQueueInv** states the inductive invariants. **BoundedQueueProofs** proves the part
about tickets and turns, **BoundedQueueElements** what the slots hold, the refinement of
TicketQueue, what the try operations refuse, and the wakeups.

**FlatSignalQueue** models `base/flat_signal_queue.h` over TicketQueue. Between the
counter and the queue other threads may run. `RingSize` is the capacity rounded up to
a power of two, `Capacity` the number given to Initialize. A behaviour uses one of the
sets of operations in `Mixes`, because what the counter promises depends on which
operations a program combines. `misled` is a history variable: a TryPop was admitted while
a refused TryPush, which counts as an element until it is undone, had not been undone (or
the other way round). Such a TryPop spins on an empty queue, although the queue is
documented as non-blocking, and leaves the counter at -1, where TryPush is refused; the
property `TriesReturn` says that this is the only way in which the try forms do not return.
**FlatSignalQueueProofs** proves what the counter counts.

**RteRing** models `base/rte_ring.hpp` and `ring_common.cc` the way FlatObjectQueue
and ExtentLayout use them: the ring is filled with the ids of a pool, threads dequeue
ids and enqueue ids they hold. `Single` is the is_sp/is_sc argument. **RteRingInv** states the
inductive invariant, **RteRingProofs** proves it.

**IdAllocator** models `base/id_allocator.hpp` for uint16_t. The array of links grows
by blocks; its growth is taken as atomic (`Ensure`). History variables: `stack` (the
free list as it should be), `issued`, `peak`, and what a traversal must and may report.
**IdAllocatorInv** states the inductive invariant, **IdAllocatorProofs** proves it.

**Domain** models `shm/shm_domain.cc`, `shm/topo` and `mm/port/xsi_shm.cc`: how processes
attach to a domain, register in its tables and notify each other. `key` is the
segment that shmget finds, `layouts[g]` the contents of the g-th segment created (inited
flag, process ids, writers with their reader slots, segment names, event queues); a
segment without key and without attached process is destroyed. Per process there are the
id and address it got, its `process_idx_`, the writer indices it was given, and the loop
variables of the call it is in. The tables change under locks, in one step, except that
the stores which make a reader slot visible to Push, which takes no lock, are steps of
their own. `refs` is the reference count of the shared objects.

| actions | code |
|---|---|
| OpenOrCreate, OpenOnly, Attach | XsiShm::Init, one system call each |
| LayoutInit, WaitUntilReady, RegisterProcess | DomainMetadata::Init and ShmDomain::Initialize |
| RegisterWriter, RegisterReader, SetSlotIndex, SetSlotOnline | TopoState |
| GetSegment | ShmDomain::GetSegment, RegisterSegment |
| Push, PushLoop, AddReference, PushEvent | MakeShmObject, ShmDomain::Push, ProcessState::Push |
| Pop, DropMessage | ProcessState::Pop; the deleter of a message |
| Detach, Remove | XsiShm::Shutdown, from the destructor of ShmDomain |

FlatSignalQueue appears in Domain as its counter and its events, with TryPush and Pop
atomic; how they interleave is the subject of the module FlatSignalQueue. A
process whose shmget or shmat failed ends in `bad_address`: the code goes on with a
pointer that is null or -1. **DomainInv** states the inductive invariant, **DomainProofs**
proves it.

**Segment** models `shm/impl/segment.cc`, `segment_metadata`, `segment_state`, `extent`,
`extent_metadata` and `shm/port/xsi_segment.cc`: the segment that holds the blocks of one
channel. `key` is the segment shmget finds, `state[s]` what is in the memory of segment s
(inited flag, reference count, index of the ring of free block ids), `handle[p]` the
members of the XsiSegment of process p. A removed segment keeps its memory while somebody is
attached, as in System V. `lost` and `reopened` are history variables.

| actions | code |
|---|---|
| Call | the `if (inited_ == false)` at the head of NewObject, AcquireBlockToWrite, AcquireBlockToRead |
| OpenOrCreate, OpenOnly, Attach, AttachFails | XsiSegment::OpenOrCreate and OpenOnly, one system call each |
| Construct, CountSelf, Publish | InitPostCreate |
| Poll, Count | InitPostOpen |
| Deal, Take | GetFreeBlockIndex, load and store of the ring's head |
| Destroy, Remove, Reset | ~XsiSegment, Segment::Destroy, XsiSegment::Remove and Reset |
| Crash | external: the process dies between two steps, the kernel detaches it |

**PagePool** models PageHeap and CachedPageAllocator (`mm/page_allocator`) with the
compensating push_n and pop_n of `base/bounded_queue.hpp`, at the grain of one access to
shared memory. `page[slot]` is the cached page, `live` the pages that the upstream allocator
has given (`Upstream`: it gives any page that is free, here the lowest), `range[t]` the part of the ring a call deals with, `hand[t]` the caller's buffer.

| actions | code |
|---|---|
| Begin (Allocate, Deallocate) | PageHeap::allocate/deallocate, pop_n/push_n up to the ticket |
| Wait, Need | deal_n_continuously with a reverse callback: compare the version, look whether enough counterparts have come |
| TryLoad, TryCheck, TryClaim, Compensate | try_push_n/try_pop_n of one element with the reverse callback |
| Callback, Publish | the copy of the range and its versions |
| Beyond | pages beyond the capacity, upstream; the count of PageHeap |
| Leave, Drain | return to the caller; ~CachedPageAllocator |

**MonotonicBuffer** extends PagePool with its callers: BatchPageAllocator and the exclusive
and shared monotonic buffer resources (`mm/memory_resource`). `arrays[t]` is the chain of
page arrays of t's resource, each with the page it is in, `tasks[t]` the chain of destroy
task arrays, `local[t]` the rest of t's batch. A behaviour is about resources of their own
or about one shared resource (`shared`).

| actions | code |
|---|---|
| AllocateObject, RegisterDestructor | do_allocate_already_aligned in the last page; register_destructor |
| Refill, Refilled | BatchPageAllocator::allocate |
| Place, PlaceExtra | do_allocate_in_new_page, do_allocate_with_page_in_new_page_array |
| Release, ReleaseArray, Deallocated | release of both resources |
| Close, CloseBatch, BatchClosed, CloseCache | the destructors of the allocators |

**MonotonicBufferInv** states the inductive invariant of the two modules,
**MonotonicBufferProofs** proves it.

**Vector** models ConcurrentVector and its RetireList (`base/vector.hpp`): `cur` is the
block table in use, `table[a]` and `elem[a]` are what is at address a, `head` the list of
retired tables with its time stamp. Addresses are used again, lowest first.

| actions | code |
|---|---|
| Ensure, Snapshot | ensure, reserve, reserved_snapshot; snapshot |
| Build, Swap | get_qualified_block_table_slow |
| Retire, ReadClock, ReplaceList, Push | RetireList::retire |
| Gc, GcStamp, GcSwap | RetireList::gc |
| Destroy, UnsafeGc | ~ConcurrentVector, RetireList::unsafe_gc: everything is freed, once no call is left |
| Tick | external: the clock |

**Counters** extends Vector with EnumerableThreadLocal (`base/thread_local.h`) and the
counters (`base/counter`). `kind` selects the counter a behaviour is about. History variables
say what a reader may see: `sure` is what one that begins now has to see, `all` what was added
since the counter was made, `may` the values of this period's Maxer records. A Maxer's new slot
has an uninitialised value; the model gives it 0, which only a reader between the two stores of a
first record can see.

| actions | code |
|---|---|
| Add, AddLoad, AddStore | operator<< of ConcurrentAdder and ConcurrentSummer: a load and a store |
| Record, MaxCompare, MaxVersion, MaxValue, MaxRaise | operator<< of ConcurrentMaxer |
| Sample, CheckVersion, ClearMask, SetVersion | operator<< of ConcurrentSampler, up to the bucket: has a new period begun (prepare_sample_bucket) |
| Prepare, DeleteBucket, NewBucket, StoreBucket, ResizeBucket, EmptyBucket, PublishBucket | prepare_sample_bucket: the old bucket is deleted, one is allocated (the same memory or other), its pointer, capacity and count are stored, the mask lets readers in |
| RecordSample, CountSample | the rest of operator<<: the sample, then the number of samples |
| Read, ReadBound, Visit, VisitMax, VisitMask, VisitPointer, VisitBucket, Result | value and for_each |
| Reset, ResetAdder, ResetBound, ResetVisit, ResetDone | reset: a new version, or a 0 in each element of an Adder |
| Exit | ~ThreadId: the thread ends, a later one gets its id and element |
| Renew | a counter is destroyed and another one takes over its instance id |
| SetBucketCapacity, Reserve, Reserved, Collect | set_bucket_capacity; reserve and gc of the vector |
| DestroyVector | Vector's Destroy, and ~Sample, which deletes the buckets |

What `value` of a ConcurrentMaxer promises (`counter.h:66-69`) is the maximum of the period, or
0 when nothing was recorded. The code's result in the second case is numeric_limits::min
(`Least`). And the first record of a period stores the version before the value (`counter.h:227-228`), so a
reader between the two takes the value the slot has from an earlier period. `ReadsAreComplete` excepts this
read (the field `torn` of a job) and no other. A record that was under way at a reset may be
missing in the new period, as the comment at `counter.h:220-225` admits, or still store into it (`may`).

**MC modules** (`MCBoundedQueue`, `MCFlatSignalQueue`, `MCRteRing`, `MCIdAllocator`,
`MCDomain`, `MCSegment`, `MCMonotonicBuffer`, `MCCounters`) add the symmetry sets, mode sets
and call budgets for TLC.

## Runs

| run | expected | shows |
|---|---|---|
| queue | pass | all eight operations, single and in batches that cross the end of the ring, sleeping and waking: slots exclusive, elements match tickets, no lost wakeup, a try gives up only on an index that is still the next and whose counterpart is not done, refinement of TicketQueue, and the inductive invariant `FullInv`, wakeups included, since here every operation wakes (996 607 states) |
| queue_live | pass | pushes that spin and wake against pops that sleep and wake nobody, in batches: a call whose counterparts have arrived returns |
| ids | pass | ids unique, none lost, dense; for_each complete; handles from the free list differ; the inductive invariant `IdInv` (1 974 221 states) |
| ring_multi | pass | every id in one place, Put succeeds, tails follow; the inductive invariant `RingInv` (163 697 states) |
| ring_single | violation | an id in two places |
| signal_count | pass | the counter differs from the size by the direct pushes and pops only; TryPush and TryPop return unless they were misled (223 572 states) |
| signal_process | violation | TryPush refuses while the queue is empty |
| domain | pass | registrations stay, waiting for the creator is never in vain, one domain until somebody leaves, Push meets no half-registered reader, names and indices agree, queued events are counted as references; the inductive invariant `DomInv` (203 058 states) |
| domain_notify | violation | of two processes that read a channel, one is not notified |
| segment | pass | the reference count is the number of handles and of crashed handles; users share the segment that has the key unless one came in behind the last; Initialize returns although the creator may crash (759 027 states) |
| pages | pass | no page is lost, shared or freed twice while pop_n and push_n compensate for each other; page arrays and task arrays are in pages that are still held; PageHeap counts right, all pages come back; all calls return; the inductive invariant `IndInv` (299 946 states) |
| counters | pass | no call uses a freed table; tables, nodes and buckets are freed once, and in the end all of them; elements never move; reads are complete and nothing in them is invented; a bucket that is read is there, is initialised and holds samples of the period only (1 272 988 states) |

Bounds and why they are enough:

- *Queue.* Two slots and three threads: two operations meet on a slot while a third
  overtakes or sleeps. `StartIndex` is 65535, so that with two slots the
  version wraps from 65535 to 0 within the run. `MaxIndex` allows three tickets
  per side, so that a slot is used in two rounds. A batch of two starting at an odd index
  is split.
- *Ids.* Two users and one walker, three ids, three frees, starting two frees before
  the version wraps; blocks of two links, so that the array grows.
- *Ring.* Two slots, two ids, three threads, batches of up to two; the index width is
  scaled down to 16 values, and the start index makes it wrap.
- *Signal queue.* Three threads, five tickets, capacity three in a ring of four, and four
  mixes: TryPush with Pop as in ProcessState, the two try forms alone, these with Push, and
  all four operations.
- *Segment.* Two processes and three segments under the key: a process can remove, and
  another create, a segment while the first is between two steps. Two crashes, so that a
  creator and its successor may both die; a retry limit of two, the smallest with
  which an opener polls and gives up; one block id, so that the ring is met empty.
- *Pages.* Two threads, two cached pages, batches of three (one more than the cache holds),
  pages of two units, page arrays of two and task arrays of one, two calls for one thread
  and one for the other. TLC was asked for witnesses of each of these: compensation by
  push_n, by both sides at once, an array in an additional page, linked page arrays, a
  destructor of another thread's object, a batch beyond the capacity. Nine pages suffice:
  upstream never runs out.
- *Counters.* A writer and a collector that also writes, two calls each (for the sampler three
  and one: a bucket is made, used and replaced while it is read), vectors of up to
  three blocks and eight addresses, so that freed addresses are used again, and new buckets of two capacities
  that need other memory or fit into the old; one reset or renewal (none of the summer, `MCPeriod`, whose storage is that of the adder and the maxer); the summand is 2, so that a sum
  and a number differ. A unit of the time stamp has two ticks and the clock runs for two units. A call lasts at
  most one tick (`Patience`): the run checks calls of at most half a unit, where the retirement of tables
  is designed on the assumption that no call lasts longer than a unit of 64 s. `Timed` lets time
  pass only in the behaviours of the summer; the vector underneath is the same for the other kinds.
- *Domain.* Three processes, of which one that has left may be followed by another, and two
  segments under the key: enough for a process of the first segment to remove the second while its
  creator is between shmget and shmat and another one waits. Three channels for two places in
  the writer table, two objects for one place in the event queue, two places in the process
  table: each table is met full. `MaxCalls` limits registrations, pushes and exits to four
  altogether, as many as the longest of these stories takes.

`CHECK_DEADLOCK FALSE` is set in all runs: with the bounds reached, all threads may
be idle, and a pop without a push waits for ever by design.

Fairness: every `FairSpec` (BoundedQueue, RteRing, FlatSignalQueue, Segment,
MonotonicBuffer) has weak fairness of the steps of each thread or process that is inside an
operation: the operating system keeps scheduling a runnable thread, loops that spin or
yield look again. A process in Segment may crash instead; then it is out of the call.
No fairness is assumed of callers (nobody has to push) or of spurious
returns from futex_wait. A spurious failure of compare_exchange_weak is possible at any
time; queue_live does not use the try operations, so it does not depend on how often.
Symmetry is not used in the liveness runs.

## Findings

- **ring_single**. RteRing ignores the mode given to Init; its callers declare
  several producers and consumers and run in single mode. Two concurrent Get calls return
  the same object.
- **signal_process**. ProcessState pushes with TryPush, which counts, and pops with Pop,
  which does not: after as many events as the capacity every further event is refused.
- **domain_notify**. All processes get process index 0, hence one reader slot per channel
  and one event queue for all: an event reaches one of the reading processes only.

## Proofs

### Tickets and turns

`BoundedQueueProofs` proves, for every capacity, set of threads, batch bound, set of
operation kinds and modes:

- `TypeCorrect`: `Spec => []TypeOK`;
- `InvHolds`: `Spec => []Inv`;
- `SlotExclusion`: `Spec => []SlotExclusive`.

Assumptions: the capacity is positive, a batch is not larger than the ring,
the set of threads is finite with fewer than 2^15 - 1 members.

`SlotExclusive` is not inductive: that two threads never own a slot depends on where
their tickets come from and on what the version they compared means. `Inv` says:

- `LocalOK`, `ClaimsBelowNext`: a thread's range lies in one round of the ring, its
  second range starts the next round, and it lies below the ticket counter;
- `HeldByOne`: no ticket is held by two threads;
- `HeldNotPassed`, `FreeNotPassed`: no slot has been advanced past a ticket that is held
  or not yet drawn;
- `DonePassed`: a slot has been advanced past every ticket drawn and no longer held;
- `VersionIsTurn`: the version is the turn modulo 2^16;
- `ReadyIsTurn`: where a thread found its version, the slot's turn is the thread's turn.

The step from equal versions to equal turns is the heart of the argument (lemmas
`LagBounded` and `VersionReady`): by `DonePassed` every ticket between the slot's
present turn and a waiting thread's turn is held by some thread, and since a thread's
batch holds at most one ticket per slot and side, the turn lags by fewer than 2^16; so
equal remainders are equal turns. A step of a thread is then one of three kinds: it
draws tickets (`ClaimTickets`), it publishes a slot (`PublishTickets`), or it leaves
tickets and turns alone (`QuietTickets`); `StepKinds` sorts the actions into these.

### Segment

`SegmentProofs` proves about Segment, for every finite set of processes and every number of
segments, blocks, retries and crashes:

- `SegmentTypes`: `Spec => []TypeOK`;
- `ReferencesCounted`: `Spec => []CountsHandles`;
- `OneSegment`: `Spec => []UsersShareSegment`.

All three follow from `SegInv` (`SegInvHolds`), which adds to them:

- `HandleShape`: what a handle's members say at each place of the program; in particular a
  process that counts itself, or uses or removes the segment, is on an initialised one;
- `Untouched`: a segment that has not been created is neither initialised nor referred to;
- `OneBuilder`: a segment that is being built has one builder, is not initialised, and its
  count is what the builder itself has put there. Without it `Construct`, which zeroes
  the count, could undo somebody's reference;
- `Shared`, unless `reopened`: the segment that has references, the one under construction
  and the one about to be removed all have the key, and only one process removes.

The step that matters is `Remove`, which takes away whatever has the key. By `Shared` the
remover's own segment has it and its count is 0. The count of a segment with
an initialised handle is not 0 (`CountsHandles`, lemma `UsedIsCounted`), so nobody loses the
key. The clause fails where a handle counts itself on a count of 0, which is the case
`reopened` excludes and the code allows. The lemmas `Frame`, `MemoryStep`, `KeyStep`,
`BuildsStep`, `LostStep` and `CountedKept` say once what a step changes; the proofs of the
clauses cite them.

Assumptions: the set of processes is finite, the bounds are natural numbers.

### What the slots hold, and the refinement

`BoundedQueueElements` builds on `Inv` and proves, under the same assumptions:

- `DataHolds`: `Spec => []DataInv`;
- `CallbackSees`: `Spec => []CallbackSeesItsTicket`;
- `RefinesTickets`: `Spec => ImplementsTickets`, the refinement of TicketQueue;
- `TryRefuses`: `Spec => TryRefusesOnlyFullOrEmpty`, an action property.

`DataInv` says what a slot holds as a function of its turn (`Content`): nothing when a push is
to come, and when a pop is to come the element of the push ticket with the same number. Only a slot
between its callback and its publication is ahead of this by one turn. A callback leaves the turn alone
and writes what the next turn calls for, a publication moves the turn and leaves the element
alone; by `SlotExclusive` no two threads are between the two on one slot. For the refinement the tickets that
a slot's turn has passed are the ones stored and taken; each kind of step of `StepKinds` is a
step of TicketQueue or a stutter. A publication is a step that stores or takes
ticket k, whose guard in TicketQueue, that the counterpart is done, is that
the turn was k's turn.

`TryRefusesOnlyFullOrEmpty` is about what a try operation sees while others are at work. It
reads an index, then the version of the slot. When the version is not the expected one, either
somebody has drawn the index meanwhile, or the index is the next one and the slot's turn is behind: the
counterpart has not been published. Were the turn not behind it would be equal (nobody
passes a free ticket, `FreeNotPassed`), and so would be the version (`VersionIsTurn`). try_deal then reads the index
again and gives up only if it has not changed; indices only grow, so its look was of the second kind. With
nobody else in the queue, by `DonePassed`, the slots are passed exactly up to the ticket counters, so
the queue is full or empty.

### Wakeups

`BoundedQueueElements` also proves `WakeupsArrive`: if every operation is instantiated with
USE_FUTEX_WAKE (`EveryoneWakes`), then `Spec => []NoLostWakeup`. The hypothesis is needed: an
operation without it publishes and wakes nobody, which is what these template arguments are for,
and the sleeper is then woken by a later operation or not at all (`queue_live` shows the combination
for which the callers rely on it). The inductive part is `WakeOK`: a thread that is about to mark itself
or to sleep has seen a version that is not the one it waits for. So when the version it waits
for is published, either the word has changed since it looked, and futex_wait returns, or its mark is in
the word that the publisher has exchanged, and the publisher is on its way to futex_wake. `FullInvHolds` puts
the three invariants together; the run `queue` checks the same formula.

### IdAllocator

`IdAllocatorProofs` proves, for any finite set of threads and any number of ids and blocks:

- `InvHolds`: `Spec => []IdInv`;
- `UniqueIds`, `IdsKept`, `CompactIds`, `TraversalsComplete`: `Spec => []` of `IdsUnique`,
  `NoIdLost`, `IdsCompact` and `ForEachComplete`;
- `NewVersions`: `Spec => ReusedHandlesDiffer`, an action property.

`IdsUnique` is not inductive: it depends on what a thread has read and not yet used. The argument is about the
version in the head, which counts the calls of deallocate (`HeadVersion`). A thread between the
load of the head and its compare_exchange has a version the head once had (`ReadOK`). If the head
has the same version, no deallocate has completed in between, because the bound keeps the frees below
2^16 (lemma `VersionsDiffer`: versions of fewer than 2^16 consecutive frees differ); so the list has only been
shortened, and if the id at its head is still the one the thread read, it was not taken, and its link
is the one the thread read. `PlacesDisjoint` and `NoIdLost` say that the ids drawn are in one place each: in the
list, in use, or in the hand of a thread. `DrawsCounted` counts them (`AllBusy`: when a thread finds the list
empty, all the ids drawn are busy). `HandlesDiffer` keeps for each handle that came from the list
the free that gave it its version, and an id that is free again has been through a later one. `ScanOK`
says of a traversal that it has reported, or will with the run it has open, every id below its position that has been in use
all the time, and reports nothing that has not been.

Assumptions: threads finite, fewer than 2^16 calls of deallocate in a behaviour (`MaxFrees`). Without the
second the code's version wraps round, and the properties fail for a thread that is
suspended for 2^16 of them.

### RteRing

`RteRingProofs` proves about the ring in multi mode (`~Single`), for every finite set of threads, every
capacity, number of ids, batch bound, index width and starting index:

- `RingInvHolds`: `Spec => []RingInv`, and `TypeCorrect`: `Spec => []TypeOK`;
- `NoIdLostOrDoubled`: `Spec => []EachIdInOnePlace`;
- `PutNeverFails`: `Spec => PutSucceeds`, an action property.

In single mode the second one fails, as the run `ring_single` shows. The code compares indices that wrap.
`RingInv` speaks of positions instead, counted from the starting index without wrapping, and the lemmas
`PlusPosition`, `Distance` and `SlotPosition` say that the code's arithmetic on indices is arithmetic on positions and that
the mask gives the same slot. On that line (`LineOK`) the consumers' tail, their head, the producers' tail and their head
follow each other, within one capacity. A call that has moved the head of its side has a piece of the line between tail and
head (`ClaimOK`); the pieces of a side are apart (`Apart`) and leave no gap (`NoGaps`), so the
one that starts at the tail is the one that may publish. `InOneSpot` is `EachIdInOnePlace` in
positions: each action moves an id from one spot to another or moves none. A producer writes into a slot that is neither
published nor claimed by a consumer, because two positions less than a capacity apart have different slots (`SlotsDiffer`).

`PutSucceeds` is a count. A producer that finds no room would have, between the consumers' tail and the
producers' head as it is now, and in its own table, more positions than there are ids; each of them is
the place of an id (`PositionHasId`), no two of the same (`RoomForPut`). The invariant is needed here because the producer's
head is old and the tail is new.

Assumptions: threads finite; the width of an index a multiple of the capacity, as 2^32 is of a power of two; and
a behaviour draws fewer ids than an index can count (`MaxDraws`). The starting index is arbitrary, so the wrap is
in these behaviours, but an index does not come round to a value that a suspended call has read. In the code it may, for a call
that is suspended while 2^32 ids are drawn.

### MonotonicBuffer and PagePool

`MonotonicBufferProofs` proves, for every finite set of threads, every capacity of the page cache, batch
size, size of pages and arrays and set of pages upstream may give:

- `IndInvHolds`: `Spec => []IndInv`, and `BufferTypesHold`: `Spec => []TypeOK`;
- `NoPageLostOrDoubled`: `Spec => []EachPageInOnePlace`;
- `ListsReadable`: `Spec => []ListsLiveInHeldPages`;
- `PagesCounted`: `Spec => []CountsAndReturnsPages`.

None of the last three is inductive. Where a page is depends on which call owns its slot, that on
the tickets; where the lists are depends on who uses a resource. `IndInv` says:

- `TicketInv`, as for BoundedQueue: no ticket has two holders, no slot has passed a ticket that is not
  drawn, every slot has passed the tickets drawn and used. What is new is compensation: a call of
  pop_n whose counterpart is late takes a ticket of push and does both. It checks the slot
  before it claims that ticket by compare_exchange. `ReadyIsTurn` says why the check is still good:
  if the counter is what the call has read, nobody else drew the ticket, and the turn of its slot
  cannot have moved (`FreeNotPassed`). Versions are not cut to 16 bits here; BoundedQueue shows what that needs;
- `SlotsOK`: a slot holds a page when it is a pop's turn, except between callback and publication;
- `HandOK`: what is in a call's buffer, from how far the call has come;
- `CountInv`: the heap's count is the number of pages out, less those popped and not counted yet, plus
  those pushed and not discounted yet;
- `PagesInv`: each live page is in one box (slots, hands, batches, arrays, or kept by a call) and no box
  has one twice. It is `EachPageInOnePlace`, box by box: every action moves pages from one box to
  another, takes them from upstream or gives them back;
- `ResourceInv`: the pointers a call has into a resource are to pages this resource holds (`OpOK`), nobody
  else is in a resource that is being released (`Alone`), and the last page is one the resource holds
  except while its arrays are freed (`LastOK`);
- `ListsLiveInHeldPages` and `Emptied` (nothing is left after the last destructor).

`release` frees the page arrays newest first, and each array is in a page that the array itself or an older
one lists; so what is left of the chain is in pages still held (`ReleaseArrayInd`). The batches returned
together are disjoint because the boxes are.

Assumptions (`PoolConstants`, `BufferConstants`): threads finite; capacity, page size, batch size and
task arrays positive; a page array has room for two pages, the one it is in and another; no page is the null pointer.

### FlatSignalQueue

`FlatSignalQueueProofs` proves `CountHolds`, `Spec => []CountInv`, and from it `NoDrift`,
`Spec => []CountDrift`, for every finite set of threads, every capacity and every set of mixes.
`CountInv` is the balance at every step: `available` is the number of elements, less
those that went past the counter, plus the calls that have counted an element that is not in the queue
(or will undo it), less the calls that have discounted one that is still there.

### Domain

`DomainProofs` proves, for any finite set of processes and any sizes of the tables:

- `DomInvHolds`: `Spec => []DomInv`, and `TypesHold`: `Spec => []TypeOK`, so no table outgrows its bound;
- `OneDomain`, `PushNeedsNoLock`, `OnePlaceForAName`, `NoEventOutlivesItsObject`, `NobodyWaitsForNobody`:
  `Spec => []` of `OneDomainUntilExit`, `PushSeesWholeSlots`, `NamesAgree`, `EventsHoldReferences` and
  `WaitersHaveCreator`;
- `NoRegistrationIsLost`: `Spec => RegistrationsSurvive`, an action property.

`DomInv` says what the tables of a segment look like (`LayoutsOK`: within their bounds, no name twice,
a slot that is online has its process index, a queue counts no fewer than its events, all zeros until the
flag is set), and what a process may rely on at each place of the program (`ProcOK`: its address, its
index, the writers it was given, the slot and the object of the call it is in). None of the properties about processes
is inductive without the other: Push reads without the lock what other processes store. The argument
is that the tables of a segment in use only grow (`Extends`, lemma `LayoutsGrow`), so that a process that takes no
step keeps what it relies on (lemma `OthersOK`), and each action has to be shown for the process
that takes it. `HasCreator` is stronger than `WaitersHaveCreator`: any segment that is in use and not initialised has a
creator on its way, whether somebody waits or not. A process that finds the key between shmget
and the creator's shmat relies on that. `OneSegment` says that until a process leaves there has been one segment, which the key names.
`ReferencesOK` counts: an object has a reference for each of its events in a queue, for each process between
AddReference and PushEvent, and for the message as long as it is held. Two events of an object are told apart by the
place in the queue, and Pop moves the places by one, so its step needs an injection of the new places into the old.

Assumptions: processes finite, the sizes of the tables positive.

### Only model-checked

All liveness, since fairness is out of the prover's reach: `ServedReturns` (BoundedQueue),
`TailFollows` (RteRing), `TriesReturn` (FlatSignalQueue), `InitializeReturns` (Segment), `CallsReturn`
(MonotonicBuffer). The safety properties of Counters: `FreedInTime`, `ReadsAreComplete`,
`SamplesOfThePeriod` and the action property `ElementsStay`. The first rests on time (a call is shorter than a unit of the time stamp), on
addresses that are used again and on the list of retired tables, which is followed by a recursive
definition (`ListFrom`); about what recursion computes nothing can be proved with the induction over
data out of the prover's reach, and the other three need the first.

## Plan

Models: FlatSignalQueue over BoundedQueue itself, where a Push that sleeps on a full queue
meets a TryPop that wakes nobody; IdAllocator over Vector instead of its atomic `Ensure`;
the timed pop; oversize pages of the monotonic buffers; ShmArena over Segment.

Proofs: `FreedInTime`, with the list of retired tables as a history variable that the
recursive definition is compared with by TLC, and from it `ReadsAreComplete`.

## Not modelled

Weak memory; the CONCURRENT = false variants of the queue (one caller by contract);
the timed wait and reserve_and_clear of a queue in use; constructors, moves and swaps
of whole structures and the setters of the page allocators (before use);
oversize pages, `contains` and the space counters of the memory resources;
for_each_alive, and which sample a full bucket replaces; several threads on
one segment handle and the block locks, which have no caller; processes of a domain that
die inside a call, and errors of system calls other than a segment that exists or has
gone; ParseFromShmObject and the arena; a table of segments that overflows: RegisterSegment
(`shm/topo/domain_layout.cc:21`) has no bound, and the run keeps the table within its size; the 32 sizes of sample buckets: the comments at
`counter.h:134` and `:273` put values from 2^31 up into bucket 30 while the code masks the top bit; the allocator adapters, which forward to a memory
resource; formatting, logging, traits and string_view.
