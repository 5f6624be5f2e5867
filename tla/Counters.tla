------------------------------ MODULE Counters ------------------------------
(***************************************************************************)
(* Counters that are written by many threads and read by few               *)
(* (base/counter.h, counter.cc), on EnumerableThreadLocal                  *)
(* (base/thread_local.h), on the ConcurrentVector of module Vector.  A     *)
(* thread counts in an element of its own, found by its thread id and      *)
(* created when it is first asked for; a reader takes a snapshot of the    *)
(* vector and visits all elements.                                         *)
(*                                                                         *)
(* A behaviour is about one counter: a ConcurrentAdder, a ConcurrentSummer,*)
(* a ConcurrentMaxer or a ConcurrentSampler.  One thread, the collector,   *)
(* reads and resets.  A thread that ends gives its id back, and the next   *)
(* new thread goes on counting in its element.                             *)
(***************************************************************************)
EXTENDS Vector

CONSTANTS
  Collector,   \* the thread that reads and resets
  Kinds,       \* the kinds of counter
  Timed,       \* bound: the kinds during whose use time passes and reserve and gc are called
  Values,      \* values recorded in a ConcurrentMaxer
  Summand,     \* the value added to a ConcurrentAdder or ConcurrentSummer
  InitialCapacity, Capacities,  \* _bucket_capacity at first, and the values it is set to
  MaxCalls,    \* bound: MaxCalls[kind][t] calls of t
  MaxPeriod    \* bound: MaxPeriod[kind] resets and renewals

ASSUME CounterConstants ==
  /\ Collector \in Threads
  /\ Kinds \subseteq {"adder", "summer", "maxer", "sampler"} /\ Timed \subseteq Kinds
  /\ Values \subseteq Nat /\ Summand \in Nat \ {0} /\ Capacities \cup {InitialCapacity} \subseteq Nat \ {0}
  /\ MaxCalls \in [Kinds -> [Threads -> Nat]] /\ MaxPeriod \in [Kinds -> Nat]

VARIABLES
  kind,      \* the counter this behaviour is about
  id,        \* id[t]: ThreadId::current_thread_id of t, 0 before it has one
  free,      \* ids given back, the last one first
  end,       \* ThreadId::end
  version,   \* _version, the period
  capacity,  \* _bucket_capacity
  bucket,    \* bucket[a]: the sample bucket at a
  buckets,   \* addresses that hold a bucket
  job,       \* job[t]: the operation t is in
  calls,     \* calls[t]: operations counted against MaxCalls
  period,    \* history: resets and renewals done
  sure,      \* history: what a reader has to see, counts or maximum, all of this period
  all,       \* history: what has been added to this counter, resets or not
  may        \* history: the values given to a Maxer by calls that began or ran in this period

vars == <<vector, kind, id, free, end, version, capacity, bucket, buckets, job, calls,
          period, sure, all, may>>
statics == <<kind, id, free, end, version, capacity, period>>
seen == <<sure, all, may>>

\* numeric_limits::min(), the result of a Maxer while no slot has been found.
Least == -1

\* The element of a thread: the sum or maximum; the number of a Summary; the version of a
\* Maxer's slot (SIZE_MAX at first) and of a Sample; whether the bucket's bit in
\* non_empty_bucket_mask is set; the bucket.  The value of a new Maxer's slot is whatever the
\* memory held, here 0: only a reader between the two stores of a first record reads it.
BlankSlot == [v |-> 0, num |-> 0, maxVersion |-> -1, version |-> 0, nonEmpty |-> FALSE, bucket |-> Null]

\* A bucket as operator new returns it: capacity and record_num are not initialised.
Garbage  == -1
NoBucket == [cap |-> Garbage, num |-> Garbage, data |-> <<>>]

\* What the operation is and where it stands; its value, or the bucket it has in hand; the
\* capacity read; the version read; the next element to visit and the bound; the sum or
\* maximum so far and the number; what it must at least see, or the period it began in;
\* whether it has read a slot between the two stores of its owner.
NoJob == [op |-> "none", at |-> "start", x |-> 0, cap |-> 0, ver |-> 0, i |-> 1, n |-> 0,
          acc |-> 0, num |-> 0, low |-> 0, torn |-> FALSE]

\* What a reader of a counter without records has to see.
Nothing == IF kind = "maxer" THEN Least ELSE 0

Init ==
  /\ VectorInit
  /\ kind \in Kinds
  /\ id = [t \in Threads |-> 0] /\ free = <<>> /\ end = 0
  /\ version = 0
  /\ capacity = InitialCapacity
  /\ bucket = [a \in Addrs |-> NoBucket] /\ buckets = {}
  /\ job = [t \in Threads |-> NoJob]
  /\ calls = [t \in Threads |-> 0]
  /\ period = 0 /\ sure = Nothing /\ all = 0 /\ may = {}

Larger(a, b) == IF a > b THEN a ELSE b
Smaller(a, b) == IF a < b THEN a ELSE b

\* t's element, and element i of t's snapshot.
At(t, i) == table[me[t].tab][i]
Mine(t) == At(t, id[t])
Slot(t) == elem[Mine(t)]
Store(t, r) == elem' = [elem EXCEPT ![Mine(t)] = r]
Doing(t, op, at) == pc[t] = "got" /\ job[t].op = op /\ job[t].at = at
Then(t, at) == job' = [job EXCEPT ![t].at = at]
Leave(t) ==
  /\ pc' = [pc EXCEPT ![t] = "idle"]
  /\ me' = [me EXCEPT ![t] = NoCall]
  /\ job' = [job EXCEPT ![t] = NoJob]
Frame == UNCHANGED <<cur, table, tables, blocks, head, node, nodes, tick>>

\* current_thread_id: given at the first call of a thread, which takes the id given back
\* last, or a new one.
CurrentThreadId(t) ==
  IF id[t] # 0 THEN id[t] ELSE IF free # <<>> THEN Head(free) ELSE end + 1

\* local(): the element of the thread's id.
Local(t, op, x) ==
  LET k == CurrentThreadId(t)
  IN /\ calls[t] < MaxCalls[kind][t]
     /\ id' = [id EXCEPT ![t] = k]
     /\ free' = IF id[t] = 0 /\ free # <<>> THEN Tail(free) ELSE free
     /\ end' = Larger(end, k)
     /\ Ensure(t, k)
     /\ job' = [job EXCEPT ![t] = [NoJob EXCEPT !.op = op, !.x = x, !.low = period]]
     /\ calls' = [calls EXCEPT ![t] = @ + 1]
     /\ UNCHANGED <<kind, version, capacity, bucket, buckets, period, sure, all>>

\* ~ThreadId: the thread ends.  Whoever calls next in its place is a new thread.
Exit(t) ==
  /\ pc[t] = "idle" /\ id[t] # 0
  /\ id' = [id EXCEPT ![t] = 0]
  /\ free' = <<id[t]>> \o free
  /\ UNCHANGED <<vector, kind, end, version, capacity, bucket, buckets, job, calls, period, seen>>

\* reserve of a vector that somebody wants larger, and gc.
Reserve(t) ==
  /\ t = Collector /\ kind \in Timed
  /\ calls[t] < MaxCalls[kind][t]
  /\ \E n \in Size(cur) + 1 .. MaxBlocks : Ensure(t, n)
  /\ job' = [job EXCEPT ![t] = [NoJob EXCEPT !.op = "reserve"]]
  /\ calls' = [calls EXCEPT ![t] = @ + 1]
  /\ UNCHANGED <<statics, bucket, buckets, seen>>

Reserved(t) ==
  /\ Doing(t, "reserve", "start")
  /\ Leave(t)
  /\ Frame /\ UNCHANGED <<elem, statics, bucket, buckets, calls, seen>>

Collect(t) ==
  /\ t = Collector /\ kind \in Timed
  /\ calls[t] < MaxCalls[kind][t]
  /\ Gc(t)
  /\ calls' = [calls EXCEPT ![t] = @ + 1]
  /\ UNCHANGED <<statics, bucket, buckets, job, seen>>

-----------------------------------------------------------------------------
\* ConcurrentAdder and ConcurrentSummer, whose pair of sum and number is loaded and stored
\* as one.

Add(t) ==
  /\ kind \in {"adder", "summer"}
  /\ Local(t, "add", Summand)
  /\ UNCHANGED may

\* local = local + value: a load and a store.
AddLoad(t) ==
  /\ Doing(t, "add", "start")
  /\ job' = [job EXCEPT ![t].acc = Slot(t).v, ![t].num = Slot(t).num, ![t].at = "store"]
  /\ Frame /\ UNCHANGED <<elem, pc, me, statics, bucket, buckets, calls, seen>>

\* An addition counts for readers when no reset was under way since it began.
Counted(t) == job[t].low = period /\ \A u \in Threads : job[u].op # "reset"

\* The element with the value added to what was loaded, and 1 to the number of a Summary.
Summed(t) ==
  [Slot(t) EXCEPT !.v = job[t].acc + job[t].x,
                  !.num = IF kind = "summer" THEN job[t].num + 1 ELSE @]

AddStore(t) ==
  /\ Doing(t, "add", "store")
  /\ Store(t, Summed(t))
  /\ sure' = IF Counted(t) THEN sure + job[t].x ELSE sure
  /\ all' = all + job[t].x
  /\ Leave(t)
  /\ Frame /\ UNCHANGED <<statics, bucket, buckets, calls, may>>

-----------------------------------------------------------------------------
\* ConcurrentMaxer.

Record(t) ==
  /\ kind = "maxer"
  /\ \E x \in Values : Local(t, "max", x) /\ may' = may \cup {x}

\* A record counts for the reader when no reset came between its begin and its end.
MaxDone(t) ==
  /\ sure' = IF Counted(t) THEN Larger(sure, job[t].x) ELSE sure
  /\ Leave(t)

MaxCompare(t) ==
  /\ Doing(t, "max", "start")
  /\ Then(t, IF Slot(t).maxVersion # version THEN "version" ELSE "raise")
  /\ Frame /\ UNCHANGED <<elem, pc, me, statics, bucket, buckets, calls, seen>>

MaxRaise(t) ==
  /\ Doing(t, "max", "raise")
  /\ Store(t, [Slot(t) EXCEPT !.v = Larger(@, job[t].x)])
  /\ MaxDone(t)
  /\ Frame /\ UNCHANGED <<statics, bucket, buckets, calls, all, may>>

\* The first record in a period: the version, then the value.
MaxVersion(t) ==
  /\ Doing(t, "max", "version")
  /\ Store(t, [Slot(t) EXCEPT !.maxVersion = version])
  /\ Then(t, "value")
  /\ Frame /\ UNCHANGED <<pc, me, statics, bucket, buckets, calls, seen>>

MaxValue(t) ==
  /\ Doing(t, "max", "value")
  /\ Store(t, [Slot(t) EXCEPT !.v = job[t].x])
  /\ MaxDone(t)
  /\ Frame /\ UNCHANGED <<statics, bucket, buckets, calls, all, may>>

-----------------------------------------------------------------------------
\* ConcurrentSampler, with one of its buckets.  A sample is the period it was taken in.

Sample(t) == kind = "sampler" /\ Local(t, "sample", Null) /\ UNCHANGED may

AllocateSize(cap) == (cap + 1) \div 2

\* prepare_sample_bucket: has a new period begun?
CheckVersion(t) ==
  /\ Doing(t, "sample", "start")
  /\ job' = [job EXCEPT ![t].ver = version,
                        ![t].at = IF Slot(t).version # version THEN "mask" ELSE "prepare"]
  /\ Frame /\ UNCHANGED <<elem, pc, me, statics, bucket, buckets, calls, seen>>

ClearMask(t) ==
  /\ Doing(t, "sample", "mask")
  /\ Store(t, [Slot(t) EXCEPT !.nonEmpty = FALSE])
  /\ Then(t, "version")
  /\ Frame /\ UNCHANGED <<pc, me, statics, bucket, buckets, calls, seen>>

SetVersion(t) ==
  /\ Doing(t, "sample", "version")
  /\ Store(t, [Slot(t) EXCEPT !.version = job[t].ver])
  /\ Then(t, "prepare")
  /\ Frame /\ UNCHANGED <<pc, me, statics, bucket, buckets, calls, seen>>

\* Where the bucket is taken as it is (its bit is in the mask), is only emptied, is given
\* another capacity in the memory it has, or has to be replaced by another.
BucketUse(t) ==
  LET b == Slot(t).bucket
  IN CASE Slot(t).nonEmpty -> "record"
       [] ~Slot(t).nonEmpty /\ b # Null /\ bucket[b].cap = capacity -> "empty"
       [] ~Slot(t).nonEmpty /\ b # Null /\ bucket[b].cap # capacity
            /\ AllocateSize(bucket[b].cap) = AllocateSize(capacity) -> "resize"
       [] OTHER -> "delete"

\* Mutant of Prepare: the mask is written before the bucket is ready.
PreparePublishing(t) ==
  /\ Doing(t, "sample", "prepare")
  /\ job' = [job EXCEPT ![t].x = Slot(t).bucket, ![t].cap = capacity, ![t].at = BucketUse(t)]
  /\ Store(t, [Slot(t) EXCEPT !.nonEmpty = TRUE])
  /\ Frame /\ UNCHANGED <<pc, me, statics, bucket, buckets, calls, seen>>

\* The mask, the bucket and the capacity are read.  (The capacity is read twice: a change
\* in between has the effect of an earlier or later one.)
Prepare(t) ==
  /\ Doing(t, "sample", "prepare")
  /\ job' = [job EXCEPT ![t].x = Slot(t).bucket, ![t].cap = capacity, ![t].at = BucketUse(t)]
  /\ Frame /\ UNCHANGED <<elem, pc, me, statics, bucket, buckets, calls, seen>>

\* operator delete of the old bucket, if there is one.
DeleteBucket(t) ==
  /\ Doing(t, "sample", "delete")
  /\ buckets' = buckets \ {job[t].x}
  /\ Then(t, "new")
  /\ Frame /\ UNCHANGED <<elem, pc, me, statics, bucket, calls, seen>>

\* operator new, which may return the memory just freed, or other memory.
NewBucket(t) ==
  /\ Doing(t, "sample", "new")
  /\ \E old \in {buckets, buckets \cup {job[t].x}} :
       LET a == Lowest(Addrs \ old, 1)[1]
       IN /\ buckets' = buckets \cup {a}
          /\ bucket' = [bucket EXCEPT ![a] = NoBucket]
          /\ job' = [job EXCEPT ![t].x = a, ![t].at = "pointer"]
  /\ Frame /\ UNCHANGED <<elem, pc, me, statics, calls, seen>>

StoreBucket(t) ==
  /\ Doing(t, "sample", "pointer")
  /\ Store(t, [Slot(t) EXCEPT !.bucket = job[t].x])
  /\ Then(t, "resize")
  /\ Frame /\ UNCHANGED <<pc, me, statics, bucket, buckets, calls, seen>>

ResizeBucket(t) ==
  /\ Doing(t, "sample", "resize")
  /\ bucket' = [bucket EXCEPT ![job[t].x].cap = job[t].cap]
  /\ Then(t, "empty")
  /\ Frame /\ UNCHANGED <<elem, pc, me, statics, buckets, calls, seen>>

EmptyBucket(t) ==
  /\ Doing(t, "sample", "empty")
  /\ bucket' = [bucket EXCEPT ![job[t].x].num = 0]
  /\ Then(t, "publish")
  /\ Frame /\ UNCHANGED <<elem, pc, me, statics, buckets, calls, seen>>

\* Its bit in the mask lets readers in.
PublishBucket(t) ==
  /\ Doing(t, "sample", "publish")
  /\ Store(t, [Slot(t) EXCEPT !.nonEmpty = TRUE])
  /\ Then(t, "record")
  /\ Frame /\ UNCHANGED <<pc, me, statics, bucket, buckets, calls, seen>>

\* xorshift128_rand() % (record_num + 1): any place, or 0 for the sample not to be kept.
Draws(bound) == 0 .. bound

\* operator<<: a free place, or, when the bucket is full, perhaps the place of another.
RecordSample(t) ==
  /\ Doing(t, "sample", "record")
  /\ LET b == job[t].x
         m == bucket[b]
     IN \E k \in IF m.num < m.cap THEN {m.num + 1} ELSE Draws(m.cap) :
          bucket' = [bucket EXCEPT ![b].data =
            [i \in 1 .. Larger(Len(@), k) |-> IF i = k THEN job[t].ver ELSE @[i]]]
  /\ Then(t, "count")
  /\ Frame /\ UNCHANGED <<elem, pc, me, statics, buckets, calls, seen>>

CountSample(t) ==
  /\ Doing(t, "sample", "count")
  /\ bucket' = [bucket EXCEPT ![job[t].x].num = @ + 1]
  /\ Leave(t)
  /\ Frame /\ UNCHANGED <<elem, statics, buckets, calls, seen>>

-----------------------------------------------------------------------------
\* The collector.

\* value() and for_each: the version of the period, the snapshot.
Read(t) ==
  /\ t = Collector /\ calls[t] < MaxCalls[kind][t]
  /\ Snapshot(t)
  /\ job' = [job EXCEPT ![t] = [NoJob EXCEPT !.op = "read", !.ver = version, !.acc = Nothing, !.low = sure]]
  /\ calls' = [calls EXCEPT ![t] = @ + 1]
  /\ UNCHANGED <<statics, bucket, buckets, seen>>

\* EnumerableThreadLocal::for_each visits min(ThreadId::end, size of the snapshot).
Bound(t) == Smaller(end, Size(me[t].tab))

ReadBound(t) ==
  /\ Doing(t, "read", "start")
  /\ job' = [job EXCEPT ![t].n = Bound(t), ![t].at = "visit"]
  /\ Frame /\ UNCHANGED <<elem, pc, me, statics, bucket, buckets, calls, seen>>

\* The element is read; or, the version being another one, passed over; or looked into.
Visited(j, s) ==
  CASE kind \in {"adder", "summer"} -> [j EXCEPT !.acc = @ + s.v, !.num = @ + s.num, !.i = @ + 1]
    [] kind = "maxer" -> IF s.maxVersion = version THEN [j EXCEPT !.at = "value"] ELSE [j EXCEPT !.i = @ + 1]
    [] OTHER -> IF s.version = j.ver THEN [j EXCEPT !.at = "mask"] ELSE [j EXCEPT !.i = @ + 1]

Visit(t) ==
  /\ Doing(t, "read", "visit")
  /\ LET j == job[t]
     IN job' = [job EXCEPT ![t] =
          IF j.i > j.n THEN [j EXCEPT !.at = "result"] ELSE Visited(j, elem[At(t, j.i)])]
  /\ Frame /\ UNCHANGED <<elem, pc, me, statics, bucket, buckets, calls, seen>>

\* history: the owner of element i has stored its version and not yet its value.
BetweenStores(i) == \E u \in Threads : id[u] = i /\ Doing(u, "max", "value")

VisitMax(t) ==
  /\ Doing(t, "read", "value")
  /\ job' = [job EXCEPT ![t].acc = Larger(@, elem[At(t, job[t].i)].v),
                        ![t].torn = @ \/ BetweenStores(job[t].i),
                        ![t].i = @ + 1, ![t].at = "visit"]
  /\ Frame /\ UNCHANGED <<elem, pc, me, statics, bucket, buckets, calls, seen>>

VisitMask(t) ==
  /\ Doing(t, "read", "mask")
  /\ job' = [job EXCEPT ![t] = IF elem[At(t, @.i)].nonEmpty THEN [@ EXCEPT !.at = "pointer"]
                               ELSE [@ EXCEPT !.at = "visit", !.i = @ + 1]]
  /\ Frame /\ UNCHANGED <<elem, pc, me, statics, bucket, buckets, calls, seen>>

VisitPointer(t) ==
  /\ Doing(t, "read", "pointer")
  /\ job' = [job EXCEPT ![t].x = elem[At(t, job[t].i)].bucket, ![t].at = "bucket"]
  /\ Frame /\ UNCHANGED <<elem, pc, me, statics, bucket, buckets, calls, seen>>

\* The callback has the bucket.
VisitBucket(t) ==
  /\ Doing(t, "read", "bucket")
  /\ job' = [job EXCEPT ![t].at = "visit", ![t].i = @ + 1, ![t].x = 0]
  /\ Frame /\ UNCHANGED <<elem, pc, me, statics, bucket, buckets, calls, seen>>

Result(t) ==
  /\ Doing(t, "read", "result")
  /\ Leave(t)
  /\ Frame /\ UNCHANGED <<elem, statics, bucket, buckets, calls, seen>>

\* reset of Maxer and Sampler.  The values of records under way may still come.
Reset(t) ==
  /\ t = Collector /\ pc[t] = "idle" /\ kind \in {"maxer", "sampler"} /\ period < MaxPeriod[kind]
  /\ version' = version + 1
  /\ period' = period + 1
  /\ sure' = Nothing
  /\ may' = {job[u].x : u \in {u \in Threads : job[u].op = "max"}}
  /\ UNCHANGED <<vector, kind, id, free, end, capacity, bucket, buckets, job, calls, all>>

\* reset of Adder stores 0 in one element after the other.
ResetAdder(t) ==
  /\ t = Collector /\ kind = "adder" /\ period < MaxPeriod[kind]
  /\ Snapshot(t)
  /\ job' = [job EXCEPT ![t] = [NoJob EXCEPT !.op = "reset"]]
  /\ UNCHANGED <<statics, bucket, buckets, calls, seen>>

ResetBound(t) ==
  /\ Doing(t, "reset", "start")
  /\ job' = [job EXCEPT ![t].n = Bound(t), ![t].at = "visit"]
  /\ Frame /\ UNCHANGED <<elem, pc, me, statics, bucket, buckets, calls, seen>>

ResetVisit(t) ==
  /\ Doing(t, "reset", "visit") /\ job[t].i <= job[t].n
  /\ elem' = [elem EXCEPT ![At(t, job[t].i)].v = 0]
  /\ job' = [job EXCEPT ![t].i = @ + 1]
  /\ Frame /\ UNCHANGED <<pc, me, statics, bucket, buckets, calls, seen>>

ResetDone(t) ==
  /\ Doing(t, "reset", "visit") /\ job[t].i > job[t].n
  /\ period' = period + 1
  /\ sure' = 0
  /\ Leave(t)
  /\ Frame /\ UNCHANGED <<elem, kind, id, free, end, version, capacity, bucket, buckets, calls, all, may>>

\* The counter is destroyed, which nobody may be using, and another one is made: the
\* destructor of CompactEnumerableThreadLocal clears its value in every cache line, gives its
\* instance id back, and the next instance takes that id and these values over.
Cleared ==
  LET used == {table[cur][i] : i \in 1 .. Smaller(end, Size(cur))}
  IN [a \in Addrs |-> IF a \in used THEN BlankSlot ELSE elem[a]]

Renew(t) ==
  /\ t = Collector /\ kind # "sampler" /\ period < MaxPeriod[kind]
  /\ \A u \in Threads : pc[u] = "idle"
  /\ elem' = Cleared
  /\ version' = 0
  /\ period' = period + 1
  /\ sure' = Nothing /\ all' = 0 /\ may' = {}
  /\ Frame /\ UNCHANGED <<pc, me, kind, id, free, end, capacity, bucket, buckets, job, calls>>

SetBucketCapacity(t) ==
  /\ t = Collector /\ pc[t] = "idle" /\ kind = "sampler"
  /\ capacity' \in Capacities
  /\ UNCHANGED <<vector, kind, id, free, end, version, bucket, buckets, job, calls, period, seen>>

\* The vector is destroyed: with a ConcurrentSampler, whose samples delete their buckets, or,
\* being shared by the counters of the other kinds, when the program ends.
DestroyVector ==
  /\ Destroy
  /\ buckets' = buckets \ {elem[b].bucket : b \in SetOf(table[cur])}
  /\ UNCHANGED <<statics, bucket, job, calls, seen>>

InVector(t) == VectorStep(t) /\ UNCHANGED <<statics, bucket, buckets, job, calls, seen>>
Time == kind \in Timed /\ Tick /\ UNCHANGED <<statics, bucket, buckets, job, calls, seen>>

Writer(t) ==
  \/ Add(t) \/ AddLoad(t) \/ AddStore(t)
  \/ Record(t) \/ MaxCompare(t) \/ MaxRaise(t) \/ MaxVersion(t) \/ MaxValue(t)
  \/ Sample(t) \/ CheckVersion(t) \/ ClearMask(t) \/ SetVersion(t)
  \/ Prepare(t) \/ DeleteBucket(t) \/ NewBucket(t) \/ StoreBucket(t) \/ ResizeBucket(t)
  \/ EmptyBucket(t) \/ PublishBucket(t) \/ RecordSample(t) \/ CountSample(t)
  \/ Exit(t)

Reader(t) ==
  \/ Read(t) \/ ReadBound(t) \/ Visit(t) \/ VisitMax(t)
  \/ VisitMask(t) \/ VisitPointer(t) \/ VisitBucket(t) \/ Result(t)
  \/ Reset(t) \/ ResetAdder(t) \/ ResetBound(t) \/ ResetVisit(t) \/ ResetDone(t)
  \/ Renew(t) \/ SetBucketCapacity(t)

Next ==
  \/ \E t \in Threads : InVector(t) \/ Writer(t) \/ Reader(t) \/ Reserve(t) \/ Reserved(t) \/ Collect(t)
  \/ Time
  \/ DestroyVector

Spec == Init /\ [][Next]_vars

-----------------------------------------------------------------------------
\* Properties.

\* Readers mark nothing, so a retired table may be freed only when no call can still use
\* it: the table a call has taken is there for as long as the call lasts.  No table, node
\* or bucket is freed twice: what is retired is there, once, and is not the table in use,
\* and when no call is left no two elements have the same bucket.  With the vector
\* everything goes: whatever was built, retired, lost in a race or replaced.
FreedInTime ==
  LET retired == ListFrom(head.node)
      owners  == {b \in blocks : elem[b].bucket # Null}
  IN /\ cur \in tables \cup {Null}
     /\ \A t \in Threads : pc[t] # "idle" => me[t].tab \in tables \cup {Null}
     /\ retired \subseteq nodes /\ TablesOf(head.node) \subseteq (tables \ {cur}) \cup {Null}
     /\ \A m, n \in retired : node[m].data = node[n].data => m = n
     /\ (\A t \in Threads : pc[t] = "idle") =>
          \A a, b \in owners : elem[a].bucket = elem[b].bucket => a = b
     /\ Gone => tables = {} /\ blocks = {} /\ nodes = {} /\ buckets = {}

\* An element stays where it is while the vector grows: until the vector is destroyed every
\* index of the current table keeps its block, which is not freed, also when several threads
\* grow it at once.
ElementsStay ==
  [][\/ Gone'
     \/ /\ Size(cur) <= Len(table'[cur'])
        /\ \A i \in 1 .. Size(cur) : table'[cur'][i] = table[cur][i] /\ table[cur][i] \in blocks']_vars

\* What was counted since the last reset and before a reader began is in its result, and
\* nothing is that was not counted: the sum of a ConcurrentAdder lies between the two; so
\* does that of a ConcurrentSummer, and its number is that of the summands in it; a
\* ConcurrentMaxer gives no less than the recorded maximum, and a value recorded in this
\* period, unless the reader came between the two stores of a first record.
ReadsAreComplete ==
  \A t \in Threads : (job[t].op = "read" /\ job[t].at = "result") =>
    LET j == job[t]
    IN CASE kind = "adder" -> j.low <= j.acc /\ j.acc <= all
         [] kind = "summer" -> j.low <= j.acc /\ j.acc <= all /\ j.acc = Summand * j.num
         [] kind = "maxer" -> j.low <= j.acc /\ (j.torn \/ j.acc \in may \cup {Least})
         [] OTHER -> TRUE

\* The bucket that ConcurrentSampler::for_each passes to its callback has not been freed,
\* is initialised, and holds only samples of the period that is read.
SamplesOfThePeriod ==
  \A t \in Threads : (job[t].op = "read" /\ job[t].at = "bucket") =>
    LET m == bucket[job[t].x]
    IN /\ job[t].x \in buckets
       /\ m.num # Garbage /\ m.cap # Garbage
       /\ \A i \in 1 .. Smaller(m.num, m.cap) : m.data[i] = job[t].ver
=============================================================================
