\* Two threads on one PageHeap of two cached pages, batches of three.
CONSTANTS
  t1 = t1
  t2 = t2
  Threads = {t1, t2}
  Capacity = 2
  Pages <- MCPages
  PageUnits = 2
  ArrayCap = 2
  TaskCap = 1
  BatchSize = 3
  MaxCalls <- MCCalls
SPECIFICATION FairSpec
INVARIANT IndInv
INVARIANT EachPageInOnePlace
INVARIANT ListsLiveInHeldPages
INVARIANT CountsAndReturnsPages
PROPERTY CallsReturn
\* Threads stop calling, and nothing is left to do once the allocators are destroyed.
CHECK_DEADLOCK FALSE
