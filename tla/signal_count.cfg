\* Every mix of the operations that a program may reasonably use, and all four together.
CONSTANTS
  Threads = {t1, t2, t3}
  Capacity = 3
  RingSize = 4
  MaxTickets = 5
  Mixes <- MCMixes
SPECIFICATION FairSpec
INVARIANT CountDrift
PROPERTY TriesReturn
\* The calls are bounded; Push and Pop may sleep for ever.
CHECK_DEADLOCK FALSE
