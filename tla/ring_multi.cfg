\* Three threads on a pool of two ids, in multi mode.
CONSTANTS
  Threads = {t1, t2, t3}
  Capacity = 2
  NumIds = 2
  IndexSpan = 16
  StartIndex = 13
  MaxBatch = 2
  MaxDraws = 3
  Single = FALSE
SPECIFICATION FairSpec
INVARIANT RingInv
INVARIANT EachIdInOnePlace
PROPERTY PutSucceeds
PROPERTY TailFollows
\* The draws are bounded.
CHECK_DEADLOCK FALSE
