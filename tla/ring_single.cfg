\* The same pool in single mode.
CONSTANTS
  Threads = {t1, t2, t3}
  Capacity = 2
  NumIds = 2
  IndexSpan = 16
  StartIndex = 13
  MaxBatch = 1
  MaxDraws = 5
  Single = TRUE
SPECIFICATION Spec
SYMMETRY ThreadSymmetry
\* The draws are bounded.
CHECK_DEADLOCK FALSE
INVARIANT EachIdInOnePlace
