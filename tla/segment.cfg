\* Two processes, three generations of the segment, two crashes.
CONSTANTS
  Procs = {p1, p2}
  MaxSegs = 3
  BlockNum = 1
  RetryLimit = 2
  MaxCrashes = 2
SPECIFICATION FairSpec
INVARIANT TypeOK
INVARIANT CountsHandles
INVARIANT UsersShareSegment
PROPERTY InitializeReturns
\* The calls of a process may end.
CHECK_DEADLOCK FALSE
