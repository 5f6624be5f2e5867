\* Two readers and a writer of one channel.
CONSTANTS
  Processes = {p1, p2, p3}
  Channels = {c1}
  SegmentNames = {s1}
  Objects = {o1}
  MaxProcesses = 2
  MaxReaders = 1
  EventCapacity = 1
  MaxSegments = 2
  MaxCalls = 5
SPECIFICATION Spec
INVARIANT NotifiesEachReader
\* The calls are bounded.
CHECK_DEADLOCK FALSE
