\* Three processes, two generations of the segment, every table small enough to be full.
CONSTANTS
  Processes = {p1, p2, p3}
  Channels = {c1, c2, c3}
  SegmentNames = {s1}
  Objects = {o1, o2}
  MaxProcesses = 2
  MaxReaders = 2
  EventCapacity = 1
  MaxSegments = 2
  MaxCalls = 4
SPECIFICATION Spec
SYMMETRY Symmetry
INVARIANT DomInv
INVARIANT OneDomainUntilExit
INVARIANT PushSeesWholeSlots
INVARIANT NamesAgree
INVARIANT EventsHoldReferences
INVARIANT WaitersHaveCreator
PROPERTY RegistrationsSurvive
\* The calls are bounded.
CHECK_DEADLOCK FALSE
