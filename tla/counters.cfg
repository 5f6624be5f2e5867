\* A writer and a collector on each kind of counter.
CONSTANTS
  w = w
  c = c
  Threads = {w, c}
  Collector = c
  Kinds = {"adder", "summer", "maxer", "sampler"}
  Timed = {"summer"}
  Values = {1, 2}
  Summand = 2
  InitialCapacity = 1
  Capacities = {2, 3}
  MaxCalls <- MCCalls
  MaxPeriod <- MCPeriod
  MaxBlocks = 3
  Addrs <- MCAddrs
  UnitTicks = 2
  StampUnits = 65536
  Blank <- BlankSlot
  Patience = 1
  MaxTick = 4
SPECIFICATION Spec
INVARIANT FreedInTime
INVARIANT ReadsAreComplete
INVARIANT SamplesOfThePeriod
PROPERTY ElementsStay
\* The calls are bounded.
CHECK_DEADLOCK FALSE
