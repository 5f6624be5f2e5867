\* The two operations of ProcessState.
CONSTANTS
  Threads = {sender, receiver}
  Capacity = 2
  RingSize = 2
  MaxTickets = 4
  Mixes <- ProcessState
SPECIFICATION Spec
\* The receiver sleeps in Pop when the sender is done.
CHECK_DEADLOCK FALSE
PROPERTY RefusesOnlyWhenFull
