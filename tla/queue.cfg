\* Three threads, single operations and batches of two, across the wrap of the version.
CONSTANTS
  Threads = {t1, t2, t3}
  Capacity = 2
  StartIndex = 65535
  MaxIndex = 65538
  MaxBatch = 2
  Kinds = {"deal", "deal_n", "try", "try_n"}
  PushModes <- FutexOnly
  PopModes <- FutexOnly
  None = None
SPECIFICATION Spec
SYMMETRY ThreadSymmetry
INVARIANT TypeOK
INVARIANT FullInv
INVARIANT SlotExclusive
INVARIANT CallbackSeesItsTicket
INVARIANT NoLostWakeup
PROPERTY TryRefusesOnlyFullOrEmpty
PROPERTY ImplementsTickets
\* A pop without a push waits for ever.
CHECK_DEADLOCK FALSE
