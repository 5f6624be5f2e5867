\* Batches that sleep against batches that spin and wake.
CONSTANTS
  Threads = {t1, t2, t3}
  Capacity = 2
  StartIndex = 65535
  MaxIndex = 65538
  MaxBatch = 2
  Kinds = {"deal_n"}
  PushModes <- SpinAndWake
  PopModes <- SleepOnly
  None = None
SPECIFICATION FairSpec
PROPERTY ServedReturns
\* A pop without a push waits for ever.
CHECK_DEADLOCK FALSE
