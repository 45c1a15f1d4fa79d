\* Stop against the comments on it.
SPECIFICATION FairSpec
CONSTANTS
  Producers = {p1}
  Consumer = Consumer
  Nobody = Nobody
  AsyncType = "ASYNC_SAFE"
  Lens = {1}
  BufferSize = 2
  Threshold = 4
  LinearGrowth = 1
  MaxPush = 1
  MaxSpurious = 1
PROPERTY StopReturns
\* The system stops after Stop has returned, or when Stop loses its wakeup.
CHECK_DEADLOCK FALSE
