\* Two producers that block on a buffer of two bytes, which any message fits.
SPECIFICATION FairSpec
CONSTANTS
  Producers = {p1, p2}
  Consumer = Consumer
  Nobody = Nobody
  AsyncType = "ASYNC_SAFE"
  Lens = {1, 2}
  BufferSize = 2
  Threshold = 4
  LinearGrowth = 1
  MaxPush = 2
  MaxSpurious = 1
INVARIANTS
  TypeOK
  InOrderNoLoss
  CallbackReady
  RestsOnlyWhenDelivered
  NoStrandedProducer
  StopLeavesNothing
PROPERTIES
  ImplementsChannel
  PushReturns
  EverythingDelivered
  StopReturnsIfAwake
\* The system stops after Stop has returned, or when Stop loses its wakeup.
CHECK_DEADLOCK FALSE
