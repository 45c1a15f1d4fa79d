\* Buffers that grow: doubled below four bytes, by one byte from there on.
SPECIFICATION Spec
CONSTANTS
  Producers = {p1, p2}
  Consumer = Consumer
  Nobody = Nobody
  AsyncType = "ASYNC_UNSAFE"
  Lens = {1, 5}
  BufferSize = 1
  Threshold = 4
  LinearGrowth = 1
  MaxPush = 3
  MaxSpurious = 0
SYMMETRY Symmetry
INVARIANT NoOverrun
\* The system stops after Stop has returned, or when Stop loses its wakeup.
CHECK_DEADLOCK FALSE
