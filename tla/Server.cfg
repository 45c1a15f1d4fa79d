\* A buffer of two messages, two threads, two requests; or nought, as GetConfig finds it.
SPECIFICATION Spec
CONSTANTS
  BufferSize = 2
  ThreadCount = 2
  MaxRequests = 2
INVARIANTS
  UsedWhileThere
  RestsOnlyWhenAllIsKept
PROPERTY
  ServesIfConfigured
\* The process ends; a server without buffer_size, or with a hanging handler, stops.
CHECK_DEADLOCK FALSE
