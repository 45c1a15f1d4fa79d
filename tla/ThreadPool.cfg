\* Wakeups, rest, the abstract pool and progress.
SPECIFICATION FairSpec
CONSTANTS
  Workers = {w1, w2}
  Callers = {c1, c2}
  Nobody = Nobody
  MaxEnqueue = 2
  MaxSpurious = 1
INVARIANTS
  TypeOK
  NoTaskBehindASleeper
  NobodySleepsThroughStop
  RestsOnlyWhenDone
PROPERTIES
  ImplementsPool
  AcceptedRuns
  DestroyReturns
\* The system stops when the pool is gone.
CHECK_DEADLOCK FALSE
