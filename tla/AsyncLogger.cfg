SPECIFICATION FairSpec
CONSTANTS
  t1 = t1
  t2 = t2
  w1 = w1
  m1 = m1
  m2 = m2
  default = default
  other = other
  Threads = {t1, t2}
  Names = {default, other}
  Default = default
  None = None
  Messages = {m1, m2}
  Attempts = 2
  BuffSize = 2
  Sizes = {1, 3}
  MaxBreaks = 1
  Workers = {w1}
  Levels = {"WARN", "FATAL"}
INVARIANTS
  TypeOK
  OneLogPerName
  RestsOnlyWhenDone
  OneRecordEach
PROPERTIES
  WrittenIsRecorded
  BackupsEnd
\* Threads have no more to log, and the receiver waits.
CHECK_DEADLOCK FALSE
