SPECIFICATION Spec
CONSTANTS
  Sinks = {"roll", "file"}
  Stamps = {s1, s2}
  s1 = s1
  s2 = s2
  Levels = {0, 1, 2}
  max_size = 2
  Lens = {0, 1, 3}
  MaxLen = 3
  MaxBatches = 3
  MaxCrashes = 1
  MaxFaults = 2
  None = None
SYMMETRY StampSymmetry
INVARIANTS
  TypeOK
  FlushedSurvives
  RollKeepsEverything
  RollsAtTheLimit
\* The calls are bounded, so the model stops.
CHECK_DEADLOCK FALSE
