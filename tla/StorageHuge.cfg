SPECIFICATION Spec
CONSTANTS
  plain = plain
  lowish = lowish
  Names = {plain}
  LowNames = {}
  MaxUploads = 1
  None = None
  Sizes <- BothSizes
  FollowTheList = TRUE
  MaxMisses = 0
  MaxTransfers = 1
  MaxCrashes = 1
  MaxFaults = 0
INVARIANT StartSucceeds
\* The process may die for good, and a hung handler waits for ever.
CHECK_DEADLOCK FALSE
