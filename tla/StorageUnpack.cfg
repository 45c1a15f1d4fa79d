SPECIFICATION Spec
CONSTANTS
  plain = plain
  lowish = lowish
  Names = {plain}
  LowNames = {}
  MaxUploads = 1
  None = None
  Sizes <- SmallOnly
  FollowTheList = TRUE
  MaxMisses = 0
  MaxTransfers = 1
  MaxCrashes = 0
  MaxFaults = 1
INVARIANT FailedUnpackIsAnError
\* The process may die for good, and a hung handler waits for ever.
CHECK_DEADLOCK FALSE
