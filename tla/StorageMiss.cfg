SPECIFICATION LiveSpec
CONSTANTS
  plain = plain
  lowish = lowish
  Names = {plain}
  LowNames = {}
  MaxUploads = 1
  None = None
  Sizes <- SmallOnly
  FollowTheList = FALSE
  MaxMisses = 1
  MaxTransfers = 1
  MaxCrashes = 0
  MaxFaults = 0
PROPERTY UploadsAreInserted
\* The process may die for good, and a hung handler waits for ever.
CHECK_DEADLOCK FALSE
