SPECIFICATION LiveSpec
CONSTANTS
  plain = plain
  lowish = lowish
  Names = {plain, lowish}
  LowNames = {lowish}
  MaxUploads = 2
  None = None
  Sizes <- BothSizes
  FollowTheList = FALSE
  MaxMisses = 1
  MaxTransfers = 2
  MaxCrashes = 1
  MaxFaults = 1
INVARIANTS
  TypeOK
  ListedFilesExist
  ReloadIsTable
  KeptUnlessTorn
  EtagNamesBody
PROPERTIES
  ImplementsFileStore
  HandlersReturn
\* The process may die for good, and a hung handler waits for ever.
CHECK_DEADLOCK FALSE
