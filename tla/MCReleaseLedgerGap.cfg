CONSTANTS
  LastBatch = 2
  GenOf <- MCGenOf
  LastRelease = 1
  LastToken = 1
SPECIFICATION Spec
INVARIANT NothingUnlistedShips
CHECK_DEADLOCK FALSE
