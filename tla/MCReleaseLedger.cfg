CONSTANTS
  LastBatch = 3
  GenOf <- MCGenOf
  LastRelease = 2
  LastToken = 3
SPECIFICATION Spec
INVARIANTS
  ActiveBuildsOnFrontier
  CompletedReleasesChain
  CompleteWasAuthorizedAndVerified
  MembersArePublished
PROPERTY RunsLikeATrain
CHECK_DEADLOCK FALSE
