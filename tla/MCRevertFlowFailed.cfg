CONSTANTS
  Requests = {r1, r2}
  LastCommit = 3
  Other = Other
  NoRequest = NoRequest
SPECIFICATION RevertSpec
INVARIANT FailedMeansUntouched
CHECK_DEADLOCK FALSE
