CONSTANTS
  Units = {"a", "b", "d"}
  SourceOf <- MCSourceOf
  GroupOf <- MCGroupOf
  NoGroup = NoGroup
  Structural = {"d"}
  None = None
  Publishers = {p1}
  LastRevision = 3
  LastRelease = 2
SPECIFICATION Spec
INVARIANT HeldIndividually
CHECK_DEADLOCK FALSE
