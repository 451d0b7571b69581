SPECIFICATION Spec
CONSTANTS
  h1 = h1
  h2 = h2
  c1 = c1
  john = john
  svc = svc
  t1 = t1
  t2 = t2
  g1 = g1
  Suggestion = {h1, h2, c1}
  Editor = {john, svc}
  Target = {t1, t2}
  Group = {g1}
  Batch = {b1}
  NoGroup = NoGroup
  NoBatch = NoBatch
  Attr <- MCAttr
  DirectApply = TRUE
  PerEditorPending = 1
  GlobalPending = 2
  Outcomes <- MCOutcomes
  FinalizePhase = {"merged", "done", "rolled_back"}
INVARIANTS
  SupersededHasSuccessor
  OnlyReviewedRowsAreQueued
  InFlightIsJournalled
PROPERTIES
  TerminalIsForever
SYMMETRY MCSymmetry
CHECK_DEADLOCK FALSE
