SPECIFICATION EngineSpec
CONSTANTS
  p1 = p1
  p2 = p2
  i1 = i1
  c1 = c1
  c2 = c2
  john = john
  mary = mary
  svc = svc
  t1 = t1
  t2 = t2
  g1 = g1
  Suggestion = {i1, c1, c2}
  Editor = {john, mary, svc}
  Target = {t1, t2}
  Group = {g1}
  Batch = {b1, b2}
  NoGroup = NoGroup
  NoBatch = NoBatch
  Attr <- MCAttr
  DirectApply = TRUE
  PerEditorPending = 3
  GlobalPending = 3
  Outcomes <- MCOutcomes
  FinalizePhase <- MCPhases
  Original = Original
  Outside = Outside
  MayCrash = FALSE
  MayOutliveLease = FALSE
  MaySeize = FALSE
  MaxOutside = 1
INVARIANTS
  AppliedIsExact
PROPERTY LandsOnTextSeen
SYMMETRY MCSymmetry
CHECK_DEADLOCK FALSE
