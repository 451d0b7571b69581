SPECIFICATION EngineSpec
CONSTANTS
  p1 = p1
  p2 = p2
  i1 = i1
  c1 = c1
  c2 = c2
  john = john
  mary = mary
  svc = svc
  t1 = t1
  t2 = t2
  g1 = g1
  Suggestion = {p1, i1}
  Editor = {john, mary, svc}
  Target = {t1}
  Group = {g1}
  Batch = {b1}
  NoGroup = NoGroup
  NoBatch = NoBatch
  Attr <- MCAttr
  DirectApply = TRUE
  PerEditorPending = 3
  GlobalPending = 3
  Outcomes <- MCOutcomes
  FinalizePhase <- MCPhases
  Original = Original
  Outside = Outside
  MayCrash = TRUE
  MayOutliveLease = FALSE
  MaySeize = FALSE
  MaxOutside = 1
INVARIANTS
  AppliedMeansLanded
CHECK_DEADLOCK FALSE
