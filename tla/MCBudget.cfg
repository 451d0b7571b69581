CONSTANTS
  s1 = s1
  t1 = t1
  t2 = t2
  p1 = p1
  p2 = p2
  c1 = c1
  c2 = c2
  c3 = c3
  o1 = o1
  k1 = k1
  None = None
  Sessions = {s1}
  Personas = {p1, p2}
  Turns = {t1, t2}
  Calls = {c1, c2, c3}
  ByokCalls = {c3}
  OneShots = {o1}
  Critiques = {k1}
  PersonaOf <- MCPersonaOf
  PoolOf <- MCPoolOf
  Cap = 3
  Reserve = 2
  Costs = {1}
  MaxTurns = 2
  MaxTries = 2
  MaxDay = 1
  MayRetryAcrossMidnight = FALSE
SYMMETRY Symmetry
SPECIFICATION Spec
INVARIANTS
  CapHolds
  CountsHold
  InFlightHasOwner
  OwnAnswerWhenSequential
  BooksBalance
CHECK_DEADLOCK FALSE
