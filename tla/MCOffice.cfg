CONSTANTS
  Units = {"a", "b", "d"}
  SourceOf <- MCSourceOf
  GroupOf <- MCGroupOf
  NoGroup = NoGroup
  Structural = {"d"}
  None = None
  Publishers = {p1}
  LastRevision = 3
  LastRelease = 2

  LastWording = 2
  LastId = 3
  LastVersion = 1
  MayRetype = FALSE
  MayTypeWhileSaving = FALSE
  NoDraft = NoDraft

  Requests = {r1, r2}
  LastCommit = 3
  Other = Other
  NoRequest = NoRequest

  LastRequest = 2
  LastPhrase = 2
  LastLate = 1
  Levels <- MCLevels
  Wide <- MCWide
  Nothing = Nothing

  ScopedIds = {q1, q2}
  Blocks = {b1, b2}
  Canary = {b1}
  Drafters = {d1}
  NoRow = NoRow

  Questions = {t1, t2, t3}
  TooLong = {t3}
  NoWords = NoWords
  MaxTurns = 3
  LastSend = 4
  MayReword = FALSE
  MayOverlap = FALSE

  LastAudit = 2
  Headings = {"facts", "law"}
  Nobody = Nobody
  TopScore = 3
  Entered = {2, 3}
  Scorecards <- MCScorecards
  PanelSizes = {1, 2}
  Retentions = {1, 2}
  LastDay = 1
  LastOverride = 2

  LastToken = 2
  LastMint = 4
  LastText = 2
  MintCeiling = 2
  MayFailInChallenge = FALSE

  Callers = {"j", "d"}
  Slots = {"john", "dam"}
  NoOne = NoOne
  Deployments <- MCDeployments
  LastKey = 2
  LastTime = 2
  LastLink = 2
  Ttl = 2
  Skew = 0

  LastRow = 3
  LastBatch = 3
  LastHead = 3
  Kinds <- MCKinds
  SpotOf <- MCSpotOf
  MayMigrateLate = FALSE
  CarefulOperator = TRUE

  Places = {"p", "q"}
  LastLine = 2
  LastSlip = 3
  MayGoOn = FALSE
  Blank = Blank

  Dialects <- MCDialects
  LastFrame = 3
  Gap = Gap
  NoReply = NoReply

  LastAttempt = 2
  LastFence = 5
  LastArtifact = 4
  NoOperation = NoOperation
  MayLinger = FALSE
SPECIFICATION OfficeSpec
INVARIANTS
  OfficeTypeOK
  IntegrityHolds
  ShippedWasAccepted
  SourceHistoryIsLinear
  ShippedOnFrontier
  WritingStaysSafe
  BranchMovesAreExact
  ScopedChangesAreSound
  AuditStaysHonest
  GateStaysPassable
  DoorStaysSound
  CoverageStaysSound
  FormsStayTrue
  InterviewIsHonest
  ProductionStaysRecorded
PROPERTY ClaimedReviewIsCurrent
CHECK_DEADLOCK FALSE
