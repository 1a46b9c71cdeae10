SPECIFICATION PointsSpec
CONSTANTS
  tick = tick
  pub = pub
  priv = priv
  Ticks = {tick}
  NumAccounts = 2
  Topics = {priv}
  PublicTopic = pub
  CallerTopics = {}
  NoPoints = NoPoints
  NoLimit = NoLimit
  Garbage = Garbage
  Messages <- LedgerMessages
  Registrations <- Contradictions
  MaxLog = 4
  MaxRegistry = 2
  PointsCallers = {p1, p2}
  MaxPointsTopics = 3
  MaxPointsLog = 2
  PageSize = 1
  RegistryTopics = {t1}
  RegistryCallers = {rc1, rc2}
  MaxEntries = 2
SYMMETRY AnyCaller
INVARIANTS
  Conservation
  SupplyBound
  Audit
  MintsWithinLimit
  ConsentOutsidePrivateTopics
  SuccessIsReadable
  RegistryIsSound
CHECK_DEADLOCK FALSE
