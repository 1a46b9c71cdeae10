SPECIFICATION Spec
CONSTANTS
  tick = tick
  pub = pub
  priv = priv
  w1 = w1
  w2 = w2
  Ticks = {tick}
  NumAccounts = 2
  Topics = {pub}
  PublicTopic = pub
  Workers = {w1, w2}
  Options <- TwoPublicWorkers
  NoPoints = NoPoints
  NoLimit = NoLimit
  Garbage = Garbage
  Messages <- RacingMessages
  Registrations = {}
  MaxLog = 3
  MaxRegistry = 0
INVARIANTS
  NothingSkipped
  IndexerInv
CHECK_DEADLOCK FALSE
