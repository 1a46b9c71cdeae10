SPECIFICATION FairSpec
CONSTANTS
  tick = tick
  pub = pub
  priv = priv
  w1 = w1
  w2 = w2
  Ticks = {tick}
  NumAccounts = 2
  Topics = {pub, priv}
  PublicTopic = pub
  Workers = {w1}
  Options <- OneDefaultWorker
  NoPoints = NoPoints
  NoLimit = NoLimit
  Garbage = Garbage
  Messages <- MCMessages
  Registrations <- MCRegistrations
  MaxLog = 2
  MaxRegistry = 2
PROPERTIES
  ImplementsReplica
  EveryMessageIndexed
CHECK_DEADLOCK FALSE
