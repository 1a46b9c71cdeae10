SPECIFICATION SystemSpec
CONSTANTS
  tick = tick
  pub = pub
  priv = priv
  c1 = c1
  c2 = c2
  Callers = {c1}
  MaxLoops = 2
  Ticks = {tick}
  NumAccounts = 1
  Topics = {pub, priv}
  PublicTopic = pub
  Workers = {1, 2}
  Options <- PrivateTwice
  NoPoints = NoPoints
  NoLimit = NoLimit
  Garbage = Garbage
  Messages <- MCMessages
  Registrations = {}
  MaxLog = 2
  MaxRegistry = 0
INVARIANTS
  OneLoop
  ExactlyOnceInOrder
CHECK_DEADLOCK FALSE
