SPECIFICATION FairPollingSpec
CONSTANTS
  c1 = c1
  c2 = c2
  Callers = {c1, c2}
  MaxLoops = 2
INVARIANTS
  ClosedOnce
  NoOrphanLoop
  PollingInv
PROPERTIES
  StopReturns
  CancelledLoopEnds
  KeepsIndexing
CHECK_DEADLOCK FALSE
