SPECIFICATION PollingSpec
CONSTANTS
  c1 = c1
  c2 = c2
  Callers = {c1}
  MaxLoops = 2
PROPERTIES
  RefusedOnlyWhileRunning
CHECK_DEADLOCK FALSE
