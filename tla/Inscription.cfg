SPECIFICATION InscriberSpec
CONSTANTS
  TxInputs <- MCTxInputs
  MaxIds = 2
  Requests <- MCRequests
  MaxAttempts = 2
  InactivityTicks = 1
  MaxForeign = 1
INVARIANTS
  PaidOnce
  InscribesWhatItPays
PROPERTIES
  InscribeReturns
CHECK_DEADLOCK FALSE
