SPECIFICATION Spec
CONSTANTS
  RequestTimeout = 20
  ConnectTimeout = 5
  MaxDelay = 1
  ServerBudget = 15
  Horizon = 24
CHECK_DEADLOCK FALSE
PROPERTIES
  NoCompletionAfterTimeout
