SPECIFICATION FairSpec
CONSTANTS
  office1 = office1
  office2 = office2
  Callers <- MCCallers
  MaxCalls = 2
PROPERTIES
  EveryCallReturns
CHECK_DEADLOCK FALSE
