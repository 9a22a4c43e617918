SPECIFICATION Spec
CONSTANTS
  w1 = w1
  w2 = w2
  w3 = w3
  Write = {w1, w2}
  MaxFaults = 0
  MaxCancels = 1
  MayTimeOut = FALSE
PROPERTIES
  EverySubmitReturns
CHECK_DEADLOCK FALSE
