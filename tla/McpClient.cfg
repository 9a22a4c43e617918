SPECIFICATION Spec
CONSTANTS
  c1 = c1
  c2 = c2
  Call = {c1, c2}
  MaxAttempts = 2
  Threshold = 2
  MaxFailures = 3
INVARIANTS
  BreakerCoherent
PROPERTIES
  ImplementsToolCall
  Recovers
  EveryCallAnswered
