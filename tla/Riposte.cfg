SPECIFICATION Spec
CONSTANTS
  fighter = fighter
  bard = bard
  c1 = c1
  c2 = c2
  t1 = t1
  t2 = t2
  k1 = k1
  k2 = k2
  Timer = {t1, t2}
  PC = {fighter}
  Channel = {c1}
  ChannelOf <- OneChannel
  Eligible = {fighter}
  Click = {k1, k2}
  MaxRound = 1
  MaxFaults = 2
INVARIANTS
  AttackOnOpenWindow
  OfferStillValid
  
  OrphansExplained

  
SYMMETRY Interchangeable
CHECK_DEADLOCK FALSE
