SPECIFICATION TableSpec
CONSTANTS
  ch1 = ch1
  ch2 = ch2
  i1 = i1
  i2 = i2
  i3 = i3
  u1 = u1
  u2 = u2
  a1 = a1
  Channel = {ch1, ch2}
  Intent = {i1}
  User = {u1, u2}
  Author <- Authors
  Home <- Homes
  PartySize <- OneKnown
  Action = {}
  CheckEvery = 2
  MaxCombats = 1
  MaxFaults = 1
  fighter = fighter
  goblin = goblin
  Order <- Initiative
  Owner <- Players
  Known = TRUE
  Click = {b1}
  MaxTurn = 3
  MaxFights = 1
  MaxGiven = 2
  MaxCombatFaults = 1
  Message = {room, fight}
  RateLimit = 1
  Limit = 1
  Window = 2
  MaxUpdates = 2
  MaxErrors = 1
  k1 = k1
  k2 = k2
  Key = {k1, k2}
  Wits <- Minds
  Slot = {s1, s2}
  Ghost = ghost
  CacheMax = 1
  MaxDecisions = 3
  Proc = {r1, r2}
  MaxStarts = 3
  MaxBootFaults = 2
INVARIANTS
  TableTypeOK
  NothingForgotten
  DodgeEndsTurn
  
  
  
PROPERTIES
  LoopsServe
  ImplementsScreen
  ScreenForward
CHECK_DEADLOCK FALSE
