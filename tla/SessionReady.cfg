SPECIFICATION Spec
CONSTANTS
  ch1 = ch1
  u1 = u1
  u2 = u2
  c1 = c1
  c2 = c2
  Channel = {ch1}
  User = {u1, u2}
  Command = {c1, c2}
  MaxGames = 1
  MaxFaults = 0
PROPERTY ClickRecorded
CHECK_DEADLOCK FALSE
