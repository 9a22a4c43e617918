SPECIFICATION Spec
CONSTANTS
  ch1 = ch1
  ch2 = ch2
  i1 = i1
  i2 = i2
  i3 = i3
  u1 = u1
  u2 = u2
  a1 = a1
  Channel = {ch1, ch2}
  Intent = {i1, i2, i3}
  User = {u1, u2}
  Author <- Authors
  Home <- Homes
  PartySize <- NoneKnown
  Action = {a1}
  CheckEvery = 2
  MaxCombats = 1
  MaxFaults = 0
INVARIANT NoIntentLost
CHECK_DEADLOCK FALSE
