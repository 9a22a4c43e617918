SPECIFICATION PartsSpec
CONSTANTS
  w1 = w1
  w2 = w2
  w3 = w3
  Write = {w1, w2, w3}
  MaxFaults = 3
  MaxCancels = 2
  MayTimeOut = TRUE
  Rules <- Degrading
  Window = 2
  Monster = {m1}
  Task = {t1, t2}
  MaxHits = 2
  MaxMemoryFaults = 2
  CharTTL = 2
  MaxVersions = 3
  Key = {q1}
  Caller = {a1, a2}
  Size1 = 1
  TTL1 = 1
  TTL2 = 2
  MaxCacheFaults = 1
  Depth = 2
  Batch = 2
  MaxRows = 4
  MaxErrors = 1
  Upload = {x1, x2}
  Form = {f1}
  Workers = 1
  MaxEvents = 2
  Char = {c1, c2}
  Channel = {c1, c2}
  Home <- OwnChannel
  MaxRuns = 1
  MaxToolFaults = 2
  Homebrew = {samurai, kensei}
  MaxEdits = 3
  MaxFileFaults = 1
  Prompt = {p1, p2}
  Asker = {d1, d2}
  NarrSize = 1
  NarrTTL = 2
  MaxCalls = 3
INVARIANTS
  OnlyCancelsKill
  PartsTypeOK
  ReasonIsHeld
  RemembersEachHit
  CachesHonest
  
  ReviewEarned
  ToldIsTrue
PROPERTIES
  ImplementsAtomicWriter
  WritesServed
  
  EveryUploadAnswered
  
  
CHECK_DEADLOCK FALSE
