SPECIFICATION FairSpec
CONSTANTS
  e1 = e1
  e2 = e2
  w1 = w1
  w2 = w2
  nobody = nobody
  Dispatchers = {w1, w2}
  Events = {e1, e2}
  BatchSize = 2
  Concurrency = 1
  MaxAttempts = 3
INVARIANTS
  OneOwner
PROPERTIES
  FinalUnlessOverrun
  EveryEventEnds
CHECK_DEADLOCK FALSE
