SPECIFICATION FairSpec
CONSTANTS
  c1 = c1
  c2 = c2
  p1 = p1
  p2 = p2
  p3 = p3
  d1 = d1
  d2 = d2
  o1 = o1
  NoExt = NoExt
  Calls = {c1, c2}
  Multi = {c1}
  Items = {p1, p2, p3}
  CallItems <- RetryItems
  Dest <- RetryDest
  Ext <- RetryExt
  PollLimit = 1
  FailuresHappen = TRUE
INVARIANTS
  TypeOK
  OrderPaidOnce
  FailedMeansUnpaid
PROPERTIES
  KeepsPromise
  EveryAttachedPayoutSettles
CHECK_DEADLOCK FALSE
