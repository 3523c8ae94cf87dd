SPECIFICATION Spec
CONSTANTS
  c1 = c1
  c2 = c2
  p1 = p1
  p2 = p2
  p3 = p3
  d1 = d1
  d2 = d2
  o1 = o1
  NoExt = NoExt
  Calls = {c1}
  Multi = {c1}
  Items = {p1, p2, p3}
  CallItems <- TwinItems
  Dest <- TwinDest
  Ext <- TwinExt
  PollLimit = 2
  FailuresHappen = TRUE
INVARIANTS
  TxidsPayTheAddress
CHECK_DEADLOCK FALSE
