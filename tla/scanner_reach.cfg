SPECIFICATION MCSpec
CONSTANTS
  a1 = a1
  a2 = a2
  s1 = s1
  s2 = s2
  Scanners = {s1}
  Addresses = {a1, a2}
  BatchSize = 1
  BlockStep = 2
  MinConfirmations = 2
  StartMargin = 2
  MaxBlock = 5
  Notices = {1, 2, 3, 4, 5}
  OfPayout = {1, 2, 3}
  Deaf = {2, 4}
  Rateless = {1}
  MaxRetries = 2
  Batch = 2
PROPERTIES
  EveryNoticeEnds
  EveryDepositIsIndexed
CHECK_DEADLOCK FALSE
