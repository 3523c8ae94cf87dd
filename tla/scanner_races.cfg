SPECIFICATION Spec
CONSTANTS
  a1 = a1
  a2 = a2
  s1 = s1
  s2 = s2
  Scanners = {s1, s2}
  Addresses = {a1, a2}
  BatchSize = 1
  BlockStep = 1
  MinConfirmations = 2
  StartMargin = 0
  MaxBlock = 5
SYMMETRY Symmetric
INVARIANTS
  PassedMeansIndexed
CHECK_DEADLOCK FALSE
