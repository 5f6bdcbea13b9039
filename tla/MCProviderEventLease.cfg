SPECIFICATION LeaseSpec
CONSTANTS
  w1 = w1
  w2 = w2
  w3 = w3
  Workers = {w1, w2, w3}
  LeaseTime = 2
  MaxClaims = 4
  Horizon = 5
SYMMETRY MCSymmetry
INVARIANTS
  LeaseIsExclusive
PROPERTIES
  ProcessedForGood
CHECK_DEADLOCK FALSE
