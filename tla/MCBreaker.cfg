\* Three checkouts at once, the thresholds bootstrap sets.
CONSTANTS
  c1 = c1
  c2 = c2
  c3 = c3
  Caller = {c1, c2, c3}
  FailureThreshold = 3
  SuccessThreshold = 2
  Timeout = 2
SPECIFICATION FairSpec
INVARIANTS
  TypeOK
  CountsOfThisPeriod
PROPERTIES
  OpenForTimeout
  ClosesAfterOutage
  OpensInOutage
