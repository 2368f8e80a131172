SPECIFICATION FairSpec
CONSTANTS
  Consumer = {c1, c2}
  Reader = {r1}
  BatchSize = 2
  MaxReceives = 2
  Instant = {1, 2, 3, 4, 5, 6, 7, 8, 9, 11, 12, 13}
  MaxVersion = 2
  MaxCopies = 1
  MaxFaults = 1
  MaxReads = 1
  None = None
INVARIANTS TypeOK DeletedWasProjected FreshUnlessOverlapped
PROPERTIES Converges
CHECK_DEADLOCK FALSE
