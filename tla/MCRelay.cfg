\* Two relays, each batch as large as the table; the statuses, the faults and the stall.
SPECIFICATION FairSpec
CONSTANTS
  Event = {1, 2}
  Relay = {r1, r2}
  MaxRetries = 2
  BatchSize = 2
  InitialDelay = 1
  MaxDelay = 1
  Stale = 1
  MaxFaults = 1
  MaxStalls = 1
  None = None
INVARIANTS TypeOK PublishedWasDelivered ExclusiveUnlessStalled AttemptsBounded
PROPERTIES EventsSettle
