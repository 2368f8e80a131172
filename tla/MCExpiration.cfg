SPECIFICATION FairWorkerSpec
CONSTANTS
  Account = {1, 9}
  Wallet = {1}
  TxnId = {"t1", "t2"}
  HoldId = {"h1", "h2", "h3"}
  Key = {"k1", "k2", "k3"}
  Hash = {"x"}
  MaxAmount = 3
  MaxTime = 2
  None = None
  Session = {c1, w1}
  Command <- Served
  Worker = {w1}
  BatchSize = 2
  Rank <- ByName
  ClientRequest <- Clients
  MaxFaults = 1
INVARIANTS BatchesBounded
PROPERTIES DueHoldsEnd
