SPECIFICATION Uninterrupted
CONSTANTS
  Account = {1, 9}
  Wallet = {1}
  TxnId = {"t1", "t2"}
  HoldId = {"h1"}
  Key = {"k1", "k2", "k3"}
  Hash = {"x", "y"}
  MaxAmount = 3
  MaxTime = 2
  None = None
  Session = {s1}
  Command <- Requested
  Checkout <- OneOrder
  Background <- FundingOnly
  Outcome = {"paid"}
  MaxCharges = 2
INVARIANTS ReleasedWasNotCharged
