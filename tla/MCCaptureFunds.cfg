SPECIFICATION Spec
CONSTANTS
  Account = {1, 9}
  Wallet = {1}
  TxnId = {"t1", "t2"}
  HoldId = {"h1"}
  Key = {"k1", "k2"}
  Hash = {"x"}
  MaxAmount = 1
  MaxTime = 1
  None = None
  Session = {s1}
  Command <- ReserveAll
INVARIANTS CaptureIsFunded
