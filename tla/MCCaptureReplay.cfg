SPECIFICATION Spec
CONSTANTS
  Account = {1, 2, 9}
  Wallet = {1, 2}
  TxnId = {"t1", "t2", "t3", "t4"}
  HoldId = {"h1", "h2"}
  Key = {"k1", "k2", "k3", "k4"}
  Hash = {"x"}
  MaxAmount = 3
  MaxTime = 1
  None = None
  Session = {s1}
  Command <- SettleIntoWallet
INVARIANTS CapturedOncePaid
