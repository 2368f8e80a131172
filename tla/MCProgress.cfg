SPECIFICATION FairSpec
CONSTANTS
  Account = {1, 2, 9}
  Wallet = {1, 2}
  TxnId = {"t1", "t2", "t3"}
  HoldId = {"h1", "h2"}
  Key = {"k1", "k2", "k3"}
  Hash = {"x"}
  MaxAmount = 2
  MaxTime = 1
  None = None
  Session = {s1, s2}
  Command <- ContendedCommands
PROPERTIES RequestsAnswered KeepsPromise
