SPECIFICATION Spec
CONSTANTS
  Account = {1, 2, 9}
  Wallet = {1, 2}
  TxnId = {"t1", "t2", "t3", "t4", "t5", "t6"}
  HoldId = {"h1", "h2"}
  Key = {"k1", "k2", "k3", "k4", "k5", "k6"}
  Hash = {"x"}
  MaxAmount = 3
  MaxTime = 2
  None = None
  Session = {s1, s2}
  Command <- FundsCommands
INVARIANTS TypeOK SolventWallets ChecksStayValid EventsMatchPostings CapturedOncePaid NoDeadlock
PROPERTIES HoldOutcomeFinal
SYMMETRY Sessions
