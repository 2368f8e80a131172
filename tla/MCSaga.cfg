SPECIFICATION SagaSpec
CONSTANTS
  Account = {1, 9}
  Wallet = {1}
  TxnId = {"t1", "t2"}
  HoldId = {"h1"}
  Key = {"k1", "k2", "k3"}
  Hash = {"x", "y"}
  MaxAmount = 3
  MaxTime = 2
  None = None
  Session = {s1, s2}
  Command <- Requested
  Checkout <- Orders
  Background <- Others
  Outcome = {"paid", "declined", "unanswered"}
  MaxCharges = 2
INVARIANTS SagaTypeOK PostedWasCharged CompletedIsPosted FailedStaysUnposted RepetitionsCallNobody
SYMMETRY Sessions
