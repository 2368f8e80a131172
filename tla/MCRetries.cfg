SPECIFICATION Spec
CONSTANTS
  Account = {1, 2, 9}
  Wallet = {1, 2}
  TxnId = {"t1", "t2", "t3", "t4", "t5"}
  HoldId = {"h1", "h2"}
  Key = {"k1", "k2", "k3", "k4", "k5"}
  Hash = {"x", "y"}
  MaxAmount = 2
  MaxTime = 1
  None = None
  Session = {s1, s2}
  Command <- RetryCommands
INVARIANTS AnswersAreDurable KeysNamePostings ReversalsCancel EntriesBalanced
PROPERTIES RetriesReplayed LedgerAppendOnly
SYMMETRY Sessions
