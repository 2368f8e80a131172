\* Pages of one entry; postings that begin in one order and commit in another.
SPECIFICATION Spec
CONSTANTS
  AccountId = {1, 2}
  Code = {cash}
  WalletId = {w1}
  Posting <- Postings
  Session = {p1, p2}
  Client = {c1}
  Limit = 1
  MaxTime = 2
  None = None
INVARIANTS TypeOK WalksComplete WalksDescend SoundWallets
SYMMETRY Sessions
