------------------------ MODULE WalletLedgerProofs ------------------------
(***************************************************************************)
(* Proofs about WalletLedger for every set of accounts, wallets, sessions  *)
(* and commands.                                                           *)
(*                                                                         *)
(* Its variables keep their types, what was posted and how a hold ended    *)
(* never change, and events and postings agree.                            *)
(*                                                                         *)
(* No wallet is ever overspent.  A check of funds and the commit it is for *)
(* are separate statements, and the check reads the holds as of the time   *)
(* the database transaction began.  The argument: the session has every    *)
(* wallet it checked locked until it commits; a commit takes only from     *)
(* wallets its own session has locked; time and the end of a hold only     *)
(* give back.                                                              *)
(***************************************************************************)
EXTENDS WalletLedger, Counting

-----------------------------------------------------------------------------
(* How the totals of Funds change when a transaction is posted, a hold is  *)
(* created or stops being active, and time passes                          *)

Ledger == [TxnId -> Transaction \cup {None}]
Holds  == [HoldId -> HoldRow \cup {None}]

\* The units of a total are finitely many.
LEMMA UnitsAreFinite ==
  ASSUME NEW P, NEW H, NEW a, NEW now
  PROVE  /\ IsFiniteSet(CreditUnits(P, a))
         /\ IsFiniteSet(DebitUnits(P, a))
         /\ IsFiniteSet(HeldUnits(H, a, now))
<1>1. IsFiniteSet(Unit)
  BY BoundAssumption, FS_Interval DEF Unit
<1>2. IsFiniteSet(TxnId \X Unit) /\ IsFiniteSet(HoldId \X Unit)
  BY <1>1, FiniteAssumption, FS_Product
<1>3. /\ CreditUnits(P, a) \subseteq TxnId \X Unit
      /\ DebitUnits(P, a) \subseteq TxnId \X Unit
      /\ HeldUnits(H, a, now) \subseteq HoldId \X Unit
  BY DEF CreditUnits, DebitUnits, HeldUnits
<1> QED
  BY <1>2, <1>3, FS_Subset

\* Totals are natural numbers.
LEMMA TotalsType ==
  ASSUME NEW P, NEW H, NEW a, NEW now
  PROVE  /\ Cardinality(CreditUnits(P, a)) \in Nat
         /\ Cardinality(DebitUnits(P, a)) \in Nat
         /\ Cardinality(HeldUnits(H, a, now)) \in Nat
         /\ LedgerBalance(P, a) \in Int
         /\ Available(P, H, a, now) \in Int
<1>1. /\ Cardinality(CreditUnits(P, a)) \in Nat
      /\ Cardinality(DebitUnits(P, a)) \in Nat
      /\ Cardinality(HeldUnits(H, a, now)) \in Nat
  BY UnitsAreFinite, FS_CardinalityType
<1> QED
  BY <1>1 DEF LedgerBalance, Available

\* Posting a transaction adds its credits and debits to the totals, and so its
\* delta to the balance, of each account.
LEMMA PostingMovesBalance ==
  ASSUME NEW P \in Ledger, NEW t \in TxnId, P[t] = None,
         NEW d \in Transaction, NEW a \in Account
  PROVE  LedgerBalance([P EXCEPT ![t] = d], a) = LedgerBalance(P, a) + Delta(d, a)
<1> DEFINE Q == [P EXCEPT ![t] = d]
<1>0. d # None /\ d.cr[a] \in 0 .. MaxAmount /\ d.dr[a] \in 0 .. MaxAmount
  BY NoneAssumption DEF Transaction, Amounts
<1>a. /\ DOMAIN P = TxnId /\ Q[t] = d
      /\ \A u \in TxnId \ {t} : Q[u] = P[u]
  BY DEF Ledger
<1> HIDE DEF Q
<1>1. CreditUnits(Q, a) = CreditUnits(P, a) \cup {t} \X (1 .. d.cr[a])
  <2>1. ASSUME NEW u \in TxnId, NEW i \in Unit
        PROVE  <<u, i>> \in CreditUnits(Q, a) <=>
                 <<u, i>> \in CreditUnits(P, a) \cup {t} \X (1 .. d.cr[a])
    BY <1>0, <1>a DEF CreditUnits, Unit
  <2>2. {t} \X (1 .. d.cr[a]) \subseteq TxnId \X Unit
    BY <1>0, BoundAssumption DEF Unit
  <2>3. CreditUnits(Q, a) \subseteq TxnId \X Unit /\ CreditUnits(P, a) \subseteq TxnId \X Unit
    BY DEF CreditUnits
  <2> QED
    BY <2>1, <2>2, <2>3
<1>2. CreditUnits(P, a) \cap ({t} \X (1 .. d.cr[a])) = {}
  BY DEF CreditUnits
<1>3. DebitUnits(Q, a) = DebitUnits(P, a) \cup {t} \X (1 .. d.dr[a])
  <2>1. ASSUME NEW u \in TxnId, NEW i \in Unit
        PROVE  <<u, i>> \in DebitUnits(Q, a) <=>
                 <<u, i>> \in DebitUnits(P, a) \cup {t} \X (1 .. d.dr[a])
    BY <1>0, <1>a DEF DebitUnits, Unit
  <2>2. {t} \X (1 .. d.dr[a]) \subseteq TxnId \X Unit
    BY <1>0, BoundAssumption DEF Unit
  <2>3. DebitUnits(Q, a) \subseteq TxnId \X Unit /\ DebitUnits(P, a) \subseteq TxnId \X Unit
    BY DEF DebitUnits
  <2> QED
    BY <2>1, <2>2, <2>3
<1>4. DebitUnits(P, a) \cap ({t} \X (1 .. d.dr[a])) = {}
  BY DEF DebitUnits
<1>b. IsFiniteSet(CreditUnits(P, a)) /\ IsFiniteSet(DebitUnits(P, a))
  BY UnitsAreFinite
<1>c. d.cr[a] \in Nat /\ d.dr[a] \in Nat
  BY <1>0, BoundAssumption
<1>5. Cardinality(CreditUnits(Q, a)) = Cardinality(CreditUnits(P, a)) + d.cr[a]
  <2>1. Cardinality(CreditUnits(P, a) \cup {t} \X (1 .. d.cr[a])) =
          Cardinality(CreditUnits(P, a)) + d.cr[a]
    BY <1>2, <1>b, <1>c, BlockAdded
  <2> QED
    BY <1>1, <2>1
<1>6. Cardinality(DebitUnits(Q, a)) = Cardinality(DebitUnits(P, a)) + d.dr[a]
  <2>1. Cardinality(DebitUnits(P, a) \cup {t} \X (1 .. d.dr[a])) =
          Cardinality(DebitUnits(P, a)) + d.dr[a]
    BY <1>4, <1>b, <1>c, BlockAdded
  <2> QED
    BY <1>3, <2>1
<1>7. /\ Cardinality(CreditUnits(P, a)) \in Nat
      /\ Cardinality(DebitUnits(P, a)) \in Nat
      /\ d.cr[a] \in Int /\ d.dr[a] \in Int
  BY <1>0, TotalsType
<1>8. LedgerBalance(Q, a) = LedgerBalance(P, a) + Delta(d, a)
  BY <1>5, <1>6, <1>7 DEF LedgerBalance, Delta
<1> QED
  BY <1>8 DEF Q

\* Holds that stop being active, because their status changes or their time
\* comes, leave no less available.
LEMMA FewerActiveHolds ==
  ASSUME NEW P, NEW G, NEW H, NEW w, NEW now, NEW later,
         \A h \in HoldId : ActiveHold(G, h, w, later) =>
           ActiveHold(H, h, w, now) /\ G[h].amount = H[h].amount
  PROVE  Available(P, G, w, later) >= Available(P, H, w, now)
<1>1. HeldUnits(G, w, later) \subseteq HeldUnits(H, w, now)
  BY DEF HeldUnits
<1>2. Cardinality(HeldUnits(G, w, later)) <= Cardinality(HeldUnits(H, w, now))
  BY <1>1, UnitsAreFinite, FS_Subset
<1>3. /\ Cardinality(HeldUnits(G, w, later)) \in Nat
      /\ Cardinality(HeldUnits(H, w, now)) \in Nat
      /\ LedgerBalance(P, w) \in Int
  BY TotalsType
<1> QED
  BY <1>2, <1>3 DEF Available

\* A new hold takes at most its amount from its wallet, and nothing from others.
LEMMA NewHoldReserves ==
  ASSUME NEW P, NEW H \in Holds, NEW h \in HoldId, H[h] = None,
         NEW row \in HoldRow, NEW w \in Wallet, NEW now
  PROVE  /\ Available(P, [H EXCEPT ![h] = row], w, now) \in Int
         /\ Available(P, [H EXCEPT ![h] = row], w, now) >=
              Available(P, H, w, now) - row.amount
         /\ row.wallet # w =>
              Available(P, [H EXCEPT ![h] = row], w, now) >= Available(P, H, w, now)
<1> DEFINE G == [H EXCEPT ![h] = row]
<1>0. row.amount \in Unit /\ row.amount \in Nat
  BY BoundAssumption DEF HoldRow, Unit
<1>a. G[h] = row /\ \A g \in HoldId \ {h} : G[g] = H[g]
  BY DEF Holds
<1> HIDE DEF G
<1>1. HeldUnits(G, w, now) \subseteq HeldUnits(H, w, now) \cup {h} \X (1 .. row.amount)
  <2>1. ASSUME NEW g \in HoldId, NEW i \in Unit, <<g, i>> \in HeldUnits(G, w, now)
        PROVE  <<g, i>> \in HeldUnits(H, w, now) \cup {h} \X (1 .. row.amount)
    BY <1>0, <1>a, <2>1 DEF HeldUnits, ActiveHold, Unit
  <2>2. HeldUnits(G, w, now) \subseteq HoldId \X Unit
    BY DEF HeldUnits
  <2> QED
    BY <2>1, <2>2
<1>2. HeldUnits(H, w, now) \cap ({h} \X (1 .. row.amount)) = {}
  BY DEF HeldUnits, ActiveHold
<1>3. /\ IsFiniteSet(HeldUnits(H, w, now) \cup {h} \X (1 .. row.amount))
      /\ Cardinality(HeldUnits(H, w, now) \cup {h} \X (1 .. row.amount)) =
           Cardinality(HeldUnits(H, w, now)) + row.amount
  BY <1>0, <1>2, UnitsAreFinite, BlockAdded
<1>4. Cardinality(HeldUnits(G, w, now)) <= Cardinality(HeldUnits(H, w, now)) + row.amount
  BY <1>1, <1>3, FS_Subset
<1>5. /\ Cardinality(HeldUnits(G, w, now)) \in Nat
      /\ Cardinality(HeldUnits(H, w, now)) \in Nat
      /\ LedgerBalance(P, w) \in Int /\ row.amount \in Int
  BY <1>0, TotalsType
<1>6. Available(P, G, w, now) \in Int
      /\ Available(P, G, w, now) >= Available(P, H, w, now) - row.amount
  BY <1>4, <1>5 DEF Available
<1>7. row.wallet # w => Available(P, G, w, now) >= Available(P, H, w, now)
  BY <1>a, FewerActiveHolds DEF ActiveHold
<1> QED
  BY <1>6, <1>7 DEF G

-----------------------------------------------------------------------------
(* Types *)

\* What a session at label l with command c and transaction d relies on.
ReadyAt(l, c, d) ==
  /\ l # "idle" => c \in Command
  /\ l = "lookup" => c.op \in PostingOp \ {"capture"}
  /\ l = "begin" => c.op \in PostingOp \cup {"authorize"}
  /\ l = "wallet" => c.op \in {"authorize", "capture"}
  /\ l \in {"hold", "mark"} => c.op = "capture"
  /\ l \in {"accounts", "validate", "insert"} => c.op \in PostingOp
  /\ l \in {"find", "funds", "create"} => c.op = "authorize"
  /\ l = "update" => c.op \in {"release", "expire"}
  /\ l \notin {"idle", "usecase"} /\ c.op \in PostingOp => d \in Transaction
  /\ l \notin {"idle", "usecase"} /\ c.op \in {"capture", "release", "expire"} =>
       holds[c.hold] # None

Ready == \A p \in Session : ReadyAt(pc[p], cmd[p], draft[p])

\* Each kind of command has its fields.
LEMMA CommandFields ==
  ASSUME NEW c \in Command
  PROVE  /\ c.op \in PostingOp => c.key \in Key /\ c.hash \in Hash /\ c.txn \in TxnId
         /\ c.op = "post" => c.dr \in Amounts /\ c.cr \in Amounts
         /\ c.op = "deposit" => c.from \in Account /\ c.wallet \in Wallet /\ c.amount \in Unit
         /\ c.op \in {"withdraw", "transfer"} =>
              c.wallet \in Wallet /\ c.to \in Account /\ c.amount \in Unit
         /\ c.op = "reverse" => c.original \in TxnId
         /\ c.op = "authorize" =>
              /\ c.key \in Key /\ c.hash \in Hash /\ c.hold \in HoldId
              /\ c.wallet \in Wallet /\ c.amount \in Unit /\ c.expires \in Time
         /\ c.op = "capture" => c.hold \in HoldId /\ c.settle \in Account
         /\ c.op \in {"release", "expire"} => c.hold \in HoldId
<1>1. CASE c \in PostCommand
  BY <1>1 DEF PostCommand, PostingOp
<1>2. CASE c \in DepositCommand
  BY <1>2 DEF DepositCommand, PostingOp
<1>3. CASE c \in WithdrawCommand
  BY <1>3 DEF WithdrawCommand, PostingOp
<1>4. CASE c \in TransferCommand
  BY <1>4, WalletAssumption DEF TransferCommand, PostingOp
<1>5. CASE c \in ReverseCommand
  BY <1>5 DEF ReverseCommand, PostingOp
<1>6. CASE c \in AuthorizeCommand
  BY <1>6 DEF AuthorizeCommand, PostingOp
<1>7. CASE c \in CaptureCommand
  BY <1>7 DEF CaptureCommand, PostingOp
<1>8. CASE c \in ReleaseCommand
  BY <1>8 DEF ReleaseCommand, PostingOp
<1>9. CASE c \in ExpireCommand
  BY <1>9 DEF ExpireCommand, PostingOp
<1> QED
  BY <1>1, <1>2, <1>3, <1>4, <1>5, <1>6, <1>7, <1>8, <1>9, CommandAssumption

\* A two-legged entry is a transaction.
LEMMA TwoLegType ==
  ASSUME NEW from \in Account, NEW to \in Account, NEW n \in Unit,
         NEW h \in HoldId \cup {None}
  PROVE  TwoLeg(from, to, n, h) \in Transaction
<1>1. n \in 0 .. MaxAmount /\ 0 \in 0 .. MaxAmount
  BY BoundAssumption DEF Unit
<1> QED
  BY <1>1 DEF TwoLeg, Transaction, Amounts

LEMMA ReverseType ==
  ASSUME NEW id \in TxnId, NEW t \in Transaction
  PROVE  Reverse(id, t) \in Transaction
BY DEF Reverse, Transaction

\* An answer that writes nothing keeps the types.
LEMMA FailType ==
  ASSUME TypeOK, Ready, NEW p \in Session, NEW r \in Reply, Fail(p, r)
  PROVE  TypeOK' /\ Ready'
<1>1. TypeOK'
  BY BoundAssumption DEF TypeOK, Fail, Answer, Unlock, db, Label, Time
<1>2. Ready'
  BY DEF TypeOK, Ready, ReadyAt, Fail, Answer, db
<1> QED
  BY <1>1, <1>2

\* A move to a label whose needs are met keeps the types.
LEMMA GotoType ==
  ASSUME TypeOK, Ready, NEW p \in Session, NEW l \in Label, Goto(p, l),
         UNCHANGED <<db, locks, local>>, ReadyAt(l, cmd[p], draft[p])
  PROVE  TypeOK' /\ Ready'
<1>1. TypeOK'
  BY DEF TypeOK, Goto, db, locks, local
<1>2. Ready'
  BY DEF TypeOK, Ready, ReadyAt, Goto, db, locks, local
<1> QED
  BY <1>1, <1>2

LEMMA DraftType ==
  ASSUME TypeOK, Ready, NEW p \in Session, NEW l \in {"lookup", "begin"},
         NEW t \in Transaction, Draft(p, t, l), ReadyAt(l, cmd[p], t)
  PROVE  TypeOK' /\ Ready'
<1>1. TypeOK'
  BY DEF TypeOK, Draft, Goto, db, locks, Label
<1>2. Ready'
  BY DEF TypeOK, Ready, ReadyAt, Draft, Goto, db, locks
<1> QED
  BY <1>1, <1>2

\* The steps up to the repository keep the types.
LEMMA UseCaseType ==
  ASSUME TypeOK, Ready, NEW p \in Session,
         \/ PostTransaction(p) \/ DepositWallet(p) \/ WithdrawWallet(p)
         \/ TransferWallet(p) \/ ReverseTransaction(p) \/ CreateHold(p)
         \/ CaptureHold(p) \/ ReleaseHold(p) \/ ExpireHold(p)
  PROVE  TypeOK' /\ Ready'
<1> USE DEF At
<1>0. pc[p] = "usecase" /\ cmd[p] \in Command /\ ReadyAt(pc[p], cmd[p], draft[p])
  BY DEF PostTransaction, DepositWallet, WithdrawWallet, TransferWallet,
         ReverseTransaction, CreateHold, CaptureHold, ReleaseHold, ExpireHold,
         Ready, ReadyAt
<1>a. {"rejected", "insufficient"} \subseteq Reply /\ {"begin", "update"} \subseteq Label
  BY DEF Reply, Label
<1>1. CASE PostTransaction(p)
  <2> DEFINE t == [dr |-> cmd[p].dr, cr |-> cmd[p].cr, reverses |-> None, captures |-> None]
  <2>1. t \in Transaction
    BY <1>0, <1>1, CommandFields DEF PostTransaction, Transaction
  <2>2. ReadyAt("lookup", cmd[p], t)
    BY <1>0, <1>1, <2>1 DEF PostTransaction, ReadyAt, PostingOp
  <2>3. Draft(p, t, "lookup") \/ Fail(p, "rejected")
    BY <1>1 DEF PostTransaction
  <2> QED
    BY <1>a, <2>1, <2>2, <2>3, DraftType, FailType
<1>2. CASE DepositWallet(p)
  <2> DEFINE t == TwoLeg(cmd[p].from, cmd[p].wallet, cmd[p].amount, None)
  <2>1. t \in Transaction
    BY <1>0, <1>2, CommandFields, TwoLegType, WalletAssumption DEF DepositWallet
  <2>2. ReadyAt("lookup", cmd[p], t)
    BY <1>0, <1>2, <2>1 DEF DepositWallet, ReadyAt, PostingOp
  <2>3. Draft(p, t, "lookup") \/ Fail(p, "rejected")
    BY <1>2 DEF DepositWallet
  <2> QED
    BY <1>a, <2>1, <2>2, <2>3, DraftType, FailType
<1>3. CASE WithdrawWallet(p) \/ TransferWallet(p)
  <2> DEFINE t == TwoLeg(cmd[p].wallet, cmd[p].to, cmd[p].amount, None)
  <2>0. cmd[p].op \in {"withdraw", "transfer"}
    BY <1>3 DEF WithdrawWallet, TransferWallet
  <2>1. t \in Transaction
    BY <1>0, <2>0, CommandFields, TwoLegType, WalletAssumption
  <2>2. ReadyAt("lookup", cmd[p], t)
    BY <1>0, <2>0, <2>1 DEF ReadyAt, PostingOp
  <2>3. Draft(p, t, "lookup") \/ Fail(p, "rejected") \/ Fail(p, "insufficient")
    BY <1>3 DEF WithdrawWallet, TransferWallet, SpendFrom
  <2> QED
    BY <1>a, <2>1, <2>2, <2>3, DraftType, FailType
<1>4. CASE ReverseTransaction(p)
  <2> DEFINE o == cmd[p].original
             t == Reverse(o, posted[o])
  <2>1. CASE Fail(p, "rejected")
    BY <1>a, <2>1, FailType
  <2>2. CASE posted[o] # None /\ Draft(p, t, "lookup")
    <3>1. o \in TxnId /\ posted[o] \in Transaction
      BY <1>0, <1>4, <2>2, CommandFields DEF ReverseTransaction, TypeOK
    <3>2. t \in Transaction
      BY <3>1, ReverseType
    <3>3. ReadyAt("lookup", cmd[p], t)
      BY <1>0, <1>4, <3>2 DEF ReverseTransaction, ReadyAt, PostingOp
    <3> QED
      BY <2>2, <3>2, <3>3, DraftType
  <2> QED
    BY <1>4, <2>1, <2>2 DEF ReverseTransaction
<1>5. CASE CreateHold(p)
  <2>1. ReadyAt("begin", cmd[p], draft[p])
    BY <1>0, <1>5 DEF CreateHold, ReadyAt, PostingOp
  <2> QED
    BY <1>5, <1>a, <2>1, GotoType, FailType DEF CreateHold
<1>6. CASE CaptureHold(p)
  <2> DEFINE h == cmd[p].hold
             t == TwoLeg(holds[h].wallet, cmd[p].settle, holds[h].amount, h)
  <2>1. CASE Fail(p, "rejected")
    BY <1>a, <2>1, FailType
  <2>2. CASE holds[h] # None /\ Draft(p, t, "begin")
    <3>1. h \in HoldId /\ cmd[p].settle \in Account /\ holds[h] \in HoldRow
      BY <1>0, <1>6, <2>2, CommandFields DEF CaptureHold, TypeOK
    <3>2. holds[h].wallet \in Account /\ holds[h].amount \in Unit
      BY <3>1, WalletAssumption DEF HoldRow
    <3>3. t \in Transaction
      BY <3>1, <3>2, TwoLegType
    <3>4. ReadyAt("begin", cmd[p], t)
      BY <1>0, <1>6, <2>2, <3>3 DEF CaptureHold, ReadyAt, PostingOp
    <3> QED
      BY <2>2, <3>3, <3>4, DraftType
  <2> QED
    BY <1>6, <2>1, <2>2 DEF CaptureHold, Capturable, Found
<1>7. CASE ReleaseHold(p) \/ ExpireHold(p)
  <2>1. cmd[p].op \in {"release", "expire"}
    BY <1>7 DEF ReleaseHold, ExpireHold
  <2>2. \/ Fail(p, "rejected")
        \/ holds[cmd[p].hold] # None /\ Goto(p, "update") /\ UNCHANGED <<db, locks, local>>
    BY <1>7 DEF ReleaseHold, ExpireHold, CloseHold, Found
  <2>3. holds[cmd[p].hold] # None => ReadyAt("update", cmd[p], draft[p])
    BY <1>0, <2>1 DEF ReadyAt, PostingOp
  <2> QED
    BY <1>a, <2>2, <2>3, GotoType, FailType
<1> QED
  BY <1>1, <1>2, <1>3, <1>4, <1>5, <1>6, <1>7

\* The wallet a session locks by identifier is a wallet.
LEMMA WalletToLockType ==
  ASSUME TypeOK, Ready, NEW p \in Session, pc[p] = "wallet"
  PROVE  WalletToLock(p) \in Wallet
<1>1. ReadyAt("wallet", cmd[p], draft[p])
  BY DEF Ready
<1>2. CASE cmd[p].op = "authorize"
  BY <1>1, <1>2, CommandFields DEF ReadyAt, WalletToLock
<1>3. CASE cmd[p].op = "capture"
  <2>1. cmd[p].hold \in HoldId /\ holds[cmd[p].hold] # None
    BY <1>1, <1>3, CommandFields DEF ReadyAt
  <2> QED
    BY <1>3, <2>1 DEF WalletToLock, TypeOK, HoldRow
<1> QED
  BY <1>1, <1>2, <1>3 DEF ReadyAt

\* While some wallet is left to lock, the next one is one of them, and the first.
LEMMA NextToLockType ==
  ASSUME TypeOK, NEW p \in Session, Pending(p) # {}
  PROVE  /\ NextToLock(p) \in Pending(p)
         /\ NextToLock(p) \in Wallet
         /\ \A v \in Pending(p) : NextToLock(p) <= v
<1>1. Pending(p) \subseteq Wallet /\ Pending(p) \subseteq Nat
  BY AccountAssumption, WalletAssumption DEF Pending, WalletsOf
<1>2. \E w \in Pending(p) : \A v \in Pending(p) : w <= v
  BY <1>1, LeastNatural
<1> QED
  BY <1>1, <1>2 DEF NextToLock

\* The steps of the repositories that write no row keep the types.
LEMMA RepositoryType ==
  ASSUME TypeOK, Ready, NEW p \in Session,
         \/ BeginTx(p) \/ LockWalletByID(p) \/ LockWalletAccount(p)
         \/ LookupKey(p) \/ RecheckKey(p) \/ ValidateBalances(p)
         \/ LockHold(p) \/ FindHold(p) \/ CheckFunds(p)
  PROVE  TypeOK' /\ Ready'
<1>0. ReadyAt(pc[p], cmd[p], draft[p])
  BY DEF Ready
<1>a. {"ok", "conflict", "insufficient", "rejected"} \subseteq Reply
  BY DEF Reply
<1>b. {"begin", "validate", "mark", "insert", "funds", "create", "accounts",
       "wallet", "hold", "find"} \subseteq Label
  BY DEF Label
<1>1. CASE BeginTx(p)
  <2>1. TypeOK'
    BY <1>1, <1>b DEF BeginTx, TypeOK, Goto, db, locks
  <2>2. Ready'
    BY <1>0, <1>1 DEF BeginTx, TypeOK, Ready, ReadyAt, Goto, db, locks, PostingOp
  <2> QED
    BY <2>1, <2>2
<1>2. CASE LockWalletByID(p)
  <2>1. TypeOK'
    BY <1>2, <1>b, WalletToLockType DEF LockWalletByID, TypeOK, Goto, db, local
  <2>2. Ready'
    BY <1>0, <1>2 DEF LockWalletByID, TypeOK, Ready, ReadyAt, Goto, db, local
  <2> QED
    BY <2>1, <2>2
<1>3. CASE LockWalletAccount(p)
  <2>1. TypeOK'
    BY <1>3, <1>b, NextToLockType DEF LockWalletAccount, TypeOK, Goto, db, local
  <2>2. Ready'
    BY <1>0, <1>3 DEF LockWalletAccount, TypeOK, Ready, ReadyAt, Goto, db, local
  <2> QED
    BY <2>1, <2>2
<1>4. CASE LookupKey(p)
  <2>1. ReadyAt("begin", cmd[p], draft[p])
    BY <1>0, <1>4 DEF LookupKey, ReadyAt
  <2>2. \/ Goto(p, "begin") /\ UNCHANGED <<db, locks, local>>
        \/ Fail(p, "ok")
        \/ Fail(p, "conflict")
    BY <1>4 DEF LookupKey, Idempotency
  <2> QED
    BY <1>a, <1>b, <2>1, <2>2, GotoType, FailType
<1>5. CASE RecheckKey(p)
  <2>1. ReadyAt("validate", cmd[p], draft[p])
    BY <1>0, <1>5 DEF RecheckKey, ReadyAt
  <2>2. cmd[p].op = "capture" => ReadyAt("mark", cmd[p], draft[p])
    BY <1>0, <1>5 DEF RecheckKey, ReadyAt
  <2>3. \/ Goto(p, "validate") /\ UNCHANGED <<db, locks, local>>
        \/ cmd[p].op = "capture" /\ Goto(p, "mark") /\ UNCHANGED <<db, locks, local>>
        \/ Fail(p, "ok")
        \/ Fail(p, "conflict")
    BY <1>5 DEF RecheckKey, Idempotency
  <2> QED
    BY <1>a, <1>b, <2>1, <2>2, <2>3, GotoType, FailType
<1>6. CASE ValidateBalances(p)
  <2>1. ReadyAt("insert", cmd[p], draft[p])
    BY <1>0, <1>6 DEF ValidateBalances, ReadyAt
  <2> QED
    BY <1>6, <1>a, <1>b, <2>1, GotoType, FailType DEF ValidateBalances
<1>7. CASE LockHold(p)
  <2>1. \/ Fail(p, "ok") \/ Fail(p, "conflict") \/ Fail(p, "rejected")
        \/ /\ holdLock' = [holdLock EXCEPT ![cmd[p].hold] = p]
           /\ Goto(p, "accounts")
           /\ UNCHANGED <<db, walletLock, local>>
    BY <1>7 DEF LockHold, Idempotency
  <2>2. ASSUME holdLock' = [holdLock EXCEPT ![cmd[p].hold] = p],
               Goto(p, "accounts"), UNCHANGED <<db, walletLock, local>>
        PROVE  TypeOK' /\ Ready'
    <3>1. TypeOK'
      BY <1>b, <2>2 DEF TypeOK, Goto, db, local
    <3>2. Ready'
      BY <1>0, <1>7, <2>2 DEF LockHold, TypeOK, Ready, ReadyAt, Goto, db, local, PostingOp
    <3> QED
      BY <3>1, <3>2
  <2> QED
    BY <1>a, <2>1, <2>2, FailType
<1>8. CASE FindHold(p)
  <2>1. ReadyAt("funds", cmd[p], draft[p])
    BY <1>0, <1>8 DEF FindHold, ReadyAt
  <2>2. \/ Goto(p, "funds") /\ UNCHANGED <<db, locks, local>>
        \/ Fail(p, "ok") \/ Fail(p, "conflict") \/ Fail(p, "rejected")
    BY <1>8 DEF FindHold
  <2> QED
    BY <1>a, <1>b, <2>1, <2>2, GotoType, FailType
<1>9. CASE CheckFunds(p)
  <2>1. ReadyAt("create", cmd[p], draft[p])
    BY <1>0, <1>9 DEF CheckFunds, ReadyAt
  <2> QED
    BY <1>9, <1>a, <1>b, <2>1, GotoType, FailType DEF CheckFunds
<1> QED
  BY <1>1, <1>2, <1>3, <1>4, <1>5, <1>6, <1>7, <1>8, <1>9

\* A commit of well-typed rows that removes no hold keeps the types.
LEMMA CommitType ==
  ASSUME TypeOK, Ready, NEW p \in Session, NEW r \in Reply, Answer(p, r),
         posted' \in [TxnId -> Transaction \cup {None}],
         keys' \in [Key -> KeyRow \cup {None}],
         holds' \in [HoldId -> HoldRow \cup {None}],
         outbox' \subseteq TxnId \X Wallet,
         \A h \in HoldId : holds[h] # None => holds'[h] # None
  PROVE  TypeOK' /\ Ready'
<1>1. TypeOK'
  BY BoundAssumption DEF TypeOK, Answer, Unlock, Label, Time
<1>2. ASSUME NEW q \in Session PROVE ReadyAt(pc[q], cmd[q], draft[q])'
  <2>1. CASE q = p
    BY <2>1 DEF Answer, TypeOK, ReadyAt
  <2>2. CASE q # p
    <3>1. pc'[q] = pc[q] /\ cmd'[q] = cmd[q] /\ draft'[q] = draft[q]
      BY <2>2 DEF Answer, TypeOK
    <3>2. ReadyAt(pc[q], cmd[q], draft[q])
      BY DEF Ready
    <3>3. pc[q] \notin {"idle", "usecase"} /\ cmd[q].op \in {"capture", "release", "expire"} =>
            cmd[q].hold \in HoldId
      BY <3>2, CommandFields DEF ReadyAt
    <3> QED
      BY <3>1, <3>2, <3>3 DEF ReadyAt
  <2> QED
    BY <2>1, <2>2
<1> QED
  BY <1>1, <1>2 DEF Ready

\* Changing the status of a hold keeps every row a hold row or absent.
LEMMA SetStatusType ==
  ASSUME TypeOK, NEW h \in HoldId, holds[h] # None, NEW st \in HoldStatus
  PROVE  /\ SetStatus(h, st) \in [HoldId -> HoldRow \cup {None}]
         /\ \A g \in HoldId : holds[g] # None => SetStatus(h, st)[g] # None
<1>1. holds[h] \in HoldRow
  BY DEF TypeOK
<1>2. [holds[h] EXCEPT !.status = st] \in HoldRow
  BY <1>1 DEF HoldRow
<1> QED
  BY <1>2, NoneAssumption DEF TypeOK, SetStatus

\* WriteTransaction writes well-typed rows.
LEMMA WriteType ==
  ASSUME TypeOK, NEW p \in Session, cmd[p] \in Command, cmd[p].op \in PostingOp,
         draft[p] \in Transaction, WriteTransaction(p)
  PROVE  /\ posted' \in [TxnId -> Transaction \cup {None}]
         /\ keys' \in [Key -> KeyRow \cup {None}]
         /\ outbox' \subseteq TxnId \X Wallet
<1>1. cmd[p].key \in Key /\ cmd[p].hash \in Hash /\ cmd[p].txn \in TxnId
  BY CommandFields
<1>2. WalletsOf(draft[p]) \subseteq Wallet
  BY DEF WalletsOf
<1> QED
  BY <1>1, <1>2 DEF TypeOK, WriteTransaction, OutboxEvents, KeyRow

\* The steps that commit rows keep the types.
LEMMA WriteStepType ==
  ASSUME TypeOK, Ready, NEW p \in Session,
         \/ InsertTransaction(p) \/ InsertCapture(p) \/ MarkCaptured(p)
         \/ CreateWalletHold(p) \/ UpdateStatus(p)
  PROVE  TypeOK' /\ Ready'
<1>0. ReadyAt(pc[p], cmd[p], draft[p])
  BY DEF Ready
<1>a. Reply = {"none", "ok", "conflict", "insufficient", "rejected", "failed",
               "aborted", "deadlock"}
  BY DEF Reply
<1>b. {"captured", "released", "expired"} \subseteq HoldStatus
  BY DEF HoldStatus
<1>1. CASE InsertTransaction(p)
  <2>1. \/ Fail(p, "failed") \/ Fail(p, "ok") \/ Fail(p, "conflict")
        \/ WriteTransaction(p) /\ Answer(p, "ok") /\ UNCHANGED holds
    BY <1>1 DEF InsertTransaction
  <2>2. ASSUME WriteTransaction(p), Answer(p, "ok"), UNCHANGED holds
        PROVE  TypeOK' /\ Ready'
    <3>1. cmd[p] \in Command /\ cmd[p].op \in PostingOp /\ draft[p] \in Transaction
      BY <1>0, <1>1 DEF InsertTransaction, At, ReadyAt
    <3>2. holds' \in [HoldId -> HoldRow \cup {None}]
      BY <2>2 DEF TypeOK
    <3>3. "ok" \in Reply
      BY <1>a
    <3> QED
      BY <2>2, <3>1, <3>2, <3>3, WriteType, CommitType
  <2> QED
    BY <1>a, <2>1, <2>2, FailType
<1>2. CASE InsertCapture(p)
  <2>1. \/ Fail(p, "failed") \/ Fail(p, "rejected")
        \/ /\ WriteTransaction(p)
           /\ holds' = SetStatus(cmd[p].hold, "captured")
           /\ Answer(p, "ok")
    BY <1>2 DEF InsertCapture
  <2>2. ASSUME WriteTransaction(p), holds' = SetStatus(cmd[p].hold, "captured"),
               Answer(p, "ok")
        PROVE  TypeOK' /\ Ready'
    <3>1. /\ cmd[p] \in Command /\ cmd[p].op = "capture" /\ cmd[p].op \in PostingOp
          /\ draft[p] \in Transaction /\ holds[cmd[p].hold] # None
      BY <1>0, <1>2 DEF InsertCapture, At, ReadyAt, PostingOp
    <3>2. cmd[p].hold \in HoldId /\ "captured" \in HoldStatus /\ "ok" \in Reply
      BY <1>a, <1>b, <3>1, CommandFields
    <3>3. /\ holds' \in [HoldId -> HoldRow \cup {None}]
          /\ \A h \in HoldId : holds[h] # None => holds'[h] # None
      BY <2>2, <3>1, <3>2, SetStatusType
    <3> QED
      BY <2>2, <3>1, <3>2, <3>3, WriteType, CommitType
  <2> QED
    BY <1>a, <2>1, <2>2, FailType
<1>3. CASE MarkCaptured(p)
  <2>1. \/ Fail(p, "rejected")
        \/ /\ holds' = SetStatus(cmd[p].hold, "captured")
           /\ Answer(p, "ok")
           /\ UNCHANGED <<posted, keys, outbox>>
    BY <1>3 DEF MarkCaptured
  <2>2. ASSUME holds' = SetStatus(cmd[p].hold, "captured"), Answer(p, "ok"),
               UNCHANGED <<posted, keys, outbox>>
        PROVE  TypeOK' /\ Ready'
    <3>1. cmd[p] \in Command /\ cmd[p].op = "capture" /\ holds[cmd[p].hold] # None
      BY <1>0, <1>3 DEF MarkCaptured, ReadyAt
    <3>2. cmd[p].hold \in HoldId /\ "captured" \in HoldStatus /\ "ok" \in Reply
      BY <1>a, <1>b, <3>1, CommandFields
    <3>3. /\ holds' \in [HoldId -> HoldRow \cup {None}]
          /\ \A h \in HoldId : holds[h] # None => holds'[h] # None
      BY <2>2, <3>1, <3>2, SetStatusType
    <3>4. /\ posted' \in [TxnId -> Transaction \cup {None}]
          /\ keys' \in [Key -> KeyRow \cup {None}]
          /\ outbox' \subseteq TxnId \X Wallet
      BY <2>2 DEF TypeOK
    <3> QED
      BY <2>2, <3>2, <3>3, <3>4, CommitType
  <2> QED
    BY <1>a, <2>1, <2>2, FailType
<1>4. CASE CreateWalletHold(p)
  <2> DEFINE c == cmd[p]
             row == [wallet |-> c.wallet, amount |-> c.amount, created |-> began[p],
                     expires |-> c.expires, status |-> "authorized",
                     key |-> c.key, hash |-> c.hash]
  <2>1. \/ Fail(p, "failed")
        \/ /\ holds' = [holds EXCEPT ![c.hold] = row]
           /\ Answer(p, "ok") \/ Answer(p, "rejected")
           /\ UNCHANGED <<posted, keys, outbox>>
    BY <1>4 DEF CreateWalletHold
  <2>2. ASSUME holds' = [holds EXCEPT ![c.hold] = row],
               Answer(p, "ok") \/ Answer(p, "rejected"),
               UNCHANGED <<posted, keys, outbox>>
        PROVE  TypeOK' /\ Ready'
    <3>1. c \in Command /\ c.op = "authorize"
      BY <1>0, <1>4 DEF CreateWalletHold, ReadyAt
    <3>2. row \in HoldRow
      BY <3>1, CommandFields DEF HoldRow, HoldStatus, TypeOK
    <3>3. /\ holds' \in [HoldId -> HoldRow \cup {None}]
          /\ \A h \in HoldId : holds[h] # None => holds'[h] # None
      <4> HIDE DEF row
      <4> QED
        BY <2>2, <3>2, NoneAssumption DEF TypeOK
    <3>4. /\ posted' \in [TxnId -> Transaction \cup {None}]
          /\ keys' \in [Key -> KeyRow \cup {None}]
          /\ outbox' \subseteq TxnId \X Wallet
      BY <2>2 DEF TypeOK
    <3>5. "ok" \in Reply /\ "rejected" \in Reply
      BY <1>a
    <3> QED
      BY <2>2, <3>3, <3>4, <3>5, CommitType
  <2> QED
    BY <1>a, <2>1, <2>2, FailType
<1>5. CASE UpdateStatus(p)
  <2>1. \/ Fail(p, "rejected")
        \/ \E st \in {"released", "expired"} :
             /\ holds' = SetStatus(cmd[p].hold, st)
             /\ Answer(p, "ok")
             /\ UNCHANGED <<posted, keys, outbox>>
    BY <1>5 DEF UpdateStatus
  <2>2. ASSUME NEW st \in {"released", "expired"},
               holds' = SetStatus(cmd[p].hold, st), Answer(p, "ok"),
               UNCHANGED <<posted, keys, outbox>>
        PROVE  TypeOK' /\ Ready'
    <3>1. /\ cmd[p] \in Command /\ cmd[p].op \in {"release", "expire"}
          /\ holds[cmd[p].hold] # None
      BY <1>0, <1>5 DEF UpdateStatus, ReadyAt
    <3>2. cmd[p].hold \in HoldId /\ st \in HoldStatus /\ "ok" \in Reply
      BY <1>a, <1>b, <3>1, CommandFields
    <3>3. /\ holds' \in [HoldId -> HoldRow \cup {None}]
          /\ \A h \in HoldId : holds[h] # None => holds'[h] # None
      BY <2>2, <3>1, <3>2, SetStatusType
    <3>4. /\ posted' \in [TxnId -> Transaction \cup {None}]
          /\ keys' \in [Key -> KeyRow \cup {None}]
          /\ outbox' \subseteq TxnId \X Wallet
      BY <2>2 DEF TypeOK
    <3> QED
      BY <2>2, <3>2, <3>3, <3>4, CommitType
  <2> QED
    BY <1>a, <2>1, <2>2, FailType
<1> QED
  BY <1>1, <1>2, <1>3, <1>4, <1>5

\* Every step keeps the types.
LEMMA TypeStep ==
  ASSUME TypeOK, Ready, [Next]_vars
  PROVE  TypeOK' /\ Ready'
<1>1. CASE UNCHANGED vars
  BY <1>1 DEF vars, TypeOK, Ready, ReadyAt
<1>2. CASE Tick
  <2>1. TypeOK'
    BY <1>2, BoundAssumption DEF Tick, TypeOK, Time, db, locks, local
  <2>2. Ready'
    BY <1>2 DEF Tick, Ready, ReadyAt, db, locks, local
  <2> QED
    BY <2>1, <2>2
<1>3. ASSUME NEW p \in Session, NEW c \in Command, Submit(p, c)
      PROVE  TypeOK' /\ Ready'
  <2>1. TypeOK'
    BY <1>3 DEF Submit, TypeOK, Label, Reply, db, locks, local
  <2>2. Ready'
    BY <1>3 DEF Submit, TypeOK, Ready, ReadyAt, db, locks, local
  <2> QED
    BY <2>1, <2>2
<1>4. ASSUME NEW p \in Session, Run(p) \/ Acquire(p)
      PROVE  TypeOK' /\ Ready'
  BY <1>4, UseCaseType, RepositoryType, WriteStepType DEF Run, Acquire
<1>5. ASSUME NEW p \in Session, DeadlockVictim(p) \/ Abort(p)
      PROVE  TypeOK' /\ Ready'
  <2>1. Fail(p, "deadlock") \/ Fail(p, "aborted")
    BY <1>5 DEF DeadlockVictim, Abort
  <2>2. "deadlock" \in Reply /\ "aborted" \in Reply
    BY DEF Reply
  <2> QED
    BY <2>1, <2>2, FailType
<1> QED
  BY <1>1, <1>2, <1>3, <1>4, <1>5 DEF Next

LEMMA TypeInit ==
  ASSUME Init
  PROVE  TypeOK /\ Ready
BY BoundAssumption DEF Init, TypeOK, Ready, ReadyAt, Time, Label, Reply

\* Whatever requests interleave, fail or are repeated, every row and every
\* session's state keep their types, and a session past its use case has the
\* transaction and the hold row that its next statement relies on.
THEOREM TypeCorrect == Spec => [](TypeOK /\ Ready)
<1>1. Init => TypeOK /\ Ready
  BY TypeInit
<1>2. TypeOK /\ Ready /\ [Next]_vars => (TypeOK /\ Ready)'
  BY TypeStep
<1> QED
  BY <1>1, <1>2, PTL DEF Spec

-----------------------------------------------------------------------------
(* What never changes *)

\* The steps of a session that write no row.
Reads(p) ==
  \/ PostTransaction(p) \/ DepositWallet(p) \/ WithdrawWallet(p)
  \/ TransferWallet(p) \/ ReverseTransaction(p)
  \/ CreateHold(p) \/ CaptureHold(p) \/ ReleaseHold(p) \/ ExpireHold(p)
  \/ BeginTx(p) \/ LookupKey(p) \/ RecheckKey(p) \/ ValidateBalances(p)
  \/ LockWalletByID(p) \/ LockWalletAccount(p) \/ LockHold(p)
  \/ FindHold(p) \/ CheckFunds(p) \/ DeadlockVictim(p) \/ Abort(p)

LEMMA ReadsWriteNothing ==
  ASSUME NEW p \in Session, Reads(p)
  PROVE  UNCHANGED db
BY DEF Reads, PostTransaction, DepositWallet, WithdrawWallet, TransferWallet,
       SpendFrom, ReverseTransaction, CreateHold, CaptureHold, ReleaseHold, ExpireHold,
       CloseHold, BeginTx, LookupKey, RecheckKey, ValidateBalances, LockWalletByID,
       LockWalletAccount, LockHold, FindHold, CheckFunds, DeadlockVictim, Abort,
       Idempotency, Draft, Fail

\* Hold row h is what session p was asked to create.
AskedOf(p, h, row) ==
  /\ h = cmd[p].hold
  /\ row.wallet = cmd[p].wallet /\ row.amount = cmd[p].amount
  /\ row.key = cmd[p].key /\ row.hash = cmd[p].hash

\* A step writes nothing, posts a checked transaction under a new identifier and
\* a new key, ends an authorized hold, or creates a hold under a new identifier.
LEMMA WritesOfAStep ==
  ASSUME TypeOK, Ready, [Next]_vars
  PROVE  \/ UNCHANGED db
         \/ \E p \in Session :
              /\ pc[p] = "insert" /\ pc'[p] = "idle"
              /\ cmd[p] \in Command /\ cmd[p].op \in PostingOp
              /\ draft[p] \in Transaction
              /\ ~DuplicateTransaction(p) /\ keys[cmd[p].key] = None
              /\ WriteTransaction(p)
              /\ \/ UNCHANGED holds
                 \/ \E h \in HoldId :
                      /\ holds[h] # None /\ StillAuthorized(h)
                      /\ holds' = SetStatus(h, "captured")
         \/ /\ UNCHANGED <<posted, keys, outbox>>
            /\ \E h \in HoldId, st \in {"captured", "released", "expired"} :
                 /\ holds[h] # None /\ StillAuthorized(h)
                 /\ holds' = SetStatus(h, st)
         \/ /\ UNCHANGED <<posted, keys, outbox>>
            /\ \E p \in Session, h \in HoldId, row \in HoldRow :
                 /\ pc[p] = "create" /\ pc'[p] = "idle" /\ AskedOf(p, h, row)
                 /\ holds[h] = None
                 /\ holds' = [holds EXCEPT ![h] = row]
<1>1. CASE UNCHANGED vars \/ Tick \/ \E p \in Session, c \in Command : Submit(p, c)
  BY <1>1 DEF vars, Tick, Submit, db
<1>2. ASSUME NEW p \in Session, Reads(p) PROVE UNCHANGED db
  BY <1>2, ReadsWriteNothing
<1>3. ASSUME NEW p \in Session, InsertTransaction(p)
      PROVE  \/ UNCHANGED db
             \/ /\ pc[p] = "insert" /\ pc'[p] = "idle"
                /\ cmd[p] \in Command /\ cmd[p].op \in PostingOp
                /\ draft[p] \in Transaction
                /\ ~DuplicateTransaction(p) /\ keys[cmd[p].key] = None
                /\ WriteTransaction(p) /\ UNCHANGED holds
  <2>1. ReadyAt("insert", cmd[p], draft[p]) /\ pc[p] = "insert"
    BY <1>3 DEF Ready, InsertTransaction, At
  <2> QED
    BY <1>3, <2>1 DEF InsertTransaction, Fail, Answer, TypeOK, ReadyAt
<1>4. ASSUME NEW p \in Session, InsertCapture(p)
      PROVE  \/ UNCHANGED db
             \/ /\ pc[p] = "insert" /\ pc'[p] = "idle"
                /\ cmd[p] \in Command /\ cmd[p].op \in PostingOp
                /\ draft[p] \in Transaction
                /\ ~DuplicateTransaction(p) /\ keys[cmd[p].key] = None
                /\ WriteTransaction(p)
                /\ \E h \in HoldId : /\ holds[h] # None /\ StillAuthorized(h)
                                     /\ holds' = SetStatus(h, "captured")
  <2>1. ReadyAt("insert", cmd[p], draft[p]) /\ pc[p] = "insert" /\ cmd[p].op = "capture"
    BY <1>4 DEF Ready, InsertCapture, At
  <2>2. cmd[p].hold \in HoldId /\ holds[cmd[p].hold] # None
    BY <2>1, CommandFields DEF ReadyAt
  <2> QED
    BY <1>4, <2>1, <2>2 DEF InsertCapture, Fail, Answer, TypeOK, ReadyAt
<1>5. ASSUME NEW p \in Session, MarkCaptured(p) \/ UpdateStatus(p)
      PROVE  \/ UNCHANGED db
             \/ /\ UNCHANGED <<posted, keys, outbox>>
                /\ \E h \in HoldId, st \in {"captured", "released", "expired"} :
                     /\ holds[h] # None /\ StillAuthorized(h)
                     /\ holds' = SetStatus(h, st)
  <2>1. /\ ReadyAt(pc[p], cmd[p], draft[p])
        /\ pc[p] \in {"mark", "update"}
    BY <1>5 DEF Ready, MarkCaptured, UpdateStatus
  <2>2. cmd[p].hold \in HoldId /\ holds[cmd[p].hold] # None
    BY <2>1, CommandFields DEF ReadyAt
  <2> QED
    BY <1>5, <2>2 DEF MarkCaptured, UpdateStatus, Fail
<1>6. ASSUME NEW p \in Session, CreateWalletHold(p)
      PROVE  \/ UNCHANGED db
             \/ /\ UNCHANGED <<posted, keys, outbox>>
                /\ \E h \in HoldId, row \in HoldRow :
                     /\ pc[p] = "create" /\ pc'[p] = "idle" /\ AskedOf(p, h, row)
                     /\ holds[h] = None
                     /\ holds' = [holds EXCEPT ![h] = row]
  <2>1. ReadyAt("create", cmd[p], draft[p])
    BY <1>6 DEF Ready, CreateWalletHold
  <2>2. CASE Fail(p, "failed")
    BY <2>2 DEF Fail
  <2>3. CASE holds[cmd[p].hold] = None
    <3> DEFINE row == [wallet |-> cmd[p].wallet, amount |-> cmd[p].amount,
                       created |-> began[p], expires |-> cmd[p].expires,
                       status |-> "authorized", key |-> cmd[p].key, hash |-> cmd[p].hash]
    <3>1. row \in HoldRow /\ cmd[p].hold \in HoldId
      BY <2>1, CommandFields DEF ReadyAt, HoldRow, HoldStatus, TypeOK
    <3>2. holds' = [holds EXCEPT ![cmd[p].hold] = row] /\ UNCHANGED <<posted, keys, outbox>>
      BY <1>6, <2>3 DEF CreateWalletHold
    <3>3. AskedOf(p, cmd[p].hold, row)
      BY DEF AskedOf
    <3>4. pc[p] = "create" /\ pc'[p] = "idle"
      BY <1>6, <2>3 DEF CreateWalletHold, Answer, TypeOK
    <3> HIDE DEF row
    <3> QED
      BY <2>3, <3>1, <3>2, <3>3, <3>4
  <2> QED
    BY <1>6, <2>2, <2>3 DEF CreateWalletHold
<1> QED
  BY <1>1, <1>2, <1>3, <1>4, <1>5, <1>6 DEF Next, Run, Acquire, Reads

\* A step only adds transactions, idempotency records and events.
LEMMA StepAppends ==
  ASSUME TypeOK, Ready, [Next]_vars
  PROVE  /\ \A t \in TxnId : posted[t] # None => posted'[t] = posted[t]
         /\ \A k \in Key : keys[k] # None => keys'[k] = keys[k]
         /\ outbox \subseteq outbox'
<1>1. CASE UNCHANGED <<posted, keys, outbox>>
  BY <1>1
<1>2. ASSUME NEW p \in Session, ~DuplicateTransaction(p), keys[cmd[p].key] = None,
             WriteTransaction(p)
      PROVE  /\ \A t \in TxnId : posted[t] # None => posted'[t] = posted[t]
             /\ \A k \in Key : keys[k] # None => keys'[k] = keys[k]
             /\ outbox \subseteq outbox'
  BY <1>2 DEF TypeOK, DuplicateTransaction, WriteTransaction
<1> QED
  BY <1>1, <1>2, WritesOfAStep DEF db

\* Posted transactions, idempotency records and events are only ever added.
THEOREM AppendOnly == Spec => LedgerAppendOnly
<1>1. TypeOK /\ Ready /\ [Next]_vars =>
        [/\ \A t \in TxnId : posted[t] # None => posted'[t] = posted[t]
         /\ \A k \in Key : keys[k] # None => keys'[k] = keys[k]
         /\ outbox \subseteq outbox']_vars
  BY StepAppends
<1> QED
  BY <1>1, TypeCorrect, PTL DEF Spec, LedgerAppendOnly

\* A step changes nothing of a hold but the status, and that only while it is
\* authorized.
LEMMA StepKeepsHolds ==
  ASSUME TypeOK, Ready, [Next]_vars, NEW h \in HoldId, holds[h] # None
  PROVE  /\ holds'[h] # None
         /\ [holds'[h] EXCEPT !.status = holds[h].status] = holds[h]
         /\ holds[h].status # "authorized" => holds'[h] = holds[h]
<1>1. holds[h] \in HoldRow
  BY DEF TypeOK
<1>2. CASE holds'[h] = holds[h]
  BY <1>1, <1>2 DEF HoldRow
<1>3. ASSUME NEW g \in HoldId, NEW st \in {"captured", "released", "expired"},
             StillAuthorized(g), holds' = SetStatus(g, st), g = h
      PROVE  /\ holds'[h] # None
             /\ [holds'[h] EXCEPT !.status = holds[h].status] = holds[h]
             /\ holds[h].status # "authorized" => holds'[h] = holds[h]
  <2>1. holds'[h] = [holds[h] EXCEPT !.status = st]
    BY <1>3 DEF SetStatus, TypeOK
  <2>2. holds'[h] \in HoldRow
    BY <1>1, <2>1 DEF HoldRow, HoldStatus
  <2>3. [holds'[h] EXCEPT !.status = holds[h].status] = holds[h]
    BY <1>1, <2>1 DEF HoldRow
  <2> QED
    BY <1>3, <2>2, <2>3, NoneAssumption DEF StillAuthorized
<1>4. ASSUME NEW g \in HoldId, NEW st, holds' = SetStatus(g, st), g # h
      PROVE  holds'[h] = holds[h]
  BY <1>4 DEF SetStatus, TypeOK
<1>5. ASSUME NEW g \in HoldId, NEW row, holds[g] = None,
             holds' = [holds EXCEPT ![g] = row]
      PROVE  holds'[h] = holds[h]
  BY <1>5 DEF TypeOK
<1>6. UNCHANGED db => UNCHANGED holds
  BY DEF db
<1>7. \/ UNCHANGED holds
      \/ \E g \in HoldId, st \in {"captured", "released", "expired"} :
           StillAuthorized(g) /\ holds' = SetStatus(g, st)
      \/ \E g \in HoldId, row \in HoldRow : holds[g] = None /\ holds' = [holds EXCEPT ![g] = row]
  BY <1>6, WritesOfAStep
<1> QED
  BY <1>2, <1>3, <1>4, <1>5, <1>7

\* However capture, release and expiry of a hold race, the first to commit
\* decides, and amount, wallet and expiry are never altered.
THEOREM OutcomeFinal == Spec => HoldOutcomeFinal
<1> DEFINE Kept == \A h \in HoldId : holds[h] # None =>
                     /\ holds'[h] # None
                     /\ [holds'[h] EXCEPT !.status = holds[h].status] = holds[h]
                     /\ holds[h].status # "authorized" => holds'[h] = holds[h]
<1>1. TypeOK /\ Ready /\ [Next]_vars => [Kept]_vars
  BY StepKeepsHolds
<1> QED
  BY <1>1, TypeCorrect, PTL DEF Spec, HoldOutcomeFinal

-----------------------------------------------------------------------------
(* Records that agree *)

\* Each idempotency record stands for one posted transaction and each posted
\* transaction has one: a key never moves money twice, whichever of two requests
\* with that key commits first.
THEOREM KeysAndPostings == Spec => []KeysNamePostings
<1>1. Init => KeysNamePostings
  BY DEF Init, KeysNamePostings
<1>2. ASSUME TypeOK, Ready, KeysNamePostings, [Next]_vars
      PROVE  KeysNamePostings'
  <2>1. CASE UNCHANGED <<posted, keys, outbox>>
    BY <1>2, <2>1 DEF KeysNamePostings
  <2>2. ASSUME NEW p \in Session, cmd[p] \in Command, cmd[p].op \in PostingOp,
               draft[p] \in Transaction,
               ~DuplicateTransaction(p), keys[cmd[p].key] = None, WriteTransaction(p)
        PROVE  KeysNamePostings'
    <3> DEFINE k == cmd[p].key
               t == cmd[p].txn
               row == [hash |-> cmd[p].hash, txn |-> t]
    <3>1. k \in Key /\ t \in TxnId /\ row \in KeyRow /\ row.txn = t
      BY <2>2, CommandFields DEF KeyRow
    <3>2. posted[t] = None /\ keys[k] = None
      BY <2>2 DEF DuplicateTransaction
    <3>3. posted' = [posted EXCEPT ![t] = draft[p]] /\ keys' = [keys EXCEPT ![k] = row]
      BY <2>2 DEF WriteTransaction
    <3>4. draft[p] # None /\ row # None
      BY <2>2, <3>1, NoneAssumption
    <3> HIDE DEF k, t, row
    <3>5. /\ \A j \in Key : keys'[j] = IF j = k THEN row ELSE keys[j]
          /\ \A u \in TxnId : posted'[u] = IF u = t THEN draft[p] ELSE posted[u]
      BY <1>2, <3>3 DEF TypeOK
    <3>6. \A j \in Key : keys[j] # None => keys[j].txn \in TxnId /\ keys[j].txn # t
      BY <1>2, <3>2 DEF TypeOK, KeyRow, KeysNamePostings
    <3>7. \A j \in Key : keys'[j] # None => posted'[keys'[j].txn] # None
      BY <1>2, <3>1, <3>4, <3>5, <3>6 DEF KeysNamePostings
    <3>8. \A i, j \in Key :
            keys'[i] # None /\ keys'[j] # None /\ keys'[i].txn = keys'[j].txn => i = j
      BY <1>2, <3>1, <3>5, <3>6 DEF KeysNamePostings
    <3>9. \A u \in TxnId : posted'[u] # None => \E j \in Key : keys'[j] # None /\ keys'[j].txn = u
      <4> SUFFICES ASSUME NEW u \in TxnId, posted'[u] # None
                   PROVE  \E j \in Key : keys'[j] # None /\ keys'[j].txn = u
        OBVIOUS
      <4>1. CASE u = t
        BY <3>1, <3>4, <3>5, <4>1
      <4>2. CASE u # t
        <5>1. PICK j \in Key : keys[j] # None /\ keys[j].txn = u
          BY <1>2, <3>5, <4>2 DEF KeysNamePostings
        <5>2. j # k
          BY <3>2, <5>1
        <5> QED
          BY <3>5, <5>1, <5>2
      <4> QED
        BY <4>1, <4>2
    <3> QED
      BY <3>7, <3>8, <3>9 DEF KeysNamePostings
  <2> QED
    BY <1>2, <2>1, <2>2, WritesOfAStep DEF db
<1>3. TypeOK /\ Ready /\ KeysNamePostings /\ [Next]_vars => KeysNamePostings'
  BY <1>2
<1> QED
  BY <1>1, <1>3, TypeCorrect, PTL DEF Spec

\* The outbox has an event for each wallet of each posted transaction, and no
\* other.
THEOREM EventsAndPostings == Spec => []EventsMatchPostings
<1>1. Init => EventsMatchPostings
  BY DEF Init, EventsMatchPostings
<1>2. ASSUME TypeOK, Ready, EventsMatchPostings, [Next]_vars
      PROVE  EventsMatchPostings'
  <2>1. CASE UNCHANGED <<posted, keys, outbox>>
    BY <1>2, <2>1 DEF EventsMatchPostings
  <2>2. ASSUME NEW p \in Session, cmd[p] \in Command, cmd[p].op \in PostingOp,
               draft[p] \in Transaction, ~DuplicateTransaction(p), WriteTransaction(p)
        PROVE  EventsMatchPostings'
    <3> DEFINE t == cmd[p].txn
    <3>1. t \in TxnId /\ posted[t] = None /\ draft[p] # None
      BY <2>2, CommandFields, NoneAssumption DEF DuplicateTransaction
    <3>2. /\ posted' = [posted EXCEPT ![t] = draft[p]]
          /\ outbox' = outbox \cup {t} \X WalletsOf(draft[p])
      BY <2>2 DEF WriteTransaction, OutboxEvents
    <3> HIDE DEF t
    <3>3. \A u \in TxnId : posted'[u] = IF u = t THEN draft[p] ELSE posted[u]
      BY <1>2, <3>2 DEF TypeOK
    <3>4. ASSUME NEW e
          PROVE  e \in outbox' <=>
                   \E u \in TxnId : posted'[u] # None /\ e \in {u} \X WalletsOf(posted'[u])
      <4>1. e \in outbox <=>
              \E u \in TxnId : posted[u] # None /\ e \in {u} \X WalletsOf(posted[u])
        BY <1>2 DEF EventsMatchPostings
      <4> QED
        BY <3>1, <3>2, <3>3, <4>1
    <3> QED
      BY <3>4 DEF EventsMatchPostings
  <2> QED
    BY <1>2, <2>1, <2>2, WritesOfAStep DEF db
<1>3. TypeOK /\ Ready /\ EventsMatchPostings /\ [Next]_vars => EventsMatchPostings'
  BY <1>2
<1> QED
  BY <1>1, <1>3, TypeCorrect, PTL DEF Spec

-----------------------------------------------------------------------------
(* Solvency *)

Spendable(w) == Available(posted, holds, w, clock)

\* The wallets a session checks are locked by it from before the check.
Secured(p) ==
  /\ pc[p] \in {"validate", "insert"} =>
       \A w \in WalletsOf(draft[p]) : walletLock[w] = p
  /\ pc[p] \in {"find", "funds", "create"} => walletLock[cmd[p].wallet] = p
  /\ began[p] <= clock

Locked == \A p \in Session : Secured(p)

SolvencyInv == TypeOK /\ Ready /\ Locked /\ ChecksStayValid /\ SolventWallets

-----------------------------------------------------------------------------
(* Locks *)

\* An answer gives back only the locks of its own session.
LEMMA AnswerLocked ==
  ASSUME TypeOK, Ready, Locked, NEW p \in Session, NEW r, Answer(p, r)
  PROVE  Locked'
<1> SUFFICES ASSUME NEW q \in Session PROVE Secured(q)'
  BY DEF Locked
<1>1. Secured(q) /\ ReadyAt(pc[q], cmd[q], draft[q])
  BY DEF Locked, Ready
<1>2. CASE q = p
  BY <1>2, BoundAssumption DEF Answer, Secured, TypeOK, Time
<1>3. CASE q # p
  <2>1. /\ pc'[q] = pc[q] /\ cmd'[q] = cmd[q] /\ draft'[q] = draft[q]
        /\ began'[q] = began[q] /\ clock' = clock
    BY <1>3 DEF Answer, TypeOK
  <2>2. \A w \in Wallet : walletLock[w] = q => walletLock'[w] = q
    BY <1>3 DEF Answer, Unlock, TypeOK
  <2>3. pc[q] \in {"find", "funds", "create"} => cmd[q].wallet \in Wallet
    BY <1>1, CommandFields DEF ReadyAt
  <2> QED
    BY <1>1, <2>1, <2>2, <2>3 DEF Secured, WalletsOf
<1> QED
  BY <1>2, <1>3

\* A move that leaves the locks alone, to a label whose locks p has.
LEMMA GotoLocked ==
  ASSUME TypeOK, Locked, NEW p \in Session, NEW l, Goto(p, l),
         UNCHANGED walletLock, UNCHANGED <<draft, began>>,
         l \in {"validate", "insert"} => \A w \in WalletsOf(draft[p]) : walletLock[w] = p,
         l \in {"find", "funds", "create"} => walletLock[cmd[p].wallet] = p
  PROVE  Locked'
BY DEF TypeOK, Locked, Secured, Goto

LEMMA DraftLocked ==
  ASSUME TypeOK, Locked, NEW p \in Session, NEW t, NEW l \in {"lookup", "begin"},
         Draft(p, t, l)
  PROVE  Locked'
<1> SUFFICES ASSUME NEW q \in Session PROVE Secured(q)'
  BY DEF Locked
<1>1. Secured(q)
  BY DEF Locked
<1> QED
  BY <1>1 DEF TypeOK, Secured, Draft, Goto, locks

\* A session takes only a wallet that no one has.
LEMMA AcquireLocked ==
  ASSUME TypeOK, Ready, Locked, NEW p \in Session, NEW v \in Wallet,
         walletLock[v] = None, walletLock' = [walletLock EXCEPT ![v] = p],
         NEW l \in {"accounts", "hold", "find"}, Goto(p, l), UNCHANGED <<draft, began>>,
         l = "find" => v = cmd[p].wallet
  PROVE  Locked'
<1> SUFFICES ASSUME NEW q \in Session PROVE Secured(q)'
  BY DEF Locked
<1>1. Secured(q) /\ ReadyAt(pc[q], cmd[q], draft[q])
  BY DEF Locked, Ready
<1>2. CASE q = p
  BY <1>1, <1>2 DEF TypeOK, Secured, Goto
<1>3. CASE q # p
  <2>1. /\ pc'[q] = pc[q] /\ cmd'[q] = cmd[q] /\ draft'[q] = draft[q]
        /\ began'[q] = began[q] /\ clock' = clock
    BY <1>3 DEF Goto, TypeOK
  <2>2. \A w \in Wallet : walletLock[w] = q => walletLock'[w] = q
    BY SessionAssumption DEF TypeOK
  <2>3. pc[q] \in {"find", "funds", "create"} => cmd[q].wallet \in Wallet
    BY <1>1, CommandFields DEF ReadyAt
  <2> QED
    BY <1>1, <2>1, <2>2, <2>3 DEF Secured, WalletsOf
<1> QED
  BY <1>2, <1>3

\* The steps of the use cases take no locks.
LEMMA UseCaseLocked ==
  ASSUME TypeOK, Ready, Locked, NEW p \in Session,
         \/ PostTransaction(p) \/ DepositWallet(p) \/ WithdrawWallet(p)
         \/ TransferWallet(p) \/ ReverseTransaction(p) \/ CreateHold(p)
         \/ CaptureHold(p) \/ ReleaseHold(p) \/ ExpireHold(p)
  PROVE  /\ Locked'
         /\ pc'[p] \notin {"insert", "create"}
         /\ UNCHANGED <<posted, holds>>
<1>1. \/ \E r : Fail(p, r)
      \/ \E t : Draft(p, t, "lookup") \/ Draft(p, t, "begin")
      \/ \E l \in {"begin", "update"} : Goto(p, l) /\ UNCHANGED <<db, locks, local>>
  BY DEF PostTransaction, DepositWallet, WithdrawWallet, TransferWallet, SpendFrom,
         ReverseTransaction, CreateHold, CaptureHold, ReleaseHold, ExpireHold, CloseHold
<1>2. ASSUME NEW r, Fail(p, r)
      PROVE  Locked' /\ pc'[p] = "idle" /\ UNCHANGED <<posted, holds>>
  BY <1>2, AnswerLocked DEF Fail, Answer, TypeOK, db
<1>3. ASSUME NEW t, NEW l \in {"lookup", "begin"}, Draft(p, t, l)
      PROVE  Locked' /\ pc'[p] = l /\ UNCHANGED <<posted, holds>>
  BY <1>3, DraftLocked DEF Draft, Goto, TypeOK, db
<1>4. ASSUME NEW l \in {"begin", "update"}, Goto(p, l), UNCHANGED <<db, locks, local>>
      PROVE  Locked' /\ pc'[p] = l /\ UNCHANGED <<posted, holds>>
  BY <1>4, GotoLocked DEF Goto, TypeOK, db, locks, local
<1> QED
  BY <1>1, <1>2, <1>3, <1>4

\* The steps of the repositories before the commit keep the locks they rely on.
LEMMA RepositoryLocked ==
  ASSUME TypeOK, Ready, Locked, NEW p \in Session,
         \/ BeginTx(p) \/ LockWalletByID(p) \/ LockWalletAccount(p)
         \/ LookupKey(p) \/ RecheckKey(p) \/ ValidateBalances(p)
         \/ LockHold(p) \/ FindHold(p) \/ CheckFunds(p)
  PROVE  Locked'
<1>0. Secured(p) /\ ReadyAt(pc[p], cmd[p], draft[p])
  BY DEF Locked, Ready
<1>f. ASSUME NEW r, Fail(p, r) PROVE Locked'
  BY <1>f, AnswerLocked DEF Fail
<1>1. CASE BeginTx(p)
  <2> SUFFICES ASSUME NEW q \in Session PROVE Secured(q)'
    BY DEF Locked
  <2>1. Secured(q)
    BY DEF Locked
  <2> QED
    BY <1>1, <2>1 DEF BeginTx, Goto, TypeOK, Secured, Time, locks
<1>2. CASE LockWalletByID(p)
  <2> DEFINE l == IF cmd[p].op = "authorize" THEN "find" ELSE "hold"
  <2>1. WalletToLock(p) \in Wallet /\ (l = "find" => WalletToLock(p) = cmd[p].wallet)
    BY <1>2, WalletToLockType DEF LockWalletByID, WalletToLock
  <2>2. Goto(p, l) /\ l \in {"accounts", "hold", "find"}
    BY <1>2 DEF LockWalletByID
  <2> HIDE DEF l
  <2> QED
    BY <1>2, <2>1, <2>2, AcquireLocked DEF LockWalletByID, local
<1>3. CASE LockWalletAccount(p)
  <2>1. NextToLock(p) \in Wallet
    BY <1>3, NextToLockType DEF LockWalletAccount
  <2> QED
    BY <1>3, <2>1, AcquireLocked DEF LockWalletAccount, local
<1>4. CASE LookupKey(p)
  <2>1. \/ Goto(p, "begin") /\ UNCHANGED <<db, locks, local>>
        \/ \E r : Fail(p, r)
    BY <1>4 DEF LookupKey, Idempotency
  <2> QED
    BY <1>f, <2>1, GotoLocked DEF locks, local
<1>5. CASE RecheckKey(p)
  <2>1. \A w \in WalletsOf(draft[p]) : walletLock[w] = p
    BY <1>5 DEF RecheckKey, Pending
  <2>2. \/ Goto(p, "validate") /\ UNCHANGED <<db, locks, local>>
        \/ Goto(p, "mark") /\ UNCHANGED <<db, locks, local>>
        \/ \E r : Fail(p, r)
    BY <1>5 DEF RecheckKey, Idempotency
  <2> QED
    BY <1>f, <2>1, <2>2, GotoLocked DEF locks, local
<1>6. CASE ValidateBalances(p)
  BY <1>0, <1>6, <1>f, GotoLocked DEF ValidateBalances, Secured, locks, local
<1>7. CASE LockHold(p)
  <2>1. (Goto(p, "accounts") /\ UNCHANGED <<walletLock, local>>) \/ \E r : Fail(p, r)
    BY <1>7 DEF LockHold
  <2> QED
    BY <1>f, <2>1, GotoLocked DEF local
<1>8. CASE FindHold(p)
  <2>1. (Goto(p, "funds") /\ UNCHANGED <<locks, local>>) \/ \E r : Fail(p, r)
    BY <1>8 DEF FindHold
  <2>2. walletLock[cmd[p].wallet] = p
    BY <1>0, <1>8 DEF FindHold, Secured
  <2> QED
    BY <1>f, <2>1, <2>2, GotoLocked DEF locks, local
<1>9. CASE CheckFunds(p)
  BY <1>0, <1>9, <1>f, GotoLocked DEF CheckFunds, Secured, locks, local
<1> QED
  BY <1>1, <1>2, <1>3, <1>4, <1>5, <1>6, <1>7, <1>8, <1>9

\* Every step that commits rows or refuses to is an answer.
LEMMA WriteStepAnswers ==
  ASSUME NEW p \in Session,
         \/ InsertTransaction(p) \/ InsertCapture(p) \/ MarkCaptured(p)
         \/ CreateWalletHold(p) \/ UpdateStatus(p) \/ DeadlockVictim(p) \/ Abort(p)
  PROVE  \E r : Answer(p, r)
BY DEF InsertTransaction, InsertCapture, MarkCaptured, CreateWalletHold, UpdateStatus,
       DeadlockVictim, Abort, Fail

\* Every step keeps the locks that checks rely on.
LEMMA LockedStep ==
  ASSUME TypeOK, Ready, Locked, [Next]_vars
  PROVE  Locked'
<1>1. CASE UNCHANGED vars
  BY <1>1 DEF vars, Locked, Secured
<1>2. CASE Tick
  <2> SUFFICES ASSUME NEW q \in Session PROVE Secured(q)'
    BY DEF Locked
  <2>1. Secured(q)
    BY DEF Locked
  <2>2. began[q] \in Int /\ clock \in Int
    BY DEF TypeOK, Time
  <2> QED
    BY <1>2, <2>1, <2>2 DEF Tick, Secured, locks, local
<1>3. ASSUME NEW p \in Session, NEW c \in Command, Submit(p, c)
      PROVE  Locked'
  <2> SUFFICES ASSUME NEW q \in Session PROVE Secured(q)'
    BY DEF Locked
  <2>1. Secured(q)
    BY DEF Locked
  <2> QED
    BY <1>3, <2>1 DEF Submit, TypeOK, Secured, locks, local
<1>4. ASSUME NEW p \in Session, Run(p) \/ Acquire(p) \/ DeadlockVictim(p) \/ Abort(p)
      PROVE  Locked'
  BY <1>4, UseCaseLocked, RepositoryLocked, WriteStepAnswers, AnswerLocked
     DEF Run, Acquire
<1> QED
  BY <1>1, <1>2, <1>3, <1>4 DEF Next

-----------------------------------------------------------------------------
(* Funds *)

\* Holds only stop being active as time passes.
LEMMA LaterIsNoWorse ==
  ASSUME TypeOK, NEW w, NEW now \in Int, NEW later \in Int, now <= later
  PROVE  Available(posted, holds, w, later) >= Available(posted, holds, w, now)
<1>1. ASSUME NEW h \in HoldId, ActiveHold(holds, h, w, later)
      PROVE  ActiveHold(holds, h, w, now)
  <2>1. holds[h] \in HoldRow
    BY <1>1 DEF ActiveHold, TypeOK
  <2>2. holds[h].expires \in Int
    BY <2>1 DEF HoldRow, Time
  <2> QED
    BY <1>1, <2>2 DEF ActiveHold
<1> QED
  BY <1>1, FewerActiveHolds

\* Closing a hold leaves no less available in any wallet.
LEMMA ClosingGivesBack ==
  ASSUME TypeOK, NEW h \in HoldId, holds[h] # None,
         NEW st \in {"captured", "released", "expired"}, NEW P, NEW w
  PROVE  Available(P, SetStatus(h, st), w, clock) >= Available(P, holds, w, clock)
<1> DEFINE G == SetStatus(h, st)
<1>1. ASSUME NEW g \in HoldId, ActiveHold(G, g, w, clock)
      PROVE  ActiveHold(holds, g, w, clock) /\ G[g].amount = holds[g].amount
  <2>1. CASE g # h
    BY <1>1, <2>1 DEF SetStatus, ActiveHold, TypeOK
  <2>2. CASE g = h
    <3>1. G[h] = [holds[h] EXCEPT !.status = st]
      BY DEF SetStatus, TypeOK
    <3>2. holds[h] \in HoldRow
      BY DEF TypeOK
    <3>3. G[h].status = st
      BY <3>1, <3>2 DEF HoldRow
    <3> QED
      BY <1>1, <2>2, <3>3 DEF ActiveHold
  <2> QED
    BY <2>1, <2>2
<1> HIDE DEF G
<1>2. Available(P, G, w, clock) >= Available(P, holds, w, clock)
  BY <1>1, FewerActiveHolds
<1> QED
  BY <1>2 DEF G

\* A step that writes no row keeps solvency and every check but its own.
LEMMA QuietStep ==
  ASSUME TypeOK, SolventWallets, ChecksStayValid, NEW p \in Session,
         UNCHANGED <<posted, holds, clock>>,
         \A q \in Session \ {p} :
           pc'[q] = pc[q] /\ cmd'[q] = cmd[q] /\ draft'[q] = draft[q],
         pc'[p] = "insert" => Affordable(draft'[p], clock),
         pc'[p] = "create" => Spendable(cmd'[p].wallet) >= cmd'[p].amount
  PROVE  SolventWallets' /\ ChecksStayValid'
<1>1. SolventWallets'
  BY DEF SolventWallets
<1>2. ASSUME NEW q \in Session
      PROVE  /\ pc'[q] = "insert" => Affordable(draft'[q], clock)
             /\ pc'[q] = "create" => Spendable(cmd'[q].wallet) >= cmd'[q].amount
  BY DEF ChecksStayValid, Spendable
<1>3. ChecksStayValid'
  BY <1>2 DEF ChecksStayValid, Affordable, Spendable
<1> QED
  BY <1>1, <1>3

\* The steps before the commit: a check that succeeds, with the holds as of the
\* beginning of the transaction, succeeds with the holds as of now.
LEMMA ReadStep ==
  ASSUME SolvencyInv, NEW p \in Session,
         \/ PostTransaction(p) \/ DepositWallet(p) \/ WithdrawWallet(p)
         \/ TransferWallet(p) \/ ReverseTransaction(p) \/ CreateHold(p)
         \/ CaptureHold(p) \/ ReleaseHold(p) \/ ExpireHold(p)
         \/ BeginTx(p) \/ LockWalletByID(p) \/ LockWalletAccount(p)
         \/ LookupKey(p) \/ RecheckKey(p) \/ ValidateBalances(p)
         \/ LockHold(p) \/ FindHold(p) \/ CheckFunds(p)
         \/ (\E r : Fail(p, r))
  PROVE  SolventWallets' /\ ChecksStayValid'
<1> USE DEF SolvencyInv
<1>1. /\ UNCHANGED <<posted, holds, clock>>
      /\ \A q \in Session \ {p} :
           pc'[q] = pc[q] /\ cmd'[q] = cmd[q] /\ draft'[q] = draft[q]
  <2>1. ASSUME NEW r, Fail(p, r)
        PROVE  /\ UNCHANGED <<posted, holds, clock>>
               /\ \A q \in Session \ {p} :
                    pc'[q] = pc[q] /\ cmd'[q] = cmd[q] /\ draft'[q] = draft[q]
    BY <2>1 DEF Fail, Answer, db, TypeOK
  <2>2. ASSUME NEW l, Goto(p, l), UNCHANGED <<db, draft>>
        PROVE  /\ UNCHANGED <<posted, holds, clock>>
               /\ \A q \in Session \ {p} :
                    pc'[q] = pc[q] /\ cmd'[q] = cmd[q] /\ draft'[q] = draft[q]
    BY <2>2 DEF Goto, db, TypeOK
  <2>3. ASSUME NEW t, NEW l, Draft(p, t, l)
        PROVE  /\ UNCHANGED <<posted, holds, clock>>
               /\ \A q \in Session \ {p} :
                    pc'[q] = pc[q] /\ cmd'[q] = cmd[q] /\ draft'[q] = draft[q]
    BY <2>3 DEF Draft, Goto, db, TypeOK
  <2>4. \/ \E r : Fail(p, r)
        \/ \E l : Goto(p, l) /\ UNCHANGED <<db, draft>>
        \/ \E t, l : Draft(p, t, l)
    BY DEF PostTransaction, DepositWallet, WithdrawWallet, TransferWallet, SpendFrom,
           ReverseTransaction, CreateHold, CaptureHold, ReleaseHold, ExpireHold,
           CloseHold, BeginTx, LockWalletByID, LockWalletAccount, LookupKey,
           RecheckKey, ValidateBalances, LockHold, FindHold, CheckFunds, local,
           Idempotency
  <2> QED
    BY <2>1, <2>2, <2>3, <2>4
<1>2. Secured(p) /\ ReadyAt(pc[p], cmd[p], draft[p])
  BY DEF Locked, Ready
<1>3. \A w : Spendable(w) >= Available(posted, holds, w, began[p])
  BY <1>2, LaterIsNoWorse DEF Secured, TypeOK, Time, Spendable
<1>4. \A w : Spendable(w) \in Int /\ Available(posted, holds, w, began[p]) \in Int
  BY TotalsType DEF Spendable
<1>5. ASSUME pc'[p] = "insert" PROVE Affordable(draft'[p], clock)
  <2>1. ValidateBalances(p)
    BY <1>5 DEF PostTransaction, DepositWallet, WithdrawWallet, TransferWallet, SpendFrom,
           ReverseTransaction, CreateHold, CaptureHold, ReleaseHold, ExpireHold,
           CloseHold, BeginTx, LockWalletByID, LockWalletAccount, LookupKey,
           RecheckKey, LockHold, FindHold, CheckFunds, Idempotency,
           Fail, Answer, Goto, Draft, TypeOK
  <2>2. draft' = draft /\ Affordable(draft[p], began[p])
    BY <1>5, <2>1 DEF ValidateBalances, Fail, Answer, local, TypeOK
  <2>3. draft[p] \in Transaction
    BY <1>2, <2>1 DEF ValidateBalances, ReadyAt
  <2>4. \A w \in WalletsOf(draft[p]) : Delta(draft[p], w) \in Int
    BY <2>3, WalletAssumption DEF WalletsOf, Delta, Transaction, Amounts
  <2> QED
    BY <1>3, <1>4, <2>2, <2>4 DEF Affordable, Spendable
<1>6. ASSUME pc'[p] = "create" PROVE Spendable(cmd'[p].wallet) >= cmd'[p].amount
  <2>1. CheckFunds(p)
    BY <1>6 DEF PostTransaction, DepositWallet, WithdrawWallet, TransferWallet, SpendFrom,
           ReverseTransaction, CreateHold, CaptureHold, ReleaseHold, ExpireHold,
           CloseHold, BeginTx, LockWalletByID, LockWalletAccount, LookupKey,
           RecheckKey, LockHold, FindHold, ValidateBalances, Idempotency,
           Fail, Answer, Goto, Draft, TypeOK
  <2>2. cmd' = cmd /\ ~(Available(posted, holds, cmd[p].wallet, began[p]) < cmd[p].amount)
    BY <1>6, <2>1 DEF CheckFunds, Goto, Fail, Answer, TypeOK
  <2>3. cmd[p].amount \in Int
    BY <1>2, <2>1, CommandFields DEF CheckFunds, ReadyAt, Unit
  <2> QED
    BY <1>3, <1>4, <2>2, <2>3
<1> QED
  BY <1>1, <1>5, <1>6, QuietStep

\* A session that ends keeps the checks of the others, as long as it takes only
\* from wallets it has locked.
LEMMA CommitKeepsChecks ==
  ASSUME SolvencyInv, NEW p \in Session, NEW r, Answer(p, r),
         \A w \in Wallet : walletLock[w] # p => Spendable(w)' >= Spendable(w)
  PROVE  ChecksStayValid'
<1> USE DEF SolvencyInv
<1>1. clock' = clock /\ pc'[p] = "idle"
  BY DEF Answer, TypeOK
<1>2. \A w : Spendable(w) \in Int /\ Spendable(w)' \in Int
  BY TotalsType DEF Spendable
<1>3. ASSUME NEW q \in Session, q # p
      PROVE  /\ pc'[q] = "insert" =>
                  \A w \in WalletsOf(draft'[q]) : Spendable(w)' + Delta(draft'[q], w) >= 0
             /\ pc'[q] = "create" =>
                  Available(posted', holds', cmd'[q].wallet, clock') >= cmd'[q].amount
  <2>1. pc'[q] = pc[q] /\ cmd'[q] = cmd[q] /\ draft'[q] = draft[q]
    BY <1>3 DEF Answer, TypeOK
  <2>2. Secured(q) /\ ReadyAt(pc[q], cmd[q], draft[q])
    BY DEF Locked, Ready
  <2>3. CASE pc[q] = "insert"
    <3>1. draft[q] \in Transaction
      BY <2>2, <2>3 DEF ReadyAt
    <3>2. ASSUME NEW w \in WalletsOf(draft[q])
          PROVE  Spendable(w)' + Delta(draft[q], w) >= 0
      <4>1. w \in Wallet /\ walletLock[w] # p
        BY <1>3, <2>2, <2>3 DEF Secured, WalletsOf
      <4>2. Delta(draft[q], w) \in Int
        BY <3>1, <4>1, WalletAssumption DEF Delta, Transaction, Amounts
      <4>3. Spendable(w) + Delta(draft[q], w) >= 0
        BY <2>3 DEF ChecksStayValid, Affordable, Spendable
      <4> QED
        BY <1>2, <4>1, <4>2, <4>3
    <3> QED
      BY <2>1, <2>3, <3>2
  <2>4. CASE pc[q] = "create"
    <3>1. cmd[q].wallet \in Wallet /\ cmd[q].amount \in Int
      BY <2>2, <2>4, CommandFields DEF ReadyAt, Unit
    <3>2. walletLock[cmd[q].wallet] # p
      BY <1>3, <2>2, <2>4 DEF Secured
    <3>3. Spendable(cmd[q].wallet) >= cmd[q].amount
      BY <2>4 DEF ChecksStayValid, Spendable
    <3>4. \A w \in Wallet : walletLock[w] # p => Available(posted', holds', w, clock') >= Spendable(w)
      BY DEF Spendable
    <3>5. Available(posted', holds', cmd[q].wallet, clock') \in Int
      BY TotalsType
    <3> QED
      BY <1>2, <2>1, <2>4, <3>1, <3>2, <3>3, <3>4, <3>5
  <2> QED
    BY <2>1, <2>3, <2>4
<1> QED
  BY <1>1, <1>3 DEF ChecksStayValid, Affordable, Spendable

\* Posting the transaction a session has checked.
LEMMA PostStep ==
  ASSUME SolvencyInv, NEW p \in Session, NEW r, pc[p] = "insert",
         posted[cmd[p].txn] = None, WriteTransaction(p), Answer(p, r),
         \A w \in Wallet : Available(posted', holds', w, clock) >=
                             Available(posted', holds, w, clock)
  PROVE  SolventWallets' /\ ChecksStayValid'
<1> USE DEF SolvencyInv
<1>1. Secured(p) /\ ReadyAt(pc[p], cmd[p], draft[p]) /\ clock' = clock
  BY DEF Locked, Ready, Answer
<1>2. draft[p] \in Transaction /\ cmd[p].txn \in TxnId
  BY <1>1, CommandFields DEF ReadyAt
<1>3. ASSUME NEW w \in Wallet
      PROVE  /\ Spendable(w)' >= Spendable(w) + Delta(draft[p], w)
             /\ Delta(draft[p], w) \in Int
             /\ w \notin WalletsOf(draft[p]) => Delta(draft[p], w) = 0
  <2>1. w \in Account
    BY WalletAssumption
  <2>2. posted \in Ledger /\ posted' = [posted EXCEPT ![cmd[p].txn] = draft[p]]
    BY DEF TypeOK, Ledger, WriteTransaction
  <2>3. LedgerBalance(posted', w) = LedgerBalance(posted, w) + Delta(draft[p], w)
    BY <1>2, <2>1, <2>2, PostingMovesBalance
  <2>4. Available(posted', holds, w, clock) =
          Available(posted, holds, w, clock) + Delta(draft[p], w)
    <3>1. /\ LedgerBalance(posted, w) \in Int
          /\ Cardinality(HeldUnits(holds, w, clock)) \in Nat
      BY TotalsType
    <3>2. Delta(draft[p], w) \in Int
      BY <1>2, <2>1 DEF Delta, Transaction, Amounts
    <3> QED
      BY <2>3, <3>1, <3>2 DEF Available
  <2>5. /\ Delta(draft[p], w) \in Int
        /\ w \notin WalletsOf(draft[p]) => Delta(draft[p], w) = 0
    BY <1>2, <2>1, BoundAssumption DEF Delta, Transaction, Amounts, WalletsOf
  <2> QED
    BY <1>1, <2>4, <2>5 DEF Spendable
<1>4. \A w : Spendable(w) \in Int /\ Spendable(w)' \in Int
  BY TotalsType DEF Spendable
<1>5. SolventWallets'
  <2> SUFFICES ASSUME NEW w \in Wallet PROVE Spendable(w)' >= 0
    BY <1>1 DEF SolventWallets, Spendable
  <2>1. CASE w \in WalletsOf(draft[p])
    <3>1. Spendable(w) + Delta(draft[p], w) >= 0
      BY <2>1 DEF ChecksStayValid, Affordable, Spendable
    <3> QED
      BY <1>3, <1>4, <3>1
  <2>2. CASE w \notin WalletsOf(draft[p])
    <3>1. Spendable(w) >= 0
      BY DEF SolventWallets, Spendable
    <3> QED
      BY <1>3, <1>4, <2>2, <3>1
  <2> QED
    BY <2>1, <2>2
<1>6. ASSUME NEW w \in Wallet, walletLock[w] # p
      PROVE  Spendable(w)' >= Spendable(w)
  <2>1. w \notin WalletsOf(draft[p])
    BY <1>1, <1>6 DEF Secured
  <2> QED
    BY <1>3, <1>4, <2>1
<1> QED
  BY <1>5, <1>6, CommitKeepsChecks

\* Closing a hold.
LEMMA CloseStep ==
  ASSUME SolvencyInv, NEW p \in Session, NEW r, Answer(p, r), UNCHANGED posted,
         NEW h \in HoldId, holds[h] # None,
         NEW st \in {"captured", "released", "expired"}, holds' = SetStatus(h, st)
  PROVE  SolventWallets' /\ ChecksStayValid'
<1> USE DEF SolvencyInv
<1>1. clock' = clock
  BY DEF Answer
<1>2. \A w \in Wallet : Spendable(w)' >= Spendable(w)
  BY <1>1, ClosingGivesBack DEF Spendable
<1>3. \A w : Spendable(w) \in Int /\ Spendable(w)' \in Int
  BY TotalsType DEF Spendable
<1>4. SolventWallets'
  BY <1>1, <1>2, <1>3 DEF SolventWallets, Spendable
<1> QED
  BY <1>2, <1>4, CommitKeepsChecks

\* Creating the hold a session has checked.
LEMMA HoldStep ==
  ASSUME SolvencyInv, NEW p \in Session, CreateWalletHold(p), holds[cmd[p].hold] = None
  PROVE  SolventWallets' /\ ChecksStayValid'
<1> USE DEF SolvencyInv
<1> DEFINE c == cmd[p]
           row == [wallet |-> c.wallet, amount |-> c.amount, created |-> began[p],
                   expires |-> c.expires, status |-> "authorized",
                   key |-> c.key, hash |-> c.hash]
<1>1. /\ holds' = [holds EXCEPT ![c.hold] = row]
      /\ UNCHANGED posted
      /\ \E r : Answer(p, r)
  BY DEF CreateWalletHold
<1>2. Secured(p) /\ ReadyAt("create", c, draft[p]) /\ pc[p] = "create" /\ clock' = clock
  BY <1>1 DEF Locked, Ready, CreateWalletHold, Answer
<1>3. row \in HoldRow /\ row.wallet = c.wallet /\ row.amount = c.amount /\ row.amount \in Int
  BY <1>2, CommandFields DEF ReadyAt, HoldRow, HoldStatus, TypeOK, Unit
<1>4. c.hold \in HoldId /\ holds \in Holds
  BY <1>2, CommandFields DEF ReadyAt, TypeOK, Holds
<1> HIDE DEF row
<1>5. ASSUME NEW w \in Wallet
      PROVE  /\ Spendable(w)' >= Spendable(w) - row.amount
             /\ row.wallet # w => Spendable(w)' >= Spendable(w)
  BY <1>1, <1>2, <1>3, <1>4, NewHoldReserves DEF Spendable
<1>6. \A w : Spendable(w) \in Int /\ Spendable(w)' \in Int
  BY TotalsType DEF Spendable
<1>7. SolventWallets'
  <2> SUFFICES ASSUME NEW w \in Wallet PROVE Spendable(w)' >= 0
    BY <1>2 DEF SolventWallets, Spendable
  <2>1. Spendable(w) >= 0 /\ Spendable(c.wallet) >= c.amount
    BY <1>2 DEF SolventWallets, ChecksStayValid, Spendable
  <2> QED
    BY <1>3, <1>5, <1>6, <2>1
<1>8. ASSUME NEW w \in Wallet, walletLock[w] # p
      PROVE  Spendable(w)' >= Spendable(w)
  BY <1>2, <1>3, <1>5, <1>8 DEF Secured
<1> QED
  BY <1>1, <1>7, <1>8, CommitKeepsChecks

\* The steps that commit rows.
LEMMA WriteStep ==
  ASSUME SolvencyInv, NEW p \in Session,
         \/ InsertTransaction(p) \/ InsertCapture(p) \/ MarkCaptured(p)
         \/ CreateWalletHold(p) \/ UpdateStatus(p)
  PROVE  SolventWallets' /\ ChecksStayValid'
<1>0. ReadyAt(pc[p], cmd[p], draft[p]) /\ TypeOK
  BY DEF SolvencyInv, Ready
<1>f. ASSUME NEW r, Fail(p, r) PROVE SolventWallets' /\ ChecksStayValid'
  BY <1>f, ReadStep
<1>1. CASE InsertTransaction(p)
  <2>1. \/ \E r : Fail(p, r)
        \/ /\ posted[cmd[p].txn] = None /\ pc[p] = "insert"
           /\ WriteTransaction(p) /\ Answer(p, "ok") /\ UNCHANGED holds
    BY <1>1 DEF InsertTransaction, DuplicateTransaction, At
  <2>2. \A w : Available(posted', holds, w, clock) >= Available(posted', holds, w, clock)
    BY TotalsType
  <2> QED
    BY <1>f, <2>1, <2>2, PostStep
<1>2. CASE InsertCapture(p)
  <2>1. \/ \E r : Fail(p, r)
        \/ /\ posted[cmd[p].txn] = None /\ pc[p] = "insert"
           /\ WriteTransaction(p) /\ Answer(p, "ok")
           /\ holds' = SetStatus(cmd[p].hold, "captured")
    BY <1>2 DEF InsertCapture, DuplicateTransaction, At
  <2>2. cmd[p].hold \in HoldId /\ holds[cmd[p].hold] # None
    BY <1>0, <1>2, CommandFields DEF InsertCapture, At, ReadyAt
  <2>3. \A w : Available(posted', SetStatus(cmd[p].hold, "captured"), w, clock) >=
                 Available(posted', holds, w, clock)
    BY <1>0, <2>2, ClosingGivesBack
  <2> QED
    BY <1>f, <2>1, <2>3, PostStep
<1>3. CASE MarkCaptured(p)
  <2>1. \/ \E r : Fail(p, r)
        \/ /\ holds' = SetStatus(cmd[p].hold, "captured")
           /\ Answer(p, "ok") /\ UNCHANGED posted
    BY <1>3 DEF MarkCaptured
  <2>2. cmd[p].hold \in HoldId /\ holds[cmd[p].hold] # None
    BY <1>0, <1>3, CommandFields DEF MarkCaptured, ReadyAt
  <2> QED
    BY <1>f, <2>1, <2>2, CloseStep
<1>4. CASE CreateWalletHold(p)
  <2>1. (\E r : Fail(p, r)) \/ holds[cmd[p].hold] = None
    BY <1>4 DEF CreateWalletHold
  <2> QED
    BY <1>4, <1>f, <2>1, HoldStep
<1>5. CASE UpdateStatus(p)
  <2>1. \/ \E r : Fail(p, r)
        \/ \E st \in {"released", "expired"} :
             /\ holds' = SetStatus(cmd[p].hold, st)
             /\ Answer(p, "ok") /\ UNCHANGED posted
    BY <1>5 DEF UpdateStatus
  <2>2. cmd[p].hold \in HoldId /\ holds[cmd[p].hold] # None
    BY <1>0, <1>5, CommandFields DEF UpdateStatus, ReadyAt
  <2> QED
    BY <1>f, <2>1, <2>2, CloseStep
<1> QED
  BY <1>1, <1>2, <1>3, <1>4, <1>5

\* Every step keeps solvency and the validity of checks.
LEMMA SolvencyStep ==
  ASSUME SolvencyInv, [Next]_vars
  PROVE  SolvencyInv'
<1> SUFFICES SolventWallets' /\ ChecksStayValid'
  BY TypeStep, LockedStep DEF SolvencyInv
<1>1. CASE UNCHANGED vars
  BY <1>1 DEF SolvencyInv, vars, SolventWallets, ChecksStayValid, Affordable
<1>2. CASE Tick
  <2>1. /\ clock \in Int /\ clock' \in Int /\ clock <= clock'
        /\ UNCHANGED <<posted, holds, pc, cmd, draft>>
    BY <1>2 DEF SolvencyInv, TypeOK, Time, Tick, db, local
  <2>2. \A w : Spendable(w)' >= Spendable(w)
    BY <2>1, LaterIsNoWorse DEF SolvencyInv, Spendable
  <2>3. \A w : Spendable(w) \in Int /\ Spendable(w)' \in Int
    BY TotalsType DEF Spendable
  <2>4. SolventWallets'
    BY <2>2, <2>3 DEF SolvencyInv, SolventWallets, Spendable
  <2>5. ASSUME NEW q \in Session, pc[q] = "insert", NEW w \in WalletsOf(draft[q])
        PROVE  Spendable(w)' + Delta(draft[q], w) >= 0
    <3>1. draft[q] \in Transaction /\ w \in Account
      BY <2>5, WalletAssumption DEF SolvencyInv, Ready, ReadyAt, WalletsOf, PostingOp
    <3>2. Delta(draft[q], w) \in Int
      BY <3>1 DEF Delta, Transaction, Amounts
    <3>3. Spendable(w) + Delta(draft[q], w) >= 0
      BY <2>5 DEF SolvencyInv, ChecksStayValid, Affordable, Spendable
    <3> QED
      BY <2>2, <2>3, <3>2, <3>3
  <2>6. ASSUME NEW q \in Session, pc[q] = "create"
        PROVE  Spendable(cmd[q].wallet)' >= cmd[q].amount
    <3>1. cmd[q].amount \in Int
      BY <2>6, CommandFields DEF SolvencyInv, Ready, ReadyAt, Unit
    <3>2. Spendable(cmd[q].wallet) >= cmd[q].amount
      BY <2>6 DEF SolvencyInv, ChecksStayValid, Spendable
    <3> QED
      BY <2>1, <2>2, <2>3, <3>1, <3>2
  <2> QED
    BY <2>1, <2>4, <2>5, <2>6 DEF ChecksStayValid, Affordable, Spendable
<1>3. ASSUME NEW p \in Session, NEW c \in Command, Submit(p, c)
      PROVE  SolventWallets' /\ ChecksStayValid'
  <2>1. /\ UNCHANGED <<posted, holds, clock, draft>>
        /\ pc'[p] = "usecase"
        /\ \A q \in Session \ {p} :
             pc'[q] = pc[q] /\ cmd'[q] = cmd[q] /\ draft'[q] = draft[q]
    BY <1>3 DEF Submit, SolvencyInv, TypeOK, db, local
  <2> QED
    BY <2>1, QuietStep DEF SolvencyInv
<1>4. ASSUME NEW p \in Session, Run(p) \/ Acquire(p) \/ DeadlockVictim(p) \/ Abort(p)
      PROVE  SolventWallets' /\ ChecksStayValid'
  <2>1. ASSUME DeadlockVictim(p) \/ Abort(p) PROVE \E r : Fail(p, r)
    BY <2>1 DEF DeadlockVictim, Abort
  <2> QED
    BY <1>4, <2>1, ReadStep, WriteStep DEF Run, Acquire
<1> QED
  BY <1>1, <1>2, <1>3, <1>4 DEF Next

\* At the start no wallet has a posting or a hold.
LEMMA SolvencyInit ==
  ASSUME Init
  PROVE  SolvencyInv
<1>1. TypeOK /\ Ready
  BY TypeInit
<1>2. Locked
  BY DEF Init, Locked, Secured
<1>3. ASSUME NEW w \in Wallet PROVE Available(posted, holds, w, clock) = 0
  <2>1. /\ CreditUnits(posted, w) = {} /\ DebitUnits(posted, w) = {}
        /\ HeldUnits(holds, w, clock) = {}
    BY DEF Init, CreditUnits, DebitUnits, HeldUnits, ActiveHold
  <2>2. Cardinality({}) = 0
    BY FS_EmptySet
  <2> QED
    BY <2>1, <2>2 DEF Available, LedgerBalance
<1>4. SolventWallets /\ ChecksStayValid
  BY <1>3 DEF Init, SolventWallets, ChecksStayValid
<1> QED
  BY <1>1, <1>2, <1>4 DEF SolvencyInv

\* No interleaving of deposits, withdrawals, transfers, reversals, holds,
\* captures, releases and expiries, with failures, retries and time passing
\* between a check and its commit, overspends a wallet.
THEOREM Solvency == Spec => []SolventWallets
<1>1. Init => SolvencyInv
  BY SolvencyInit
<1>2. SolvencyInv /\ [Next]_vars => SolvencyInv'
  BY SolvencyStep
<1>3. SolvencyInv => SolventWallets
  BY DEF SolvencyInv
<1> QED
  BY <1>1, <1>2, <1>3, PTL DEF Spec

\* What validateWalletBalances or Authorize found to be enough is enough until
\* the session commits.
THEOREM ChecksHold == Spec => []ChecksStayValid
<1>1. Init => SolvencyInv
  BY SolvencyInit
<1>2. SolvencyInv /\ [Next]_vars => SolvencyInv'
  BY SolvencyStep
<1>3. SolvencyInv => ChecksStayValid
  BY DEF SolvencyInv
<1> QED
  BY <1>1, <1>2, <1>3, PTL DEF Spec
=============================================================================
