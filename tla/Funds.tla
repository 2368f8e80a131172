------------------------------- MODULE Funds -------------------------------
(***************************************************************************)
(* The rows of the ledger database and what the code adds up from them.    *)
(*                                                                         *)
(* A ledger account is a natural number: its place in the order in which   *)
(* lockWalletAccounts sorts the account identifiers.  A wallet is named by *)
(* its ledger account, which the schema makes unique per wallet.  The      *)
(* postings of a journal entry are kept as two functions, what the entry   *)
(* debits from and credits to each account.                                *)
(*                                                                         *)
(* A total (SUM in the SQL) is the number of minor units it is made of:    *)
(* the cardinality of a set with one element for each unit.                *)
(***************************************************************************)
EXTENDS Integers, FiniteSets

CONSTANTS
  Account,      \* ledger accounts, in lock order
  Wallet,       \* the accounts that are the ledger account of a wallet
  TxnId,        \* transaction identifiers chosen by clients
  HoldId,       \* hold identifiers chosen by clients
  Key,          \* Idempotency-Key header values
  Hash,         \* request hashes
  MaxAmount,    \* bound on what one entry debits or credits to one account
  MaxTime,      \* bound on the clock
  None          \* an absent row, field or owner

ASSUME AccountAssumption == Account \subseteq Nat
ASSUME WalletAssumption  == Wallet \subseteq Account
ASSUME FiniteAssumption  == IsFiniteSet(TxnId) /\ IsFiniteSet(HoldId)
ASSUME BoundAssumption   == MaxAmount \in Nat /\ MaxTime \in Nat

Unit    == 1 .. MaxAmount
Time    == 0 .. MaxTime
Amounts == [Account -> 0 .. MaxAmount]

\* A row of transactions with its journal entry and postings.  `captures' is
\* history only: the hold whose capture posted the transaction.
Transaction ==
  [dr       : Amounts,
   cr       : Amounts,
   reverses : TxnId \cup {None},
   captures : HoldId \cup {None}]

\* A row of idempotency_keys (the scope is always transaction posting).
KeyRow == [hash : Hash, txn : TxnId]

HoldStatus == {"authorized", "captured", "released", "expired"}

\* A row of wallet_holds.
HoldRow ==
  [wallet : Wallet, amount : Unit, created : Time, expires : Time,
   status : HoldStatus, key : Key, hash : Hash]

ASSUME NoneAssumption ==
  None \notin Transaction \cup KeyRow \cup HoldRow \cup TxnId \cup HoldId

-----------------------------------------------------------------------------
(* Journal entries *)

\* Mutant of TwoLeg: the debit is kept as a negative amount.
SignedTwoLeg(from, to, amount, hold) ==
  [dr       |-> [a \in Account |-> IF a = from THEN -amount ELSE 0],
   cr       |-> [a \in Account |-> IF a = to THEN amount ELSE 0],
   reverses |-> None,
   captures |-> hold]

\* One debit and one credit of the same amount.
TwoLeg(from, to, amount, hold) ==
  [dr       |-> [a \in Account |-> IF a = from THEN amount ELSE 0],
   cr       |-> [a \in Account |-> IF a = to THEN amount ELSE 0],
   reverses |-> None,
   captures |-> hold]

\* Transaction.Reverse: every posting with its direction exchanged.
Reverse(id, t) ==
  [dr |-> t.cr, cr |-> t.dr, reverses |-> id, captures |-> None]

\* TotalDebits or TotalCredits of an entry, as a set of minor units.
EntryUnits(amounts) == {x \in Account \X Unit : x[2] <= amounts[x[1]]}

IsBalanced(t) == Cardinality(EntryUnits(t.dr)) = Cardinality(EntryUnits(t.cr))

\* Mutant of ValidEntry: the totals are not compared.
TwoSidedEntry(t) ==
  /\ \E a \in Account : t.dr[a] > 0
  /\ \E a \in Account : t.cr[a] > 0

\* JournalEntry.Validate: at least one posting on each side, and a balance.
ValidEntry(t) ==
  /\ \E a \in Account : t.dr[a] > 0
  /\ \E a \in Account : t.cr[a] > 0
  /\ IsBalanced(t)

\* The wallets lockWalletAccounts finds for the accounts of a transaction.
WalletsOf(t) == {w \in Wallet : t.dr[w] > 0 \/ t.cr[w] > 0}

Delta(t, a) == t.cr[a] - t.dr[a]

-----------------------------------------------------------------------------
(* GetLedgerBalance, over the committed transactions P and the holds H *)

CreditUnits(P, a) ==
  {x \in TxnId \X Unit : P[x[1]] # None /\ x[2] <= P[x[1]].cr[a]}

DebitUnits(P, a) ==
  {x \in TxnId \X Unit : P[x[1]] # None /\ x[2] <= P[x[1]].dr[a]}

\* Expiry is compared with NOW(), the start of the database transaction.
ActiveHold(H, h, w, now) ==
  /\ H[h] # None
  /\ H[h].wallet = w
  /\ H[h].status = "authorized"
  /\ H[h].expires > now

HeldUnits(H, w, now) ==
  {x \in HoldId \X Unit : ActiveHold(H, x[1], w, now) /\ x[2] <= H[x[1]].amount}

LedgerBalance(P, a) ==
  Cardinality(CreditUnits(P, a)) - Cardinality(DebitUnits(P, a))

Available(P, H, w, now) ==
  LedgerBalance(P, w) - Cardinality(HeldUnits(H, w, now))
=============================================================================
