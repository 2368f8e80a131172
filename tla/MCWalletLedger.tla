--------------------------- MODULE MCWalletLedger ---------------------------
(***************************************************************************)
(* Small instances of WalletLedger.  Accounts 1 and 2 are wallets, and     *)
(* account 9, which sorts after both, is not.                              *)
(***************************************************************************)
EXTENDS WalletLedger, TLC

Sessions == Permutations(Session)

Deposit(k, h, t, w, n) ==
  [op |-> "deposit", key |-> k, hash |-> h, txn |-> t, from |-> 9, wallet |-> w, amount |-> n]
Spend(k, h, t, w, to, n) ==
  [op |-> IF to \in Wallet THEN "transfer" ELSE "withdraw", key |-> k, hash |-> h, txn |-> t, wallet |-> w, to |-> to, amount |-> n]
Undo(k, h, t, o) ==
  [op |-> "reverse", key |-> k, hash |-> h, txn |-> t, original |-> o]
Authorize(k, h, hold, w, n, e) ==
  [op |-> "authorize", key |-> k, hash |-> h, hold |-> hold, wallet |-> w,
   amount |-> n, expires |-> e]
Capture(k, h, t, hold, to) ==
  [op |-> "capture", key |-> k, hash |-> h, txn |-> t, hold |-> hold, settle |-> to]
Post(k, h, t, dr, cr) ==
  [op |-> "post", key |-> k, hash |-> h, txn |-> t, dr |-> dr, cr |-> cr]
Close(op, hold) == [op |-> op, hold |-> hold]

At1(a, n)       == [x \in Account |-> IF x = a THEN n ELSE 0]
At2(a, n, b, m) == [x \in Account |-> IF x = a THEN n ELSE IF x = b THEN m ELSE 0]

\* Everything that spends from two wallets: transfers both ways, two holds with
\* different expiries whose capture, release and expiry race, a reversal of the
\* funding.
FundsCommands ==
  {Deposit("k1", "x", "t1", 1, 3),
   Spend("k2", "x", "t2", 1, 2, 2),
   Spend("k3", "x", "t3", 2, 1, 1),
   Authorize("k1", "x", "h1", 1, 1, 2),
   Authorize("k2", "x", "h2", 1, 1, 1),
   Capture("k4", "x", "t4", "h1", 9),
   Capture("k5", "x", "t5", "h2", 9),
   Undo("k6", "x", "t6", "t1"),
   Close("release", "h1"),
   Close("expire", "h1")}

\* Retries, reused keys and reused identifiers: the same deposit twice, the same
\* key with another hash or transaction, two reversals of one transaction, a
\* withdrawal with the key and transaction of one of them, an entry with three
\* postings and one that does not balance.
RetryCommands ==
  {Deposit("k1", "x", "t1", 1, 1),
   Deposit("k1", "y", "t1", 1, 2),
   Undo("k2", "x", "t2", "t1"),
   Undo("k3", "x", "t3", "t1"),
   Spend("k3", "y", "t3", 1, 9, 1),
   Deposit("k5", "y", "t1", 1, 2),
   Authorize("k1", "x", "h1", 1, 1, 1),
   Authorize("k1", "y", "h2", 1, 2, 1),
   Capture("k1", "x", "t4", "h1", 9),
   Capture("k4", "x", "t4", "h1", 9),
   Post("k4", "y", "t5", At1(9, 2), At2(1, 1, 2, 1)),
   Post("k5", "x", "t5", At1(9, 2), At1(1, 1))}

\* A capture of a hold on wallet 2 paid into wallet 1, against a transfer from
\* 1 to 2; and the body and key of that capture sent for another hold.
SettleIntoWallet ==
  {Deposit("k1", "x", "t1", 2, 3),
   Deposit("k2", "x", "t2", 1, 1),
   Spend("k3", "x", "t3", 1, 2, 1),
   Authorize("k1", "x", "h1", 2, 1, 1),
   Authorize("k2", "x", "h2", 2, 1, 1),
   Capture("k4", "x", "t4", "h1", 1),
   Capture("k4", "x", "t4", "h2", 1)}

\* The same inversion alone, with a posting that needs no funds to take locks, and
\* the capture's key sent for another hold.
ContendedCommands ==
  {Deposit("k1", "x", "t1", 2, 2),
   Post("k2", "x", "t2", At1(1, 1), At1(2, 1)),
   Authorize("k1", "x", "h1", 2, 1, 1),
   Authorize("k2", "x", "h2", 2, 1, 1),
   Capture("k3", "x", "t3", "h1", 1),
   Capture("k3", "x", "t3", "h2", 1),
   Close("expire", "h1")}

\* A hold on all a wallet has, and its capture.
ReserveAll ==
  {Deposit("k1", "x", "t1", 1, 1),
   Authorize("k1", "x", "h1", 1, 1, 1),
   Capture("k2", "x", "t2", "h1", 9)}

\* What theorems assume of the requests holds of those of funds and retries.
ASSUME Command \in {FundsCommands, RetryCommands} => HashesTell /\ SettlesOutside
=============================================================================
