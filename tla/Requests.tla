------------------------------ MODULE Requests ------------------------------
(***************************************************************************)
(* The requests of the HTTP API that change the ledger or a hold.  What a  *)
(* request promises is in LedgerPromise, how it is served in WalletLedger. *)
(***************************************************************************)
EXTENDS Funds

CONSTANT
  Command       \* the requests clients may send, any number of times

-----------------------------------------------------------------------------
(* Commands: what a request carries once its handler has decoded it. *)

PostCommand ==        \* POST /transactions
  [op : {"post"}, key : Key, hash : Hash, txn : TxnId, dr : Amounts, cr : Amounts]
DepositCommand ==     \* POST /wallets/{walletID}/deposits
  [op : {"deposit"}, key : Key, hash : Hash, txn : TxnId,
   from : Account, wallet : Wallet, amount : Unit]
WithdrawCommand ==    \* POST /wallets/{walletID}/withdrawals
  [op : {"withdraw"}, key : Key, hash : Hash, txn : TxnId,
   wallet : Wallet, to : Account, amount : Unit]
TransferCommand ==    \* POST /wallets/{walletID}/transfers
  [op : {"transfer"}, key : Key, hash : Hash, txn : TxnId,
   wallet : Wallet, to : Wallet, amount : Unit]
ReverseCommand ==     \* POST /transactions/{transactionID}/reversal
  [op : {"reverse"}, key : Key, hash : Hash, txn : TxnId, original : TxnId]
AuthorizeCommand ==   \* POST /wallets/{walletID}/holds
  [op : {"authorize"}, key : Key, hash : Hash, hold : HoldId,
   wallet : Wallet, amount : Unit, expires : Time]
CaptureCommand ==     \* POST /holds/{holdID}/capture
  [op : {"capture"}, key : Key, hash : Hash, txn : TxnId,
   hold : HoldId, settle : Account]
ReleaseCommand ==     \* POST /holds/{holdID}/release
  [op : {"release"}, hold : HoldId]
ExpireCommand ==      \* POST /holds/{holdID}/expire
  [op : {"expire"}, hold : HoldId]

ASSUME CommandAssumption ==
  Command \subseteq PostCommand \cup DepositCommand \cup WithdrawCommand
                    \cup TransferCommand \cup ReverseCommand
                    \cup AuthorizeCommand \cup CaptureCommand
                    \cup ReleaseCommand \cup ExpireCommand

\* The commands that end in a ledger transaction.
PostingOp == {"post", "deposit", "withdraw", "transfer", "reverse", "capture"}

-----------------------------------------------------------------------------
(* What some of the promises need of the requests *)

\* Two requests for a posting that share key, hash and transaction are one request,
\* and a wallet's holds that share key and hash are of one amount.
HashesTell ==
  /\ \A c, d \in Command :
       /\ c.op \in PostingOp /\ d.op \in PostingOp
       /\ c.key = d.key /\ c.hash = d.hash /\ c.txn = d.txn
       => c = d
  /\ \A c, d \in Command :
       /\ c.op = "authorize" /\ d.op = "authorize"
       /\ c.wallet = d.wallet /\ c.key = d.key /\ c.hash = d.hash
       => c.amount = d.amount

\* Captures pay into accounts of no wallet.
SettlesOutside == \A c \in Command : c.op = "capture" => c.settle \notin Wallet
=============================================================================
