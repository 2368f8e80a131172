---------------------------- MODULE WalletLedger ----------------------------
(***************************************************************************)
(* The financial core: HTTP requests served concurrently by sessions that  *)
(* share one PostgreSQL database.  A session runs one request at a time    *)
(* through its use case (application/wallet, application/transaction) and  *)
(* its repository (TransactionRepository, HoldRepository).                 *)
(*                                                                         *)
(* A step is one SQL statement, except that a database transaction's       *)
(* inserts and its commit are one step: what it inserts is invisible       *)
(* before the commit, every later insert of the same session is after it   *)
(* in one fixed order, so waiting on another session's uncommitted unique  *)
(* key ends as if both had been tried after that commit.  Reads are READ   *)
(* COMMITTED: each sees what is committed when it runs.  SELECT ... FOR    *)
(* UPDATE waits while another session owns the row; a session owns its     *)
(* rows until it answers.  NOW() is the time the transaction began.        *)
(***************************************************************************)
EXTENDS Requests

CONSTANT
  Session       \* request handlers running at the same time

ASSUME SessionAssumption ==
  None \notin Session /\ None \notin Command /\ IsFiniteSet(Session)

Reply == {"none", "ok", "conflict", "insufficient", "rejected", "failed",
          "aborted", "deadlock"}

Label == {"idle", "usecase", "lookup", "begin", "wallet", "hold", "accounts",
          "validate", "insert", "mark", "find", "funds", "create", "update"}

-----------------------------------------------------------------------------
VARIABLES
  clock,       \* the time, read by the Go code and by the database
  posted,      \* committed transactions, with journal entry and postings
  keys,        \* idempotency_keys
  holds,       \* wallet_holds
  outbox,      \* outbox_events: one <<transaction, wallet>> per event
  walletLock,  \* who has each wallet row FOR UPDATE
  holdLock,    \* who has each wallet_holds row FOR UPDATE
  pc,          \* where each session is
  cmd,         \* the request it serves, or served last
  draft,       \* the domain.Transaction it built
  began,       \* when its database transaction began: its NOW()
  reply        \* its last answer

db    == <<posted, keys, holds, outbox>>
locks == <<walletLock, holdLock>>
local == <<draft, began>>
vars  == <<clock, posted, keys, holds, outbox, walletLock, holdLock,
           pc, cmd, draft, began, reply>>

TypeOK ==
  /\ clock \in Time
  /\ posted \in [TxnId -> Transaction \cup {None}]
  /\ keys \in [Key -> KeyRow \cup {None}]
  /\ holds \in [HoldId -> HoldRow \cup {None}]
  /\ outbox \subseteq TxnId \X Wallet
  /\ walletLock \in [Wallet -> Session \cup {None}]
  /\ holdLock \in [HoldId -> Session \cup {None}]
  /\ pc \in [Session -> Label]
  /\ cmd \in [Session -> Command \cup {None}]
  /\ draft \in [Session -> Transaction \cup {None}]
  /\ began \in [Session -> Time]
  /\ reply \in [Session -> Reply]

Init ==
  /\ clock = 0
  /\ posted = [t \in TxnId |-> None]
  /\ keys = [k \in Key |-> None]
  /\ holds = [h \in HoldId |-> None]
  /\ outbox = {}
  /\ walletLock = [w \in Wallet |-> None]
  /\ holdLock = [h \in HoldId |-> None]
  /\ pc = [p \in Session |-> "idle"]
  /\ cmd = [p \in Session |-> None]
  /\ draft = [p \in Session |-> None]
  /\ began = [p \in Session |-> 0]
  /\ reply = [p \in Session |-> "none"]

-----------------------------------------------------------------------------
(* Moving a session *)

Goto(p, label) ==
  /\ pc' = [pc EXCEPT ![p] = label]
  /\ UNCHANGED <<clock, cmd, reply>>

Unlock(lock, p) == [x \in DOMAIN lock |-> IF lock[x] = p THEN None ELSE lock[x]]

\* The end of a request: the database transaction, if any, is committed or
\* rolled back, which gives its row locks back.
Answer(p, r) ==
  /\ pc' = [pc EXCEPT ![p] = "idle"]
  /\ reply' = [reply EXCEPT ![p] = r]
  /\ draft' = [draft EXCEPT ![p] = None]
  /\ began' = [began EXCEPT ![p] = 0]
  /\ walletLock' = Unlock(walletLock, p)
  /\ holdLock' = Unlock(holdLock, p)
  /\ UNCHANGED <<clock, cmd>>

\* Mutant of Fail: the deferred Rollback is missing, so the locks stay.
FailHoldingLocks(p, r) ==
  /\ pc' = [pc EXCEPT ![p] = "idle"]
  /\ reply' = [reply EXCEPT ![p] = r]
  /\ UNCHANGED <<clock, cmd, db, locks, local>>

\* An answer that writes nothing: a refusal, a failure or a replay.
Fail(p, r) == Answer(p, r) /\ UNCHANGED db

\* The use case has built transaction t.
Draft(p, t, label) ==
  /\ draft' = [draft EXCEPT ![p] = t]
  /\ Goto(p, label)
  /\ UNCHANGED <<began, db, locks>>

Submit(p, c) ==
  /\ pc[p] = "idle"
  /\ cmd' = [cmd EXCEPT ![p] = c]
  /\ pc' = [pc EXCEPT ![p] = "usecase"]
  /\ reply' = [reply EXCEPT ![p] = "none"]
  /\ UNCHANGED <<clock, db, locks, local>>

At(p, label, ops) == pc[p] = label /\ cmd[p].op \in ops

-----------------------------------------------------------------------------
(* Use cases, up to the repository call *)

PostTransaction(p) ==
  /\ At(p, "usecase", {"post"})
  /\ LET t == [dr |-> cmd[p].dr, cr |-> cmd[p].cr, reverses |-> None, captures |-> None]
     IN  IF ValidEntry(t) THEN Draft(p, t, "lookup") ELSE Fail(p, "rejected")

DepositWallet(p) ==
  /\ At(p, "usecase", {"deposit"})
  /\ LET c == cmd[p]
     IN  IF c.from = c.wallet
         THEN Fail(p, "rejected")
         ELSE Draft(p, TwoLeg(c.from, c.wallet, c.amount, None), "lookup")

\* Withdrawals and transfers first read the source wallet's balance, outside
\* any transaction.
SpendFrom(p) ==
  LET c == cmd[p]
  IN  IF c.to = c.wallet
      THEN Fail(p, "rejected")
      ELSE IF Available(posted, holds, c.wallet, clock) < c.amount
           THEN Fail(p, "insufficient")
           ELSE Draft(p, TwoLeg(c.wallet, c.to, c.amount, None), "lookup")

WithdrawWallet(p) == At(p, "usecase", {"withdraw"}) /\ SpendFrom(p)

TransferWallet(p) == At(p, "usecase", {"transfer"}) /\ SpendFrom(p)

ReverseTransaction(p) ==
  /\ At(p, "usecase", {"reverse"})
  /\ LET c == cmd[p]
         original == posted[c.original]
     IN  IF original = None \/ c.txn = c.original
         THEN Fail(p, "rejected")
         ELSE IF original.reverses # None
              THEN Fail(p, "rejected")
              ELSE Draft(p, Reverse(c.original, original), "lookup")

\* GetByID: mapWalletHold refuses a row that fails Hold.Validate.
Found(h) == holds[h] # None /\ holds[h].expires > holds[h].created

CreateHold(p) ==
  /\ At(p, "usecase", {"authorize"})
  /\ IF cmd[p].expires > clock
     THEN Goto(p, "begin") /\ UNCHANGED <<db, locks, local>>
     ELSE Fail(p, "rejected")

Capturable(h, settle) ==
  /\ Found(h)
  /\ holds[h].wallet # settle
  /\ \/ holds[h].status = "authorized" /\ clock < holds[h].expires
     \/ holds[h].status = "captured"

CaptureHold(p) ==
  /\ At(p, "usecase", {"capture"})
  /\ LET c == cmd[p]
         h == holds[c.hold]
     IN  IF Capturable(c.hold, c.settle)
         THEN Draft(p, TwoLeg(h.wallet, c.settle, h.amount, c.hold), "begin")
         ELSE Fail(p, "rejected")

\* Hold.Release, Hold.Expire: an authorized hold, before its expiry for the
\* one and not before it for the other.
CloseHold(p, due) ==
  LET h == cmd[p].hold
  IN  IF /\ Found(h)
         /\ holds[h].status = "authorized"
         /\ due = (clock >= holds[h].expires)
      THEN Goto(p, "update") /\ UNCHANGED <<db, locks, local>>
      ELSE Fail(p, "rejected")

ReleaseHold(p) == At(p, "usecase", {"release"}) /\ CloseHold(p, FALSE)

ExpireHold(p) == At(p, "usecase", {"expire"}) /\ CloseHold(p, TRUE)

-----------------------------------------------------------------------------
(* Transactions and row locks *)

BeginTx(p) ==
  /\ pc[p] = "begin"
  /\ began' = [began EXCEPT ![p] = clock]
  /\ Goto(p, IF cmd[p].op \in {"authorize", "capture"} THEN "wallet" ELSE "accounts")
  /\ UNCHANGED <<db, locks, draft>>

\* The wallet that Authorize and Capture lock by its identifier.
WalletToLock(p) ==
  IF cmd[p].op = "authorize" THEN cmd[p].wallet ELSE holds[cmd[p].hold].wallet

LockWalletByID(p) ==
  /\ pc[p] = "wallet"
  /\ walletLock[WalletToLock(p)] = None
  /\ walletLock' = [walletLock EXCEPT ![WalletToLock(p)] = p]
  /\ Goto(p, IF cmd[p].op = "authorize" THEN "find" ELSE "hold")
  /\ UNCHANGED <<db, holdLock, local>>

\* Mutant of Pending: only the credited wallets are locked.
PendingCredits(p) ==
  {w \in WalletsOf(draft[p]) : draft[p].cr[w] > 0 /\ walletLock[w] # p}

\* lockWalletAccounts: the wallets still to lock, and the first of them in the
\* order of the sorted account identifiers.
Pending(p) == {w \in WalletsOf(draft[p]) : walletLock[w] # p}

\* Mutant of NextToLock: in the order of the postings, the debit first.
NextInPostingOrder(p) ==
  CHOOSE w \in Pending(p) :
    draft[p].dr[w] > 0 \/ \A v \in Pending(p) : draft[p].dr[v] = 0

NextToLock(p) == CHOOSE w \in Pending(p) : \A v \in Pending(p) : w <= v

LockWalletAccount(p) ==
  /\ pc[p] = "accounts"
  /\ Pending(p) # {}
  /\ walletLock[NextToLock(p)] = None
  /\ walletLock' = [walletLock EXCEPT ![NextToLock(p)] = p]
  /\ Goto(p, "accounts")
  /\ UNCHANGED <<db, holdLock, local>>

\* Mutant of Idempotency: the recorded hash is not compared.
IdempotencyByTransaction(c) ==
  IF keys[c.key] = None THEN "new"
  ELSE IF keys[c.key].txn = c.txn THEN "replayed" ELSE "conflict"

\* checkIdempotencyWithQueries
Idempotency(c) ==
  IF keys[c.key] = None
  THEN "new"
  ELSE IF keys[c.key] = [hash |-> c.hash, txn |-> c.txn] THEN "replayed" ELSE "conflict"

-----------------------------------------------------------------------------
(* TransactionRepository.Post, and postInTransaction on behalf of a capture *)

LookupKey(p) ==
  /\ pc[p] = "lookup"
  /\ CASE Idempotency(cmd[p]) = "new"      -> Goto(p, "begin") /\ UNCHANGED <<db, locks, local>>
       [] Idempotency(cmd[p]) = "replayed" -> Fail(p, "ok")
       [] Idempotency(cmd[p]) = "conflict" -> Fail(p, "conflict")

\* Mutant of RecheckKey: no second look inside the transaction.
NoRecheck(p) ==
  /\ pc[p] = "accounts"
  /\ Pending(p) = {}
  /\ Goto(p, "validate")
  /\ UNCHANGED <<db, locks, local>>

\* With every wallet locked, the key is looked up again.  A capture whose key
\* is already recorded goes on to mark its hold.
RecheckKey(p) ==
  /\ pc[p] = "accounts"
  /\ Pending(p) = {}
  /\ CASE Idempotency(cmd[p]) = "new"      -> Goto(p, "validate") /\ UNCHANGED <<db, locks, local>>
       [] Idempotency(cmd[p]) = "replayed" ->
            IF cmd[p].op = "capture"
            THEN Goto(p, "mark") /\ UNCHANGED <<db, locks, local>>
            ELSE Fail(p, "ok")
       [] Idempotency(cmd[p]) = "conflict" -> Fail(p, "conflict")

\* Mutant of Affordable: the holds are left out of the balance.
AffordableIgnoringHolds(t, now) ==
  \A w \in WalletsOf(t) : LedgerBalance(posted, w) + Delta(t, w) >= 0

\* validateWalletBalances
Affordable(t, now) ==
  \A w \in WalletsOf(t) : Available(posted, holds, w, now) + Delta(t, w) >= 0

ValidateBalances(p) ==
  /\ pc[p] = "validate"
  /\ IF Affordable(draft[p], began[p])
     THEN Goto(p, "insert") /\ UNCHANGED <<db, locks, local>>
     ELSE Fail(p, "insufficient")

\* Mutant of DuplicateTransaction: reverses_transaction_id is not unique.
DuplicateId(p) == posted[cmd[p].txn] # None

\* Mutant of DuplicateTransaction: an existing identifier is overwritten.
DuplicateReversal(p) ==
  /\ draft[p].reverses # None
  /\ \E t \in TxnId : posted[t] # None /\ posted[t].reverses = draft[p].reverses

\* The unique constraints on transactions.
DuplicateTransaction(p) ==
  \/ posted[cmd[p].txn] # None
  \/ /\ draft[p].reverses # None
     /\ \E t \in TxnId : posted[t] # None /\ posted[t].reverses = draft[p].reverses

\* createOutboxEvents: one event for each wallet the session has locked.
OutboxEvents(t, d) == {t} \X WalletsOf(d)

\* Mutant of WriteTransaction: an event for the debited wallets only.
WriteDebitEvents(p) ==
  /\ posted' = [posted EXCEPT ![cmd[p].txn] = draft[p]]
  /\ keys' = [keys EXCEPT ![cmd[p].key] = [hash |-> cmd[p].hash, txn |-> cmd[p].txn]]
  /\ outbox' = outbox \cup {cmd[p].txn} \X {w \in Wallet : draft[p].dr[w] > 0}

\* Mutant of WriteTransaction: a capture does not record its key.
WriteUnkeyedCapture(p) ==
  /\ posted' = [posted EXCEPT ![cmd[p].txn] = draft[p]]
  /\ keys' = IF cmd[p].op = "capture" THEN keys
             ELSE [keys EXCEPT ![cmd[p].key] = [hash |-> cmd[p].hash, txn |-> cmd[p].txn]]
  /\ outbox' = outbox \cup OutboxEvents(cmd[p].txn, draft[p])

\* The rows of the transaction, one outbox event for each of its wallets, and
\* the idempotency record.
WriteTransaction(p) ==
  /\ posted' = [posted EXCEPT ![cmd[p].txn] = draft[p]]
  /\ keys' = [keys EXCEPT ![cmd[p].key] = [hash |-> cmd[p].hash, txn |-> cmd[p].txn]]
  /\ outbox' = outbox \cup OutboxEvents(cmd[p].txn, draft[p])

\* Post inserts and commits.  If another request took the key first, the record
\* is looked up again after the rollback.
InsertTransaction(p) ==
  /\ At(p, "insert", PostingOp \ {"capture"})
  /\ IF DuplicateTransaction(p)
     THEN Fail(p, "failed")
     ELSE IF keys[cmd[p].key] # None
          THEN Fail(p, IF Idempotency(cmd[p]) = "replayed" THEN "ok" ELSE "conflict")
          ELSE WriteTransaction(p) /\ Answer(p, "ok") /\ UNCHANGED holds

-----------------------------------------------------------------------------
(* HoldRepository *)

\* Capture: the hold row is locked after its wallet's.  A captured hold is
\* answered from the idempotency record.
LockHold(p) ==
  /\ pc[p] = "hold"
  /\ LET h == cmd[p].hold
     IN  /\ holdLock[h] = None
         /\ IF holds[h].status = "captured"
            THEN Fail(p, CASE Idempotency(cmd[p]) = "new"      -> "rejected"
                           [] Idempotency(cmd[p]) = "replayed" -> "ok"
                           [] Idempotency(cmd[p]) = "conflict" -> "conflict")
            ELSE IF holds[h].status # "authorized" \/ clock >= holds[h].expires
                 THEN Fail(p, "rejected")
                 ELSE /\ holdLock' = [holdLock EXCEPT ![h] = p]
                      /\ Goto(p, "accounts")
                      /\ UNCHANGED <<db, walletLock, local>>

\* Mutant of StillAuthorized: the UPDATE has no condition on the status.
AnyStatus(h) == TRUE

\* UpdateWalletHoldStatus: the WHERE clause, and the SET.
StillAuthorized(h) == holds[h].status = "authorized"

SetStatus(h, status) == [holds EXCEPT ![h].status = status]

\* Mutant of InsertCapture: the posting is committed and the status forgotten.
InsertCaptureOnly(p) ==
  /\ At(p, "insert", {"capture"})
  /\ IF DuplicateTransaction(p) \/ keys[cmd[p].key] # None
     THEN Fail(p, "failed")
     ELSE WriteTransaction(p) /\ Answer(p, "ok") /\ UNCHANGED holds

\* Capture: postInTransaction's inserts, the status and the commit.
InsertCapture(p) ==
  /\ At(p, "insert", {"capture"})
  /\ IF DuplicateTransaction(p) \/ keys[cmd[p].key] # None
     THEN Fail(p, "failed")
     ELSE IF ~StillAuthorized(cmd[p].hold)
          THEN Fail(p, "rejected")
          ELSE /\ WriteTransaction(p)
               /\ holds' = SetStatus(cmd[p].hold, "captured")
               /\ Answer(p, "ok")

\* Capture when postInTransaction found its key recorded: only the status.
MarkCaptured(p) ==
  /\ pc[p] = "mark"
  /\ IF ~StillAuthorized(cmd[p].hold)
     THEN Fail(p, "rejected")
     ELSE /\ holds' = SetStatus(cmd[p].hold, "captured")
          /\ Answer(p, "ok")
          /\ UNCHANGED <<posted, keys, outbox>>

\* Authorize: the holds the wallet already has under this idempotency key.
SameKey(c) == {h \in HoldId : holds[h] # None /\ holds[h].wallet = c.wallet
                                              /\ holds[h].key = c.key}

FindHold(p) ==
  /\ pc[p] = "find"
  /\ IF SameKey(cmd[p]) = {}
     THEN Goto(p, "funds") /\ UNCHANGED <<db, locks, local>>
     ELSE \E h \in SameKey(cmd[p]) :
            Fail(p, IF holds[h].hash # cmd[p].hash THEN "conflict"
                    ELSE IF Found(h) THEN "ok" ELSE "rejected")

CheckFunds(p) ==
  /\ pc[p] = "funds"
  /\ IF Available(posted, holds, cmd[p].wallet, began[p]) < cmd[p].amount
     THEN Fail(p, "insufficient")
     ELSE Goto(p, "create") /\ UNCHANGED <<db, locks, local>>

\* created_at is the NOW() of the transaction.  The row is mapped after the
\* commit: a hold that had expired by then is stored and reported as invalid.
CreateWalletHold(p) ==
  /\ pc[p] = "create"
  /\ LET c == cmd[p]
     IN  IF holds[c.hold] # None
         THEN Fail(p, "failed")
         ELSE /\ holds' = [holds EXCEPT ![c.hold] =
                   [wallet |-> c.wallet, amount |-> c.amount, created |-> began[p],
                    expires |-> c.expires, status |-> "authorized",
                    key |-> c.key, hash |-> c.hash]]
              /\ Answer(p, IF c.expires > began[p] THEN "ok" ELSE "rejected")
              /\ UNCHANGED <<posted, keys, outbox>>

\* UpdateStatus: one UPDATE ... WHERE status = 'authorized', which waits for
\* a capture that has the row.
UpdateStatus(p) ==
  /\ pc[p] = "update"
  /\ LET h == cmd[p].hold
     IN  /\ holdLock[h] = None
         /\ IF ~StillAuthorized(h)
            THEN Fail(p, "rejected")
            ELSE /\ holds' = SetStatus(h, IF cmd[p].op = "release" THEN "released" ELSE "expired")
                 /\ Answer(p, "ok")
                 /\ UNCHANGED <<posted, keys, outbox>>

-----------------------------------------------------------------------------
(* Failures and time *)

\* A cancelled context, a lost connection or a crash before the commit.
Abort(p) == pc[p] # "idle" /\ Fail(p, "aborted")

\* The owner of the row a session is waiting for, or None.
Blocker(p) ==
  CASE pc[p] = "wallet" -> walletLock[WalletToLock(p)]
    [] pc[p] = "accounts" /\ Pending(p) # {} -> walletLock[NextToLock(p)]
    [] pc[p] \in {"hold", "update"} -> holdLock[cmd[p].hold]
    [] OTHER -> None

Deadlocked(S) == S # {} /\ \A p \in S : Blocker(p) \in S

\* PostgreSQL ends one of the transactions of a wait cycle.
DeadlockVictim(p) ==
  /\ \E S \in SUBSET Session : p \in S /\ Deadlocked(S)
  /\ Fail(p, "deadlock")

Tick ==
  /\ clock < MaxTime
  /\ clock' = clock + 1
  /\ UNCHANGED <<db, locks, pc, cmd, local, reply>>

\* The steps that may wait for a row, and the ones that may not.
Acquire(p) == LockWalletByID(p) \/ LockWalletAccount(p) \/ LockHold(p) \/ UpdateStatus(p)

Run(p) ==
  \/ PostTransaction(p) \/ DepositWallet(p) \/ WithdrawWallet(p)
  \/ TransferWallet(p) \/ ReverseTransaction(p)
  \/ CreateHold(p) \/ CaptureHold(p) \/ ReleaseHold(p) \/ ExpireHold(p)
  \/ BeginTx(p) \/ LookupKey(p) \/ RecheckKey(p) \/ ValidateBalances(p)
  \/ InsertTransaction(p) \/ InsertCapture(p) \/ MarkCaptured(p)
  \/ FindHold(p) \/ CheckFunds(p) \/ CreateWalletHold(p)

Next ==
  \/ Tick
  \/ \E p \in Session :
       \/ \E c \in Command : Submit(p, c)
       \/ Run(p)
       \/ Acquire(p)
       \/ DeadlockVictim(p)
       \/ Abort(p)

Spec == Init /\ [][Next]_vars

\* A session goes on as long as it can; PostgreSQL queues those who wait for a
\* row, so one that could have had it again and again gets it; and it ends
\* wait cycles.
Fairness ==
  /\ \A p \in Session : WF_vars(Run(p)) /\ SF_vars(Acquire(p))
  /\ WF_vars(\E p \in Session : DeadlockVictim(p))

FairSpec == Spec /\ Fairness

-----------------------------------------------------------------------------
(* What makes the core correct *)

\* No wallet is ever overspent: what its postings leave covers its active
\* holds, whatever withdrawals, transfers, holds, captures and reversals ran
\* against it at the same time.
SolventWallets ==
  \A w \in Wallet : Available(posted, holds, w, clock) >= 0

\* A balance checked under the wallet locks is still enough when the insert it
\* was checked for runs: nothing that commits in between, on any wallet, can
\* take from it (validateWalletBalances, Authorize).
ChecksStayValid ==
  \A p \in Session :
    /\ pc[p] = "insert" => Affordable(draft[p], clock)
    /\ pc[p] = "create" =>
         Available(posted, holds, cmd[p].wallet, clock) >= cmd[p].amount

\* The transactions posted by captures of hold h.
CapturesOf(h) == {t \in TxnId : posted[t] # None /\ posted[t].captures = h}

\* Capture moves the money and closes the hold together and once: a hold is
\* captured exactly when one transaction has paid for it.
CapturedOncePaid ==
  \A h \in HoldId :
    Cardinality(CapturesOf(h)) =
      IF holds[h] # None /\ holds[h].status = "captured" THEN 1 ELSE 0

\* A hold that was captured, released or expired stays what it became, however
\* its capture, release and expiry race, and its terms never change.
HoldOutcomeFinal ==
  [][\A h \in HoldId : holds[h] # None =>
       /\ holds'[h] # None
       /\ [holds'[h] EXCEPT !.status = holds[h].status] = holds[h]
       /\ holds[h].status # "authorized" => holds'[h] = holds[h]]_vars

\* What a successful answer to command c promises of the database.
Promised(c) ==
  CASE c.op = "post"      -> /\ posted[c.txn] # None
                             /\ posted[c.txn].dr = c.dr /\ posted[c.txn].cr = c.cr
    [] c.op = "deposit"   -> posted[c.txn] = TwoLeg(c.from, c.wallet, c.amount, None)
    [] c.op \in {"withdraw", "transfer"} -> posted[c.txn] = TwoLeg(c.wallet, c.to, c.amount, None)
    [] c.op = "reverse"   -> posted[c.txn] # None /\ posted[c.txn].reverses = c.original
    [] c.op = "capture"   -> /\ posted[c.txn] # None /\ posted[c.txn].captures = c.hold
                             /\ holds[c.hold].status = "captured"
    [] c.op = "authorize" -> \E h \in SameKey(c) : holds[h].amount = c.amount
    [] c.op = "release"   -> holds[c.hold].status = "released"
    [] c.op = "expire"    -> holds[c.hold].status = "expired"

\* A request answered with success, the first time or as a replay, is in the
\* database as that request described it.
AnswersAreDurable ==
  \A p \in Session : pc[p] = "idle" /\ reply[p] = "ok" => Promised(cmd[p])

\* A request the database already has under the same key, hash and transaction.
Recorded(c) == c.op \in PostingOp /\ Idempotency(c) = "replayed"

\* Repeating a recorded request that touches a wallet never ends in an error of the
\* application: the wallet's row serialises the two, so it is answered with the
\* recorded success, also when the original commits while the repetition is half
\* way.  The one exception is the balance that withdrawals and transfers read
\* before anything else: it refuses a repetition whose original spent the money.
RetriesReplayed ==
  [][\A p \in Session :
       /\ pc[p] # "idle" /\ pc'[p] = "idle"
       /\ Recorded(cmd[p]) /\ WalletsOf(posted[cmd[p].txn]) # {}
       => \/ reply'[p] \in {"ok", "aborted", "deadlock"}
          \/ At(p, "usecase", {"withdraw", "transfer"}) /\ reply'[p] = "insufficient"]_vars

\* A posted transaction, its postings and its idempotency record are never
\* changed or removed, by reversals and failed duplicates included.
LedgerAppendOnly ==
  [][/\ \A t \in TxnId : posted[t] # None => posted'[t] = posted[t]
     /\ \A k \in Key : keys[k] # None => keys'[k] = keys[k]
     /\ outbox \subseteq outbox']_vars

\* Each idempotency record names a posted transaction and no two name the same
\* one: a key never moves money twice.
KeysNamePostings ==
  /\ \A k \in Key : keys[k] # None => posted[keys[k].txn] # None
  /\ \A k1, k2 \in Key :
       keys[k1] # None /\ keys[k2] # None /\ keys[k1].txn = keys[k2].txn => k1 = k2
  /\ \A t \in TxnId : posted[t] # None => \E k \in Key : keys[k] # None /\ keys[k].txn = t

\* A reversal undoes exactly one posted transaction, account by account, and
\* no transaction is undone twice.
ReversalsCancel ==
  \A t \in TxnId : posted[t] # None /\ posted[t].reverses # None =>
    LET o == posted[t].reverses
    IN  /\ posted[o] # None
        /\ posted[o].reverses = None
        /\ \A a \in Account : Delta(posted[t], a) + Delta(posted[o], a) = 0
        /\ \A u \in TxnId : posted[u] # None /\ posted[u].reverses = o => u = t

\* Money is moved, never made: each posted entry credits what it debits.
EntriesBalanced == \A t \in TxnId : posted[t] # None => IsBalanced(posted[t])

\* Each wallet a posted transaction touches, and no other, gets an event in the
\* same commit: the transactional outbox.
EventsMatchPostings ==
  outbox = UNION {{t} \X WalletsOf(posted[t]) : t \in {u \in TxnId : posted[u] # None}}

\* No set of sessions wait for one another's rows.
NoDeadlock == \A S \in SUBSET Session : ~Deadlocked(S)

\* A capture of a live hold gets the funds the hold reserved.
CaptureIsFunded ==
  \A p \in Session :
    pc[p] = "idle" /\ reply[p] = "insufficient" => cmd[p].op # "capture"

\* Every request is answered, whatever other requests contend for its rows.
RequestsAnswered ==
  \A p \in Session : pc[p] # "idle" ~> pc[p] = "idle"

-----------------------------------------------------------------------------
(* What the sessions implement *)

Promise == INSTANCE LedgerPromise
  WITH clock <- clock, posted <- posted, keys <- keys, holds <- holds, outbox <- outbox

\* Served concurrently, in many statements that decide on what they read before,
\* every request still takes effect at once: each commit is a step that the tables
\* of that moment allow.
KeepsPromise == Promise!Spec
=============================================================================
