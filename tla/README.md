# Verification of the wallet ledger

TLA+ models, TLC runs and TLAPS proofs for the Go service in `src/`: a
double-entry ledger in PostgreSQL with wallets, holds, idempotent requests and a
transactional outbox, a balance projection fed through SNS, SQS and DynamoDB, and
a checkout saga that calls an external payment gateway.

Paths below are relative to `src/internal/ledger/` unless they start with `src/`.

## 1. The system

| Component | State it keeps | Operations | Talks to |
|---|---|---|---|
| Domain (`domain/`) | none: values with validation | build and reverse transactions, validate entries, the state machine of a hold, Money at int64 | used by all |
| Transaction use cases (`application/transaction`) | none | post, reverse, get | transaction repository |
| Wallet use cases (`application/wallet`) | none | create, deposit, withdraw, transfer, create/capture/release/expire a hold, balance | wallet, transaction and hold repositories |
| Transaction repository (`adapters/postgres/transaction_repository.go`) | `transactions`, `journal_entries`, `postings`, `idempotency_keys`, `outbox_events` | `Post`, `postInTransaction` | PostgreSQL, row locks on `wallets` |
| Hold repository (`adapters/postgres/hold_repository.go`) | `wallet_holds` | `Authorize`, `Capture`, `UpdateStatus`, `ListExpiredHolds` | PostgreSQL, `postInTransaction` |
| Accounts and onboarding (`application/account`, `create.go`) | `accounts`, `wallets` | create an account, create a wallet, list an account's entries page by page | PostgreSQL |
| HTTP handlers (`adapters/http`) | none | decode, hash the request, call a use case, map its error | use cases |
| Outbox relay (`application/outbox`, `outbox_repository.go`) | status and retry count of the events | claim a batch, publish, mark published or failed, take stale claims back | PostgreSQL, SNS |
| Projection (`adapters/sqs`, `application/wallet/projector.go`, `adapters/dynamo`) | one DynamoDB item per wallet | receive, project from the ledger, conditional put, delete message; read with fallback | SQS, PostgreSQL, DynamoDB |
| Payment saga (`application/saga`) | none of its own: the hold is its only record | authorize, anti-fraud, gateway, capture, compensate | hold use cases, gateway |
| Circuit breaker (`src/internal/platform/resilience`) | state, two counters, time of the last change | `Execute`, `State` | gateway |
| Hold expiration worker (`adapters/worker`) | none | every 10 s list up to 50 due holds and expire each | hold repository |
| Bootstrap, platform, loadgen, dashboard, deployment | wiring and configuration | | |

What runs concurrently: one goroutine per HTTP request, the relay, the SQS
consumer and the expiration worker, in every replica of the service. There are no
in-process locks in the core: all coordination is PostgreSQL's, that is `SELECT ...
FOR UPDATE` on wallet and hold rows, unique constraints, and conditional
updates, at READ COMMITTED.

What is hard about it, and what would make each part correct:

* **Ledger and wallets.** Several requests decide on one wallet's balance at the
  same time, and the decision is read before the write. A wallet must never be
  overspent; entries must balance; nothing posted may change.
* **Holds.** Capture runs under the wallet's and the hold's locks, release and
  expiry run under neither and rely on `WHERE status = 'authorized'`. The first to
  commit must decide, and a captured hold must have been paid for exactly once.
* **Idempotency.** The key is looked up before the transaction, again under the
  locks, and once more after a unique violation. A retry must be answered from
  the record, and a different request with the same key must not be.
* **Locks.** Wallets are locked in the order of their accounts, except that a
  capture locks the wallet of its hold first.
* **Outbox.** An event must be committed with its posting, claimed by one relay at
  a time and published at least once.
* **Projection.** Messages arrive late, twice and out of order; the item must end
  up at the ledger's balance.
* **Accounts.** Wallets appear on accounts with any history, entries commit in another
  order than they are listed in.
* **Saga.** There is no record of the gateway call, so a crash, a retry or a failed
  capture after it must not charge twice or charge and release.
* **Breaker.** Calls admitted in one state finish in another.
* **Expiration worker.** Every due hold must be expired in the end.

`PROJECT.json` lists each hazard at its line, with the properties that guard it or a note why none does.

## 2. Modules

| Module | Models |
|---|---|
| `Funds` | The rows of the database and the arithmetic on them: entries, their validation and reversal, `GetLedgerBalance`, the available balance |
| `Requests` | The requests of the API that change the ledger or a hold, as their handlers decode them |
| `LedgerPromise` | Abstract specification of the core: every request takes effect in one step or not at all |
| `WalletLedger` | The core as concurrent sessions: use cases, transaction repository, hold repository, row locks, failures, time; it implements `LedgerPromise` |
| `PaymentSaga` | Checkouts on top of `WalletLedger`: anti-fraud, the gateway, compensation, crashes, repetitions |
| `HoldExpiration` | The expiration worker on top of `WalletLedger` |
| `OutboxRelay` | The relays of several replicas: claims, publishing, marks, retries with backoff, stale claims, crashes |
| `Projection` | One wallet's balance on its way through SQS and the consumers into DynamoDB, and the balance requests that save there too |
| `CircuitBreaker` | The breaker of the payment gateway under concurrent calls |
| `Accounts` | Accounts and wallets created while postings run, and the paged listing of entries |
| `MCWalletLedger`, `MCPaymentSaga`, `MCHoldExpiration`, `MCProjection`, `MCAccounts` | Requests, postings and symmetries for the runs, and that they meet what the theorems assume; the other modules need only a configuration |
| `Counting` | Lemmas: least elements, cardinalities of blocks of units, and the first few elements of an order |
| `WalletLedgerProofs` | Totals and balances; type correctness; what the ledger, the keys, the holds and the outbox can never do; no wallet is overspent |
| `LedgerPromiseProofs` | The refinement of `LedgerPromise`; balanced entries; reversals; one hold per key; and, with an assumption on the requests, what captures pay for, what clients were told, and no deadlock |
| `CoreClientsProofs` | The saga and the expiration worker as behaviours of the core, and what they promise |
| `OutboxRelayProofs`, `CircuitBreakerProofs`, `ProjectionProofs`, `AccountsProofs` | Safety of the relays, the breaker, the projection and the accounts |

How they fit together: `PaymentSaga` and `HoldExpiration` extend `WalletLedger` and run their
requests in its sessions, statement by statement, so that a checkout, a worker and other clients
meet at the rows of the database. `WalletLedger` writes `outbox_events`
in the commit of each posting (`EventsMatchPostings`); `OutboxRelay` takes an event from there, its
`CreateOutboxEvent` being that commit; `Projection` takes from the relay that an event is published at least once
or given up; a second copy is to a consumer what a redelivery is (`MaxCopies`). `CircuitBreaker` stands in front of the gateway: to the saga an open
breaker is one more way to be declined.

### State of the core

`posted`, `keys`, `holds` and `outbox` are the committed tables. A transaction, its
journal entry and its postings are one record, whose postings are two functions: what
the entry debits from and credits to each account. `walletLock` and `holdLock` say
which session has a row `FOR UPDATE`. A session is a request handler with its
database connection: `pc` is the statement it runs next, `cmd` the decoded
request, `draft` the `domain.Transaction` it built, `began` the `NOW()` of its database
transaction, `reply` its last answer. A session that has answered may submit any
request again, so retries by clients need no action of their own.

`captures` in a transaction is history: no column of the code, no guard reads it,
and it lets `CapturedOncePaid` say which hold a transaction paid for.

### Actions of the core

| Code | Action, by `pc` |
|---|---|
| the nine `Execute` methods, up to the repository | `PostTransaction`, `DepositWallet`, `WithdrawWallet`, `TransferWallet`, `ReverseTransaction`, `CreateHold`, `CaptureHold`, `ReleaseHold`, `ExpireHold` (`usecase`) |
| `TransactionRepository.Post` | `LookupKey` (`lookup`), `BeginTx` (`begin`), `LockWalletAccount` and `RecheckKey` (`accounts`), `ValidateBalances` (`validate`), `InsertTransaction` (`insert`) |
| `HoldRepository.Capture` | `BeginTx`, `LockWalletByID` (`wallet`), `LockHold` (`hold`), then `postInTransaction`: `LockWalletAccount`, `RecheckKey`, `ValidateBalances`, and `InsertCapture` (`insert`) or, when the key was recorded, `MarkCaptured` (`mark`) |
| `HoldRepository.Authorize` | `BeginTx`, `LockWalletByID`, `FindHold` (`find`), `CheckFunds` (`funds`), `CreateWalletHold` (`create`) |
| `HoldRepository.UpdateStatus` | `UpdateStatus` (`update`) |
| a lost connection, a cancelled context, a crash of the service | `Abort`, in any state |
| PostgreSQL's deadlock detection | `DeadlockVictim` |
| time | `Tick` |

A lost reply is a session that answered and whose client does not know: the client
repeats the request. A crash of the service before the commit is `Abort`: PostgreSQL
rolls the transaction back and releases its locks, and the service keeps nothing else.

### The abstract core

`LedgerPromise` has the five tables and the clock, and no sessions, locks, snapshots or waiting. Each of its
actions is one request taking effect: `Post`, `Capture`, `MarkCaptured`, `Authorize`, `Release`, `Expire`. Its guards
look at the tables of that very step: identifiers and keys are new, the entry is valid, the hold is
authorized, and afterwards each wallet has what it needs (`Covered`). `KeepsPromise` in `WalletLedger` is `LedgerPromise!Spec`
with the tables mapped to themselves: however the statements of concurrent requests
interleave, what each decided from earlier reads is still true when it commits.

### The saga

A session in which `stage` is not `none` serves a checkout; its requests to the core are built by `AuthorizeFor`, `CaptureFor`
and `ReleaseFor` and run there like any client's.

| Code (`application/saga/payment_saga.go`) | Action |
|---|---|
| step 1, authorize the hold | `Begin`, `Serve`, `AuthorizationRefused` |
| `hold.IsCaptured()` returns the earlier result | `ReplayCaptured` |
| step 2, anti-fraud | `EvaluateFraud` |
| step 3, the gateway | `CallGateway` |
| step 4, capture | `CaptureDone`, `CaptureFailed` |
| `compensateHold` | `Compensate` in the failing actions, `Compensated` |
| a request fails, a deadlock ends it | `Interrupt` |
| the service stops, the client goes away | `Stop` between two calls, `Interrupt` and `Stop` during one |

`found` is the copy of the hold the authorization returned, on which the saga decides. A gateway call is `paid`, `declined`, or
`unanswered`: taken, with an error for the caller. `charges` counts what the gateway took for a `PaymentID`.
The gateway is external, so nothing is assumed of how it treats a `PaymentID` it has seen. A call of the core that
committed may also be reported as failed. The identifiers of a checkout come from its
key, and its capture uses the key with `:capture` appended, here `captureKey`. Clients that capture or release a checkout's hold by
themselves are left out; the expiration worker is not.

### The expiration worker

A worker is a session that clients do not use. `ListExpiredHolds` is the query with its order and limit, `ExpireNext` the loop over its
result, which goes on after an error; the expiry itself is `ExpireHold` and `UpdateStatus` of the core.
`FailOrStop` fails a request or stops a worker, whose batch is then lost. `Stuck` are holds
whose authorization waited past their expiry: `mapWalletHold` refuses such a row for ever.

### The projection

A balance is a version: the number of changes of the ledger it has seen. `queue` and `receives` are SQS, `todo` the
batch of a consumer with the receipt of each message, and `pc`, `seen`, `stamp` a projection under way, of a consumer or of a balance request.

| Code | Action |
|---|---|
| a commit that changes the wallet, with an event (posting) or without one (hold) | `Change` |
| the relay publishes, publishes again, or gives up | `Publish`, `GiveUp` |
| `ReceiveMessage`, the visibility timeout, the retention period | `Receive`, `VisibilityEnds`, `Expires` |
| `processMessage`, `ProjectBalance`, `ExecuteFromLedger` | `ProcessMessage`: the read of the ledger |
| a balance request that does not use the item | `FallBack` |
| `SaveWalletBalance`: `time.Now`, then the conditional put | `Stamp`, `Put` |
| `DeleteMessage` | `DeleteMessage` |
| an error anywhere, hiding a write or not | `ProjectionFails`, `SaveFails` |
| a replica stops | `Crash` |

Items of different wallets share nothing, so one wallet is modelled. All replicas read one clock and no two
saves have the same time. `Text` is the order of RFC3339Nano strings, which is what DynamoDB compares.

### Accounts

`LockWallet`, `ValidateBalance` and `CreatePosting` are `Post` as far as one account is concerned; keys, holds and several wallets are in `WalletLedger`.
A balance counts `CreditUnits` and `DebitUnits`, one unit for each minor unit of each entry. `CreateWallet` asks only
that the account exists and has no wallet. `ListEntries` is the two queries: of the entries after the cursor, those with
fewer than `limit` before them. `Page` is `ListAccountEntriesUseCase` with its
`limit+1` and its `Oldest` entry as the next cursor. As pages are sets, the order inside a page is that of the query and only the order between pages is
checked. `walk` is a client that follows the cursors: the entries of the pages before the last, the last page, and what there was at the first
(history). `sound` is history too: the wallets
created on accounts that owed nothing and had no unguarded debit under way.

### The relay

`row` is the table, `batch` the events a relay has claimed and not finished, each as
the `SELECT` read it, `result` the answer of SNS for the first of them, `delivered` what
SNS has accepted (history: only properties read it).

| Code | Action |
|---|---|
| `OutboxRepository.FetchPending` (take back stale claims, select, mark, commit) | `FetchPending` |
| `isEligibleForProcessing` says no, `ReleaseClaim` | `ReleaseClaim` |
| `EventPublisher.Publish`, where an error may hide that SNS took the event | `Publish` |
| `MarkPublished`, `MarkFailed` of the repository | `MarkPublished`, `MarkFailed` |
| the update of either, or of a release, fails and the relay goes on | `LoseUpdate` |
| the replica stops and starts again; the batch is only in memory | `Crash` |
| time | `Tick` |

`FetchPending` is one step: its rows are locked with `SKIP LOCKED`, so two fetches at the
same time take disjoint rows, as one after the other does. Times appear as ages (the
time since `updated_at`), because the code only compares differences; that leaves time
unbounded. `MaxStalls` bounds how often a tick may find a batch at the end of its
claims' life.

### The breaker

`BeforeExecution` and `AfterExecution` are the two critical sections of `Execute`; a caller
is in `calling` between them. `AfterExecution` is `Succeeds` or `Fails`. `ReadState` is `State()`,
which changes the state too. A refused call changes nothing and is no step.

### Abstractions of the core

* **Grain.** A step is a SQL statement, or a read by a use case. The inserts of a
  database transaction and its commit are one step: the inserted rows are invisible
  before the commit, and a second session that would insert the same unique key
  waits for the first to end, which is the same as trying after it. What the rows
  say is decided by earlier statements, which are steps.
* **Reads of a use case.** A use case reads the hold or the wallet and decides in one
  step. The capture's read of the hold before its locks is in the same step: what it
  takes from it (wallet, amount) never changes, and the status is read again under
  the lock.
* **Time.** `time.Now` and `NOW()` read one clock; `NOW()` keeps the time the
  transaction began. The moment itself (`expires_at > NOW()` against `!now.Before`)
  is on the side the code puts it.
* **Identifiers.** An account is a natural number, its place in the sorted order of the
  account identifiers; a wallet is named by its ledger account, which is unique.
  Identifiers of journal entries and postings are as unique as the transaction's.
* **Request hashes** are values. Which requests share a hash is chosen by the
  request sets, following what the handlers hash: a deposit's and a withdrawal's
  hash leaves out the wallet, a capture's leaves out the hold.
* **Totals** are cardinalities of sets of minor units. `TotalsType` and
  `PostingMovesBalance` in `WalletLedgerProofs` show that they add up as numbers do.

## 3. Runs

In the runs of the core, accounts 1 and 2 are wallets and 9 is an account of no wallet.

| Run | Instance | Checks |
|---|---|---|
| `funds` | 2 sessions, 2 wallets, 2 holds, 10 requests, time to 2 | `TypeOK`, `SolventWallets`, `ChecksStayValid`, `EventsMatchPostings`, `CapturedOncePaid`, `NoDeadlock`, `HoldOutcomeFinal` |
| `retries` | 2 sessions, 2 hashes, 12 requests: repeated and conflicting ones, two reversals of one transaction | `AnswersAreDurable`, `KeysNamePostings`, `ReversalsCancel`, `EntriesBalanced`, `RetriesReplayed`, `LedgerAppendOnly` |
| `progress` | 2 sessions, a capture into a wallet against a posting the other way, the capture's key sent for a second hold | `RequestsAnswered`, `KeepsPromise` |
| `saga` | 2 sessions, a checkout and another one that reuses its key, an expiry, a funding; a gateway that pays, declines or leaves its answer open | `SagaTypeOK`, `PostedWasCharged`, `CompletedIsPosted`, `FailedStaysUnposted`, `RepetitionsCallNobody` |
| `expiration` | a worker with batches of 2, a client session, 3 holds, 1 failure or stop | `BatchesBounded`, `DueHoldsEnd` |
| `relay` | 2 relays, 2 events, batches of 2, 1 fault, 1 stall | `TypeOK`, `PublishedWasDelivered`, `ExclusiveUnlessStalled`, `AttemptsBounded`, `EventsSettle` |
| `projection` | 2 consumers, 1 balance request, 2 changes, 1 fault | `TypeOK`, `DeletedWasProjected`, `FreshUnlessOverlapped`, `Converges` |
| `breaker` | 3 callers, thresholds 3 and 2 as in bootstrap | `TypeOK`, `CountsOfThisPeriod`, `OpenForTimeout`, `ClosesAfterOutage`, `OpensInOutage` |
| `accounts` | 2 sessions, 2 accounts, 1 wallet, 4 postings, pages of 1 entry | `TypeOK`, `WalksComplete`, `WalksDescend`, `SoundWallets` |
| `capture_funds`, `capture_replay`, `charged_release` | the smallest request sets that show each finding | one property each, violated |

### Bounds

`MaxAmount` bounds what one entry moves on one account, `MaxTime` the clock, the
request set what may be sent. Nothing bounds how often a request is sent.

* Core: two sessions are enough for a check in one and a commit in the other between
  any two of its statements, and two wallets for transfers both ways and for two lock
  orders. Longer wait cycles are left to the proof (`NobodyWaitsInACycle`).
* The amounts are chosen so that each request is affordable alone and not all are
  together: the third spend must be refused.
* Time to 2 gives a hold that expires before, while and after a request runs: 1 is
  between the beginning of a transaction and its commit, and the second hold
  outlives the first.
* Saga: two attempts are enough for one to compensate what the other captures. `MaxCharges`
  2 is a repetition that charges again; an attempt that would go beyond it waits at the gateway until it is stopped. The life of a
  hold ends within `MaxTime`, so a checkout cannot begin at the last time.
* Expiration: three holds and batches of two, so that one hold waits for a second list; two of them expire at
  the same time. Every one of them can be the unreadable one.
* Relay: two replicas are enough for every overlap of two claims on one event; the second
  is the batch to go on with. `MaxRetries` 2 has a retry with backoff and the limit. One unit of
  time is the first backoff; the life of a claim is `Stale`, no shorter than the longest
  backoff, as in the code (one minute, 30 s). A crash, a lost update and a stall each
  happen in every position. A batch is as large as the table, so the run does not show an
  event that waits behind a batch full of events in backoff. With one relay, three events, `BatchSize`, `InitialDelay`,
  `MaxDelay` and `Stale` 2, one fault and no stall it can, and TLC finds `EventsSettle` to hold (235,083 states); with two relays
  that instance is too large.
* Projection: two changes, so that the older can overwrite the newer; two consumers and a balance request, so that
  any two saves can cross. `Instant` has enough times for every save of a behaviour, and 9 is followed by 11: between
  them is the time at which strings and times differ (below).
  With `MaxFaults` 1 a message can expire in the queue; the dead letters after `MaxReceives` need two.
* Breaker: three calls, so that two late results meet a breaker which a third has opened,
  and counts up to the real thresholds; `Timeout` 2 lets results arrive inside the open period.
* Accounts: pages of one entry, so that every entry is a page boundary; three entries of one account whose order of
  identifiers, of beginning and of commit are all different; debits that the credit covers one at a time.
* Deadlock checking is on everywhere but in `projection`, whose changes, times and reads are bounded and used up in the end.
* Sessions are interchangeable and `SYMMETRY` is used in safety runs only.

### Fairness

The core's `FairSpec` assumes that a session goes on while it can (weak fairness of `Run`: the Go
scheduler and PostgreSQL keep running statements that do not wait), that a
session waiting for a row gets it in the end if it is free again and again (strong
fairness of `Acquire`: PostgreSQL queues the waiters of a row, but each release
disables the others for a while, so weak fairness would not say it), and that one
transaction of a wait cycle is ended (weak fairness of `DeadlockVictim`: the
deadlock timer). Clients need not send anything, connections need not fail, and
time need not pass. `HoldExpiration` assumes the same of its sessions, and that a worker's ticker and loop go on.

The relays' `FairSpec` assumes weak fairness of `Step` for each relay (the ticker
of `Start` calls `ProcessBatch` for as long as the service runs, and a batch is a loop
without waits of its own) and of `Tick`. Faults and stalls are finite in number, so
that claims are sometimes left alone; SNS may refuse for ever.

The projection's assumes that the relay publishes what it owes, that a visibility timeout which nobody's work
can still beat ends, and that each consumer's loop receives and goes on.

The breaker's assumes that checkouts keep coming, that each call of the gateway returns,
and that time passes. That the gateway has recovered, or is down, is the premise of each
liveness property and not an assumption.

### Findings

Each is a run that must end in a violation, with the quoted line in
`PROJECT.json`.

1. `capture_funds`: `validateWalletBalances` counts the hold being captured
   against the capture (transaction_repository.go:513), so a hold can be captured only if the
   wallet has its amount a second time.
2. `capture_replay`: `Capture` takes a recorded key as a posting made for its
   hold (transaction_repository.go:245). With the key and body of another hold's
   capture the hold becomes captured and no money moves. `LedgerPromise` has this as `MarkCaptured`.
3. `charged_release`: the saga promises "Hold capture after successful gateway processing"
   (scope.md:27), but a capture that fails then releases the hold and nothing is given back
   (payment_saga.go:181). This needs no fault: the wallet of the run has just what it holds, no
   request is interrupted (`Uninterrupted`), and by 1 the capture is refused as `insufficient`.

### Other divergences

The models have these behaviours too; no run is about them alone. Where a property holds only
outside of one, its definition or its configuration says so.

* A capture into a wallet whose account sorts first locks in the opposite order to `Post`
  (hold_repository.go:270), against the comment above it. `progress` includes this: one transaction of the
  cycle is ended and every request is still answered. `funds`, which has `NoDeadlock`, captures into an account of no wallet.
* Withdrawals and transfers compare the balance before the key is looked up (withdraw.go:115,
  transfer.go:124), so the retry of one that emptied the wallet is refused. `RetriesReplayed` exempts this refusal and no other.
* The hash of a deposit leaves out the wallet in its URL (wallet_handler.go:823), so a deposit to another
  wallet with the same key is answered as a replay. The request sets give different wallets different hashes or keys.
* Of two identical postings between accounts of no wallet, which nothing serialises, the second can fail on
  the primary key (transaction_repository.go:121), and so can the second of two reversals of such a posting. `RetriesReplayed` is about requests that touch a wallet.
* A batch that takes longer than one minute loses its claims while its relay goes on publishing
  (outbox_repository.go:79), and a second relay claims the same events; the marks have no condition on the status
  (outbox_events.sql:62), so the slower of the two can turn a published event into a failed one. Exclusive claims are
  promised until the first stall (`ExclusiveUnlessStalled`); everything else about the relay holds with one. What it costs is duplicates.
* The item of a wallet can go back to an older balance (wallet_balance_repository.go:73): the condition compares the
  times of saving, and of two projections the one that read first may take its time last. `FreshUnlessOverlapped` and `Converges`
  hold until that has happened. A hold that changes after the last posting is not in the item either, as holds write no event.
* Two saves less than a second apart can be ordered the wrong way round, because RFC3339Nano leaves out trailing zeros
  (wallet_balance_repository.go:50): with `Instant = 9 .. 19` `FreshUnlessOverlapped` is violated.
* A wallet can be created on an account that is in debt, or while a debit that found no wallet is under way
  (create.go:27), and is then overdrawn. `SoundWallets` is about all others.

Because of 1 the passing runs give the wallets more than their holds; because of 2 `funds` captures each hold with a key of its own.

## 4. Proofs

### The core

Every invariant, every action property and the refinement that the passing runs check is proved; liveness is not. The theorems of the core hold for
every value of the constants that satisfies the assumptions in `Funds` and `WalletLedger` (accounts are naturals, wallets are accounts, the sets of identifiers and of
sessions are finite, commands are of the nine kinds, `None` is none of the other values).

| Theorem | Says |
|---|---|
| `TypeCorrect` | `Spec => [](TypeOK /\ Ready)` |
| `AppendOnly` | `LedgerAppendOnly` |
| `OutcomeFinal` | `HoldOutcomeFinal` |
| `KeysAndPostings` | `[]KeysNamePostings` |
| `EventsAndPostings` | `[]EventsMatchPostings` |
| `Solvency` | `[]SolventWallets` |
| `ChecksHold` | `[]ChecksStayValid` |
| `KeepsThePromise` | `KeepsPromise`: the core implements `LedgerPromise` |
| `BalancedEntries` | `[]EntriesBalanced` |
| `CancellingReversals` | `[]ReversalsCancel` |
| `HoldsPerKey` | `[]OneHoldPerKey`: one wallet and one idempotency key never have two holds |

`TypeOK` is not inductive: a session reads fields of its request and of its
draft that `TypeOK` says nothing of. `Ready` adds, for each statement, the kinds of
request that reach it, that the draft is a transaction, and for a capture that its hold exists.
`WritesOfAStep` then states once what a step can do to the tables: nothing, one
posting with its key and events, one new hold, or one status change of an authorized
hold. `AppendOnly`, `OutcomeFinal`, `KeysAndPostings` and `EventsAndPostings` follow from it without
going through the actions again.

`SolventWallets` is not inductive either: a state in which a session stands before its
insert with a draft nobody can pay for satisfies it. The inductive invariant is

    SolvencyInv == TypeOK /\ Ready /\ Locked /\ ChecksStayValid /\ SolventWallets

`ChecksStayValid` says that a check made under the locks is still right, now and not at
`began`. `Locked` says why: a session past its locks owns the row of every
wallet its draft touches, so no two sessions that may commit share a wallet. The
step that needs most care is the stale `NOW()`: the check used holds as of
`began`, and `LaterIsNoWorse` shows that fewer holds are active later. A step that
writes changes a wallet's spendable balance only if its session has the row, except
release and expiry, which only give back (`ClosingGivesBack`), and time, which does the
same. `CommitKeepsChecks` carries this to every other session's check.

In all of this totals are cardinalities, so that sums need no recursion and no induction:
`BlockAdded` counts one row more and `PostingMovesBalance` says that
committing `t` moves the balance of `a` by `Delta(t, a)`.

The refinement needs an invariant of its own,

    PromiseInv == SolvencyInv /\ Pledges

`Pledges` says what a session relies on when it goes on from an earlier read: that its draft is the entry its
request asks for and stays legal (`Accepted`), that no hold of its wallet has its key when it creates one, that
the record it found is of its own request, and that a hold it expires is due. `PledgesStep` keeps it, and `PromisedStep` shows
that every step of the core is a step of `LedgerPromise` or changes none of its variables, one case per action. `Covered` comes from `ChecksStayValid` before
the commit and solvency after it. The same invariant carries `BalancedEntries` and `CancellingReversals`: what is
inserted is the entry of the request, which its use case has validated, or whose original was no reversal and, by the unique
column, has no other.

Four properties of the runs do not hold for every set of requests (finding 2, and the divergences about the order of locks and the
hash of deposits), so
the theorems about them have an assumption on the requests, which is an `ASSUME` of the theorem and not of the module:

| Theorem | Assumes | Says |
|---|---|---|
| `CapturesPaid` | `HashesTell` | `[]CapturedOncePaid` |
| `AnswersLast` | `HashesTell` | `[]AnswersAreDurable` |
| `RepetitionsSucceed` | `HashesTell` | `RetriesReplayed` |
| `NobodyWaitsInACycle` | `SettlesOutside` | `[]NoDeadlock` |

`HashesTell` is what a hash is for: two postings that share key, hash and transaction are the same request, and two
authorizations of one wallet that share key and hash are of one amount. Both assumptions are in `Requests`. The requests of `funds` and `retries` meet them, as an `ASSUME` of
`MCWalletLedger` has TLC check; those of `capture_replay` and `progress` do not. The theorems say that this gap in the hashes is the only one: whatever else races, a
captured hold is paid for once and an answer stays true. `Origins` relates each idempotency record and each hold to
a request it was written for, so that a record found by a request is that request's own; `Answered` carries the answer from
the step that gives it to every later state.

`RepetitionsSucceed` goes through every statement at which a recorded request could still be refused. What its use case checks was
true when the original passed and cannot have changed, a capture finds its hold captured (`Paid`), both look-ups find the record, and
the statements after the second look-up are never reached: by `NotYetThere`, whatever stands there is not recorded, as a session that could
have recorded it since would need the wallet row that this one has. `HasItsHold` says the same of a hold's row, so a capture
never finds its key recorded and its hold open. The premise
is that the posting touches a wallet, whatever the operation: a post, or a reversal of one, between accounts of no wallet locks nothing, and
there the theorem is false.

`SettlesOutside` says that captures pay into accounts of no wallet. Then `LocksInOrder` is inductive: a session that waits for its first lock
owns nothing, a capture that has its hold needs no other wallet, and every other session owns only wallets that sort before
those it still needs. Along a wait cycle the wanted wallets would rise for ever (`NoEndlessRise`).

### The saga and the worker

`SagaRunsOnCore` and `WorkerRunsOnCore` are refinements: `SagaSpec => Spec` and `WorkerSpec => Spec`. A step of either is a step of
`WalletLedger` or leaves its variables alone, so whatever is proved of the core, solvency for one, holds while checkouts
crash and workers expire their holds.

| Theorem of `CoreClientsProofs` | Assumes | Says |
|---|---|---|
| `SagaRunsOnCore`, `WorkerRunsOnCore` | | the refinements |
| `SagaTypes` | | `[]SagaTypeOK` |
| `BoundedBatches` | | `[]BatchesBounded` |
| `PostedIsCharged` | `CheckoutsApart` | `[]PostedWasCharged` |
| `CompletedMeansPosted` | `CheckoutsApart` | `[]CompletedIsPosted` |
| `FailedMeansUnposted` | `CheckoutsApart` | `[]FailedStaysUnposted` |
| `RepetitionsEndEarly` | `CheckoutsApart` | `[]RepetitionsCallNobody` |

`CheckoutsApart` says that nobody uses the hold or the transaction of another checkout and no other request authorizes the
same body under the same key. `payment_handler.go` derives these identifiers from the key unless the client sends its own; a client who
sends somebody else's can have its capture answered by that posting, and the four properties fail. `MCPaymentSaga` states
`CheckoutsApart` as an `ASSUME`, so that TLC checks it of the requests of the run.

None of the four is inductive. An attempt decides on answers of calls it made earlier, while other attempts of the same checkout, the expiry
of its hold and its own earlier, interrupted life change the rows. The invariant is

    SagaInv == SagaTypeOK /\ CoreInv /\ Rows /\ \A p \in Session : Serving(p) /\ Came(p)

`CoreInv` is what the core guarantees below. `Rows` is about the rows that all attempts of a checkout share: one hold per key, a hold found
by its wallet, key and hash is that of the checkout (`HoldsOfCheckouts`), a posted checkout was captured and charged (`PostedCharged`), a captured
hold is posted (`CapturedPosted`). `Serving` ties the request in a session to the stage of its attempt. `Came`
lists what the attempt knows from the calls that have returned; each of these facts has to survive every step of the others,
which it does because a row changes its status once and a charge is never undone (`RowsLast`). The step that
needs most care is the return of a capture: it may have been answered from a record another attempt wrote, and
`KeysNamePostings` with `CheckoutsApart` makes that record the checkout's own. `FailedMeansUnposted` holds although
another attempt may be at its capture: the answer `failed` is given only after the release, and a released hold is never captured.

`BoundedBatches` rests on `FirstFew` in `Counting`: of a finite set in a strict total order, no more than `n`
elements have fewer than `n` before them.

### The relay

For every number of events, relays, faults and stalls, every limit, batch size and
delay with `MaxDelay <= Stale`:

| Theorem of `OutboxRelayProofs` | Says |
|---|---|
| `TypeCorrect` | `[]TypeOK` |
| `PublishedDelivered` | `[]PublishedWasDelivered` |
| `BoundedAttempts` | `[]AttemptsBounded` |
| `ExclusiveClaims` | `[]ExclusiveUnlessStalled` |

`TypeOK` needs to know that a row which somebody has claimed exists. `PublishedWasDelivered`
needs that an answer `accepted` in a relay's hand is of an event in `delivered`.
`AttemptsBounded` is inductive with the types: a fetch adds a claimant only to a row below
the limit, and the sum of retries and claimants can otherwise only stay or fall.
`ExclusiveUnlessStalled` rests on ages: before a stall, a row that is in a batch is `processing` and as old as that
batch, and no batch with events is older than `Stale`, so taking back stale claims misses
it and a fetch takes rows of no batch. A stall is what breaks this, and only a stall.

### The breaker

For every number of callers and every threshold and timeout, `CircuitBreakerProofs` has
`TypeCorrect`, `FreshCounts` (`[]CountsOfThisPeriod`) and `OpenPeriod` (`OpenForTimeout`). `TypeOK`
alone is not inductive, the two invariants together are.

### The projection

For any number of replicas, balance requests, changes, copies, receives and faults:

| Theorem of `ProjectionProofs` | Assumes | Says |
|---|---|---|
| `ProjectionTypes` | | `[]TypeOK` |
| `DeletedIsProjected` | | `[]DeletedWasProjected` |
| `ItemStaysFresh` | `TextsInOrder` | `[]FreshUnlessOverlapped` |

The types need to know that a message is received at least as often as any receipt of it says (`Messages`) and that a consumer at work holds
a receipt (`Work`). `DeletedIsProjected` adds that the consumer read the ledger at or after the change its message tells of.
For freshness, `Stamps` says that a process which saves has a time of its own, and `InOrder` that, until saves have overlapped, a later time
goes with a newer balance, between any two saves under way and between each of them and the item. Then the
conditional put can only replace an older balance or be refused by a newer one, in whatever order the puts arrive.

`TextsInOrder` says that the times of saves sort as texts the way they do as times. That is so while none of them ends in
zeros, which RFC3339Nano leaves out (the divergence above); without it the theorem is false.
`MCProjection` states it as an `ASSUME` for the times of the run.

### Accounts

For any accounts, wallets, postings, sessions and clients and every size of page:

| Theorem of `AccountsProofs` | Says |
|---|---|
| `AccountsTypes` | `[]TypeOK` |
| `WalksMissNothing` | `[]WalksComplete` |
| `WalksGoDown` | `[]WalksDescend` |
| `SoundStaySound` | `[]SoundWallets` |

A walk is complete because of `Walking`: all it has shown is its cursor or newer, and all it has still to show of what there was
is older. An entry that commits meanwhile cannot move either. `FirstAreAll` and `FirstComeFirst` in `Counting` say what a page is: either all that was
left, or the entries before one which becomes the cursor.

`SoundWallets` is inductive with `Payable`: whatever stands before its insert on the account of a sound wallet is a credit, if its session found no
wallet to lock, or was checked against a balance that is still there. `Alone` is why it is still there, as one session has the row of
an account's one wallet. A new wallet is sound only if no unguarded debit is under way, which is the premise that `Payable` needs.

### Only model-checked

* All liveness: `RequestsAnswered`, `DueHoldsEnd`, `EventsSettle`, `Converges`, `ClosesAfterOutage`, `OpensInOutage`. Liveness under fairness is outside the prover.

## 5. Not modelled

* int64 overflow of totals and deltas: `Money.Add` checks the totals of an entry, so that no delta of a validated entry
  leaves int64; a balance that would leave it turns negative and is refused, and PostgreSQL raises an error when a sum of postings
  leaves BIGINT. The models use unbounded integers.
* Currencies, names, owners and descriptions. An entry in one currency can be posted to an account of another, because no use case calls
  `CanReceivePosting` (account.go:78); a property for it would need totals per currency.
* The status of wallets and accounts: no operation of the API suspends or closes one.
* `WithdrawWalletUseCase`'s optional projector, which bootstrap never passes, and the direct event publisher, which is not wired.
* Reads without protocol: get a transaction, an account or a hold, list wallets or accounts.
* In the relay: payloads, `FetchPending` without a pool (a test set-up), a shutdown that
  cancels the calls of a batch one by one (`Crash` and `LoseUpdate` cover what it leaves).
* In the breaker: the callback on a change, which logs and sets a gauge; a call that panics. In the saga: the switches of the mocks for tests.
* Clocks of several replicas that disagree, and saves with the same time.
* Bootstrap and `cmd/api` (wiring and shutdown), configuration, observability, AWS and HTTP helpers, the generated SQL
  bindings (the modules translate the queries they are generated from), the load generator, the dashboard, deployment files: they
  have no protocol state of their own.

## 6. Running it

    tlc -workers 2 -config MCFunds.cfg MCWalletLedger
    tlc -workers 2 -config MCRelay.cfg OutboxRelay
    tlc -workers 2 -config MCProjection.cfg MCProjection
    tlapm CoreClientsProofs.tla

Each configuration names its constants and its properties; no run takes more than a
few minutes. The provers are Z3, Zenon and, for the temporal steps, LS4.
