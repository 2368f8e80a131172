-------------------------- MODULE CoreClientsProofs --------------------------
(***************************************************************************)
(* The payment saga and the expiration worker run on top of the core.      *)
(*                                                                         *)
(* Each of them is a behaviour of WalletLedger with variables of its own,  *)
(* so all that is proved of the core holds below them.  What the saga      *)
(* itself promises rests on how far an attempt came (Came), on the request *)
(* its session serves (Serving), and on the rows that all attempts of a    *)
(* checkout share.                                                         *)
(***************************************************************************)
EXTENDS PaymentSaga, HoldExpiration, LedgerPromiseProofs

-----------------------------------------------------------------------------
(* Sessions at work *)

\* A session that takes a step of its request is not idle, and goes on with the
\* request.
LEMMA WorkingSession ==
  ASSUME TypeOK, NEW p \in Session, Run(p) \/ Acquire(p) \/ DeadlockVictim(p) \/ Abort(p)
  PROVE  pc[p] # "idle" /\ UNCHANGED <<cmd, clock>>
<1>1. UNCHANGED <<cmd, clock>>
  BY EveryStepMoves DEF Moves, Answer, Draft, Goto
<1>2. ASSUME Run(p) PROVE pc[p] # "idle"
  BY <1>2 DEF Run, At, PostTransaction, DepositWallet, WithdrawWallet, TransferWallet,
       ReverseTransaction, CreateHold, CaptureHold, ReleaseHold, ExpireHold, BeginTx, LookupKey,
       RecheckKey, ValidateBalances, InsertTransaction, InsertCapture, MarkCaptured, FindHold,
       CheckFunds, CreateWalletHold
<1>3. ASSUME Acquire(p) PROVE pc[p] # "idle"
  BY <1>3 DEF Acquire, LockWalletByID, LockWalletAccount, LockHold, UpdateStatus
<1>4. ASSUME DeadlockVictim(p) PROVE pc[p] # "idle"
  <2>1. Blocker(p) \in Session
    BY <1>4 DEF DeadlockVictim, Deadlocked
  <2> QED
    BY <2>1, SessionAssumption DEF Blocker
<1> QED
  BY <1>1, <1>2, <1>3, <1>4 DEF Abort

\* Others stay where they are.
LEMMA OtherSessions ==
  ASSUME TypeOK, NEW p \in Session, Run(p) \/ Acquire(p) \/ DeadlockVictim(p) \/ Abort(p),
         NEW q \in Session, q # p
  PROVE  pc'[q] = pc[q] /\ reply'[q] = reply[q]
BY EveryStepMoves DEF Moves, Answer, Draft, Goto, TypeOK

-----------------------------------------------------------------------------
(* The saga runs on the core *)

\* A step of the saga is a step of the core.
LEMMA SagaStepOfCore ==
  ASSUME SagaTypeOK, [SagaNext]_allVars
  PROVE  [Next]_vars
<1> USE DEF SagaTypeOK, TypeOK
<1>1. CASE UNCHANGED allVars \/ (Tick /\ UNCHANGED sagaVars)
  BY <1>1 DEF allVars, Next
<1>2. ASSUME NEW p \in Session, NEW o \in Checkout, Begin(p, o)
      PROVE  Next
  BY <1>2, CheckoutAssumption DEF Begin, Call, Next
<1>3. ASSUME NEW p \in Session, NEW c \in Background, ServeOther(p, c)
      PROVE  Next
  BY <1>3, CheckoutAssumption DEF ServeOther, Next
<1>4. ASSUME NEW p \in Session, Advance(p)
      PROVE  [Next]_vars
  <2>1. stage[p] # "none" => order[p] \in Checkout
    OBVIOUS
  <2>2. order[p] \in Checkout =>
          CaptureFor(order[p]) \in Command /\ ReleaseFor(order[p]) \in Command
    BY CheckoutAssumption
  <2>3. ASSUME NEW a, Finish(p, a) PROVE UNCHANGED vars
    BY <2>3 DEF Finish
  <2>4. ASSUME stage[p] # "none", Compensate(p) PROVE Next
    BY <2>1, <2>2, <2>4 DEF Compensate, Call, Next
  <2>5. ASSUME stage[p] # "none", Call(p, "capture", CaptureFor(order[p])) PROVE Next
    BY <2>1, <2>2, <2>5 DEF Call, Next
  <2>6. CASE AuthorizationRefused(p) \/ ReplayCaptured(p) \/ CaptureDone(p) \/ Compensated(p)
    BY <2>3, <2>6 DEF AuthorizationRefused, ReplayCaptured, CaptureDone, Compensated
  <2>7. CASE EvaluateFraud(p)
    BY <2>4, <2>7 DEF EvaluateFraud, Succeeds, Returned
  <2>8. CASE CallGateway(p)
    BY <2>4, <2>5, <2>8 DEF CallGateway, Returned
  <2>9. CASE CaptureFailed(p)
    BY <2>4, <2>9 DEF CaptureFailed, Fails, Returned
  <2> QED
    BY <1>4, <2>6, <2>7, <2>8, <2>9 DEF Advance
<1>5. ASSUME NEW p \in Session, Serve(p) \/ Interrupt(p) PROVE Next
  BY <1>5 DEF Serve, Interrupt, Next
<1>6. ASSUME NEW p \in Session, Stop(p) PROVE UNCHANGED vars
  BY <1>6 DEF Stop, Finish
<1> QED
  BY <1>1, <1>2, <1>3, <1>4, <1>5, <1>6 DEF SagaNext

LEMMA SagaTypeStep ==
  ASSUME SagaTypeOK, Ready, [SagaNext]_allVars
  PROVE  SagaTypeOK' /\ Ready'
<1> USE DEF SagaTypeOK
<1>0. TypeOK' /\ Ready'
  BY SagaStepOfCore, TypeStep
<1>1. CASE UNCHANGED sagaVars
  BY <1>0, <1>1 DEF sagaVars
<1>2. ASSUME NEW p \in Session, NEW o \in Checkout, Begin(p, o)
      PROVE  SagaTypeOK'
  BY <1>0, <1>2, CheckoutAssumption DEF Begin, Call, Stage, CheckoutAnswer, HoldIs
<1>3. ASSUME NEW p \in Session, NEW a \in CheckoutAnswer, Finish(p, a)
      PROVE  SagaTypeOK'
  BY <1>0, <1>3 DEF Finish, Stage
<1>4. ASSUME NEW p \in Session, stage[p] # "none", NEW s \in Stage, stage' = [stage EXCEPT ![p] = s],
             UNCHANGED <<order, found, answer, repeats>>,
             \/ UNCHANGED charges
             \/ /\ charges[order[p].key] < MaxCharges
                /\ charges' = [charges EXCEPT ![order[p].key] = @ + 1]
      PROVE  SagaTypeOK'
  <2>1. charges' \in [Key -> 0 .. MaxCharges]
    <3>1. order[p] \in Checkout /\ order[p].key \in Key
      BY <1>4, CheckoutAssumption DEF CheckoutRequest
    <3>2. \A n \in 0 .. MaxCharges : n < MaxCharges => n + 1 \in 0 .. MaxCharges
      BY CheckoutAssumption
    <3>3. charges \in [Key -> 0 .. MaxCharges]
      OBVIOUS
    <3>4. charges[order[p].key] \in 0 .. MaxCharges
      BY <3>1, <3>3
    <3> QED
      BY <1>4, <3>1, <3>2, <3>3, <3>4
  <2> QED
    BY <1>0, <1>4, <2>1
<1>5. ASSUME NEW p \in Session, Compensate(p), stage[p] # "none",
             \/ UNCHANGED charges
             \/ /\ charges[order[p].key] < MaxCharges
                /\ charges' = [charges EXCEPT ![order[p].key] = @ + 1]
      PROVE  SagaTypeOK'
  BY <1>4, <1>5 DEF Compensate, Call, Stage
<1>6. ASSUME NEW p \in Session, Advance(p)
      PROVE  SagaTypeOK'
  <2>1. CASE AuthorizationRefused(p) \/ ReplayCaptured(p) \/ CaptureDone(p) \/ Compensated(p)
    BY <1>3, <2>1 DEF AuthorizationRefused, ReplayCaptured, CaptureDone, Compensated, CheckoutAnswer
  <2>2. CASE EvaluateFraud(p)
    BY <1>4, <1>5, <2>2 DEF EvaluateFraud, Succeeds, Returned, Stage
  <2>3. CASE CallGateway(p)
    BY <1>4, <1>5, <2>3 DEF CallGateway, Returned, Call, Stage
  <2>4. CASE CaptureFailed(p)
    BY <1>5, <2>4 DEF CaptureFailed, Fails, Returned
  <2> QED
    BY <1>6, <2>1, <2>2, <2>3, <2>4 DEF Advance
<1>7. ASSUME NEW p \in Session, Serve(p) PROVE SagaTypeOK'
  <2>1. found' \in [Session -> HoldStatus \cup {None}]
    <3>1. SameKey(cmd[p]) # {} => holds[CHOOSE h \in SameKey(cmd[p]) : TRUE].status \in HoldStatus
      <4>1. SameKey(cmd[p]) # {} => (CHOOSE h \in SameKey(cmd[p]) : TRUE) \in SameKey(cmd[p])
        OBVIOUS
      <4> QED
        BY <4>1 DEF SameKey, TypeOK, HoldRow
    <3> QED
      BY <1>7, <3>1 DEF Serve, Remember, HoldStatus
  <2> QED
    BY <1>0, <1>7, <2>1 DEF Serve
<1>8. ASSUME NEW p \in Session, Stop(p) PROVE SagaTypeOK'
  BY <1>3, <1>8 DEF Stop, CheckoutAnswer
<1> QED
  BY <1>0, <1>1, <1>2, <1>6, <1>7, <1>8 DEF SagaNext, allVars, ServeOther, Interrupt

LEMMA SagaTypeInit == SagaInit => SagaTypeOK /\ Ready
BY TypeInit, CheckoutAssumption DEF SagaInit, SagaTypeOK, Stage, CheckoutAnswer

\* Types of the saga's variables, and that a session serving a checkout has it.
THEOREM SagaTypes == SagaSpec => []SagaTypeOK
<1>1. SagaTypeOK /\ Ready /\ [SagaNext]_allVars => (SagaTypeOK /\ Ready)'
  BY SagaTypeStep
<1> QED
  BY <1>1, SagaTypeInit, PTL DEF SagaSpec

\* Below the saga the core does what it does for any other client, so what is proved
\* of Spec holds of SagaSpec.
THEOREM SagaRunsOnCore == SagaSpec => Spec
<1>1. SagaInit => Init
  BY DEF SagaInit
<1>2. SagaTypeOK /\ [SagaNext]_allVars => [Next]_vars
  BY SagaStepOfCore
<1> QED
  BY <1>1, <1>2, SagaTypes, PTL DEF SagaSpec, Spec

-----------------------------------------------------------------------------
(* The expiration worker *)

WorkerInv ==
  /\ TypeOK /\ Ready
  /\ batch \in [Worker -> SUBSET HoldId]
  /\ BatchesBounded

\* What the query lists are the first of the holds that are due.
LEMMA FirstDueBounded ==
  ASSUME TypeOK
  PROVE  /\ FirstDue \subseteq HoldId
         /\ IsFiniteSet(FirstDue) /\ Cardinality(FirstDue) <= BatchSize
         /\ \A h \in FirstDue : holds[h] # None
<1> DEFINE D == {h \in HoldId : Due(h)}
           R == {x \in D \X D : Before(x[1], x[2])}
<1>1. IsFiniteSet(D)
  BY FiniteAssumption, FS_Subset
<1>2. \A h \in D : h \in HoldId /\ holds[h].expires \in Nat /\ Rank[h] \in Nat
  BY WorkerAssumption DEF Due, TypeOK, HoldRow, Time
<1>3. \A x, y \in D : <<x, y>> \in R <=> Before(x, y)
  OBVIOUS
<1>4. \A x \in D : <<x, x>> \notin R
  BY <1>2, <1>3 DEF Before
<1>5. \A x, y \in D : x = y \/ <<x, y>> \in R \/ <<y, x>> \in R
  <2> HIDE DEF D, R
  <2>1. ASSUME NEW x \in D, NEW y \in D, x # y PROVE Before(x, y) \/ Before(y, x)
    <3>1. Rank[x] # Rank[y]
      BY <1>2, <2>1, WorkerAssumption
    <3> QED
      BY <1>2, <3>1 DEF Before
  <2> QED
    BY <1>3, <2>1
<1>6. \A x, y, z \in D : <<x, y>> \in R /\ <<y, z>> \in R => <<x, z>> \in R
  BY <1>2, <1>3 DEF Before
<1>7. BatchSize \in Nat
  BY WorkerAssumption
<1>8. FirstDue = FirstOf(D, R, BatchSize)
  <2>1. ASSUME NEW h \in D
        PROVE  {g \in HoldId : Due(g) /\ Before(g, h)} = BeforeIn(D, R, h)
    BY DEF BeforeIn
  <2> QED
    BY <2>1 DEF FirstDue, FirstOf
<1>9. IsFiniteSet(FirstOf(D, R, BatchSize)) /\ Cardinality(FirstOf(D, R, BatchSize)) <= BatchSize
  <2> HIDE DEF D, R
  <2> QED
    BY <1>1, <1>4, <1>5, <1>6, <1>7, FirstFew
<1> QED
  BY <1>8, <1>9 DEF FirstDue, Due

\* A step of a worker leaves the core alone, begins a request or is a step of it.
LEMMA WorkerStepOfCore ==
  ASSUME batch \in [Worker -> SUBSET HoldId], [WorkerNext]_expirationVars
  PROVE  [Next]_vars
<1>1. ASSUME NEW w \in Worker, ListExpiredHolds(w) PROVE UNCHANGED vars
  BY <1>1 DEF ListExpiredHolds
<1>2. ASSUME NEW w \in Worker, ExpireNext(w) PROVE Next
  <2>1. PICK h \in batch[w] : Submit(w, ExpiryOf(h))
    BY <1>2 DEF ExpireNext
  <2>2. w \in Session /\ ExpiryOf(h) \in Command
    BY WorkerAssumption
  <2> QED
    BY <2>1, <2>2 DEF Next
<1>3. ASSUME NEW p \in Session \ Worker, NEW c \in ClientRequest, Submit(p, c) PROVE Next
  BY <1>3, WorkerAssumption DEF Next
<1>4. ASSUME NEW p \in Session, Run(p) \/ Acquire(p) \/ DeadlockVictim(p) \/ FailOrStop(p)
      PROVE  Next
  BY <1>4 DEF FailOrStop, Next
<1> QED
  BY <1>1, <1>2, <1>3, <1>4 DEF WorkerNext, expirationVars, Next

\* Batches come from the query and only get smaller; holds are never removed.
LEMMA WorkerStep ==
  ASSUME WorkerInv, [WorkerNext]_expirationVars
  PROVE  WorkerInv'
<1> USE DEF WorkerInv
<1>0. [Next]_vars /\ TypeOK' /\ Ready'
  BY WorkerStepOfCore, TypeStep
<1>1. \A h \in HoldId : holds[h] # None => holds'[h] # None
  BY <1>0, StepKeepsHolds
<1>2. \A w \in Worker : IsFiniteSet(batch[w])
  BY FiniteAssumption, FS_Subset
<1>3. CASE UNCHANGED batch
  BY <1>0, <1>1, <1>3 DEF BatchesBounded
<1>4. ASSUME NEW w \in Worker, NEW B \in SUBSET HoldId, batch' = [batch EXCEPT ![w] = B],
             Cardinality(B) <= BatchSize, \A h \in B : holds'[h] # None
      PROVE  WorkerInv'
  BY <1>0, <1>1, <1>4 DEF BatchesBounded
<1>5. ASSUME NEW w \in Worker, NEW B, B \subseteq batch[w], batch' = [batch EXCEPT ![w] = B]
      PROVE  WorkerInv'
  <2>1. Cardinality(B) <= Cardinality(batch[w]) /\ Cardinality(batch[w]) <= BatchSize
    BY <1>2, <1>5, FS_Subset DEF BatchesBounded
  <2>2. Cardinality(B) \in Nat /\ Cardinality(batch[w]) \in Nat
    BY <1>2, <1>5, FS_Subset, FS_CardinalityType
  <2>3. Cardinality(B) <= BatchSize
    BY <2>1, <2>2, WorkerAssumption
  <2> QED
    BY <1>1, <1>4, <1>5, <2>3 DEF BatchesBounded
<1>6. ASSUME NEW w \in Worker, ListExpiredHolds(w) PROVE WorkerInv'
  <2>1. \A h \in FirstDue : holds'[h] # None
    BY <1>1, FirstDueBounded
  <2> QED
    BY <1>4, <1>6, <2>1, FirstDueBounded DEF ListExpiredHolds
<1>7. ASSUME NEW w \in Worker, ExpireNext(w) PROVE WorkerInv'
  <2>1. PICK h \in batch[w] : batch' = [batch EXCEPT ![w] = @ \ {h}]
    BY <1>7 DEF ExpireNext
  <2> QED
    BY <1>5, <2>1
<1>8. ASSUME NEW p \in Session, FailOrStop(p) PROVE WorkerInv'
  BY <1>3, <1>5, <1>8 DEF FailOrStop
<1> QED
  BY <1>3, <1>6, <1>7, <1>8 DEF WorkerNext, expirationVars, workerVars

LEMMA WorkerInit0 == WorkerInit => WorkerInv
BY TypeInit, FS_EmptySet, WorkerAssumption DEF WorkerInit, WorkerInv, BatchesBounded

\* A worker never has more holds to expire than it lists at a time, and all of them
\* exist, whatever clients, other workers and failures do to them meanwhile.
THEOREM BoundedBatches == WorkerSpec => []BatchesBounded
<1>1. WorkerInv => BatchesBounded
  BY DEF WorkerInv
<1> QED
  BY <1>1, WorkerInit0, WorkerStep, PTL DEF WorkerSpec

\* The worker only sends requests: what is proved of Spec holds of WorkerSpec.
THEOREM WorkerRunsOnCore == WorkerSpec => Spec
<1>1. WorkerInit => Init
  BY DEF WorkerInit
<1>2. WorkerInv /\ [WorkerNext]_expirationVars => [Next]_vars
  BY WorkerStepOfCore DEF WorkerInv
<1> QED
  BY <1>1, <1>2, WorkerInit0, WorkerStep, PTL DEF WorkerSpec, Spec

-----------------------------------------------------------------------------
(* The rows that the attempts of a checkout share *)

\* Hold h was authorized for checkout o.
BelongsTo(h, o) ==
  /\ holds[h] # None
  /\ holds[h].wallet = o.wallet /\ holds[h].amount = o.amount
  /\ holds[h].key = o.key /\ holds[h].hash = o.hash

\* The core's replay of an authorization finds the hold of that checkout only.
HoldsOfCheckouts ==
  \A h \in HoldId, o \in Checkout :
    /\ holds[h] # None
    /\ holds[h].wallet = o.wallet /\ holds[h].key = o.key /\ holds[h].hash = o.hash
    => h = o.hold /\ holds[h].amount = o.amount

\* The transaction of a checkout was posted by the capture of one of those that
\* share its identifiers, and that one was paid.
PostedCharged ==
  \A o \in Checkout : Posted(o) => \E b \in Checkout :
    /\ b.txn = o.txn
    /\ BelongsTo(b.hold, b) /\ holds[b.hold].status = "captured"
    /\ posted[o.txn] = TwoLeg(b.wallet, b.settle, b.amount, b.hold)
    /\ charges[b.key] > 0

CapturedPosted == \A o \in Checkout : HoldIs(o.hold, "captured") => Posted(o)

\* The request that session p serves is that of its stage.
Serving(p) ==
  /\ stage[p] = "none" /\ pc[p] # "idle" => cmd[p] \in Background
  /\ stage[p] = "gateway" => pc[p] = "idle"
  /\ stage[p] = "authorize" => \E t \in Time : cmd[p] = AuthorizeFor(order[p], t)
  /\ stage[p] = "capture" => cmd[p] = CaptureFor(order[p])
  /\ stage[p] = "release" => cmd[p] = ReleaseFor(order[p])

\* What an attempt knows from the calls it has made.
Came(p) ==
  /\ Succeeds(p, "authorize") =>
       /\ BelongsTo(order[p].hold, order[p])
       /\ found[p] = "captured" => HoldIs(order[p].hold, "captured")
       /\ repeats[p] => found[p] = "captured"
  /\ repeats[p] =>
       /\ stage[p] \in {"none", "authorize"}
       /\ stage[p] = "authorize" => HoldIs(order[p].hold, "captured")
  /\ stage[p] \in {"gateway", "capture"} => BelongsTo(order[p].hold, order[p])
  /\ stage[p] = "capture" => charges[order[p].key] > 0
  /\ Succeeds(p, "capture") => Posted(order[p])
  /\ Succeeds(p, "release") => HoldIs(order[p].hold, "released")
  /\ answer[p] # "none" => order[p] # None
  /\ answer[p] = "completed" => Posted(order[p]) /\ BelongsTo(order[p].hold, order[p])
  /\ answer[p] = "failed" => HoldIs(order[p].hold, "released")

Rows == OneHoldPerKey /\ HoldsOfCheckouts /\ PostedCharged /\ CapturedPosted

CoreInv == PromiseInv /\ KeysNamePostings

SagaInv == SagaTypeOK /\ CoreInv /\ Rows /\ \A p \in Session : Serving(p) /\ Came(p)

\* The fields of a checkout.
LEMMA CheckoutFields ==
  ASSUME NEW o \in Checkout
  PROVE  /\ o.key \in Key /\ o.hash \in Hash /\ o.hold \in HoldId /\ o.txn \in TxnId
         /\ o.wallet \in Wallet /\ o.amount \in Unit /\ o # None
BY CheckoutAssumption DEF CheckoutRequest

\* Only the captures of its own attempts post the transaction of a checkout and
\* capture its hold, and only its authorizations create the hold.
LEMMA OwnCalls ==
  ASSUME CheckoutsApart, SagaInv, NEW p \in Session, pc[p] # "idle", NEW o \in Checkout
  PROVE  /\ cmd[p].op \in PostingOp /\ cmd[p].txn = o.txn =>
              /\ order[p] \in Checkout /\ stage[p] = "capture"
              /\ cmd[p] = CaptureFor(order[p]) /\ order[p].txn = o.txn
         /\ cmd[p].op = "capture" /\ cmd[p].hold = o.hold =>
              /\ order[p] \in Checkout /\ stage[p] = "capture"
              /\ cmd[p] = CaptureFor(order[p]) /\ order[p].txn = o.txn
         /\ /\ cmd[p].op = "authorize" /\ cmd[p].wallet = o.wallet
            /\ cmd[p].key = o.key /\ cmd[p].hash = o.hash
            => cmd[p].hold = o.hold /\ cmd[p].amount = o.amount
<1>1. Serving(p) /\ stage[p] \in Stage /\ (stage[p] # "none" => order[p] \in Checkout)
  BY DEF SagaInv, SagaTypeOK
<1>2. CASE stage[p] = "none"
  BY <1>1, <1>2 DEF Serving, CheckoutsApart
<1>3. CASE stage[p] = "authorize"
  <2>1. PICK t \in Time : cmd[p] = AuthorizeFor(order[p], t)
    BY <1>1, <1>3 DEF Serving
  <2>2. /\ cmd[p].op = "authorize" /\ cmd[p].key = order[p].key /\ cmd[p].hash = order[p].hash
        /\ cmd[p].hold = order[p].hold /\ cmd[p].amount = order[p].amount
    BY <2>1 DEF AuthorizeFor
  <2>3. cmd[p].key = o.key /\ cmd[p].hash = o.hash => order[p] = o
    BY <1>1, <1>3, <2>2, CheckoutAssumption
  <2> QED
    BY <2>2, <2>3 DEF PostingOp
<1>4. CASE stage[p] = "capture"
  <2>1. cmd[p] = CaptureFor(order[p]) /\ order[p] \in Checkout
    BY <1>1, <1>4 DEF Serving
  <2>2. cmd[p].op = "capture" /\ cmd[p].txn = order[p].txn /\ cmd[p].hold = order[p].hold
    BY <2>1 DEF CaptureFor
  <2>3. cmd[p].hold = o.hold => order[p].txn = o.txn
    BY <2>1, <2>2 DEF CheckoutsApart
  <2> QED
    BY <1>4, <2>1, <2>2, <2>3
<1>5. CASE stage[p] = "release"
  BY <1>1, <1>5 DEF Serving, ReleaseFor, PostingOp
<1> QED
  BY <1>1, <1>2, <1>3, <1>4, <1>5 DEF Stage, Serving

-----------------------------------------------------------------------------
(* What lasts *)

LEMMA SagaCore ==
  ASSUME SagaInv, [SagaNext]_allVars
  PROVE  /\ [Next]_vars /\ TypeOK /\ Ready /\ TypeOK' /\ Ready' /\ SagaTypeOK /\ SagaTypeOK'
         /\ PromiseInv' /\ OneHoldPerKey'
<1> USE DEF SagaInv, CoreInv, Rows
<1>1. [Next]_vars /\ TypeOK /\ Ready
  BY SagaStepOfCore DEF PromiseInv, SolvencyInv
<1> QED
  BY <1>1, SagaTypeStep, SolvencyStep, PledgesStep, OneHoldStep DEF SagaTypeOK, PromiseInv, SolvencyInv

\* The hold of a checkout stays its hold and what it became, its transaction stays
\* posted, and payments are not taken back.
LEMMA RowsLast ==
  ASSUME SagaInv, [SagaNext]_allVars, NEW o \in Checkout
  PROVE  /\ BelongsTo(o.hold, o) => BelongsTo(o.hold, o)'
         /\ \A st \in HoldStatus \ {"authorized"} :
              HoldIs(o.hold, st) => HoldIs(o.hold, st)' /\ holds'[o.hold] = holds[o.hold]
         /\ Posted(o) => Posted(o)' /\ posted'[o.txn] = posted[o.txn]
         /\ charges[o.key] > 0 => charges'[o.key] > 0
<1>1. [Next]_vars /\ TypeOK /\ Ready
  BY SagaCore
<1>2. BelongsTo(o.hold, o) => BelongsTo(o.hold, o)'
  BY <1>1, TermsKept, CheckoutFields DEF BelongsTo
<1>3. ASSUME NEW st \in HoldStatus \ {"authorized"}, HoldIs(o.hold, st)
      PROVE  HoldIs(o.hold, st)' /\ holds'[o.hold] = holds[o.hold]
  BY <1>1, <1>3, StepKeepsHolds, CheckoutFields DEF HoldIs
<1>4. Posted(o) => Posted(o)' /\ posted'[o.txn] = posted[o.txn]
  BY <1>1, StepAppends, CheckoutFields DEF Posted
<1>5. charges[o.key] > 0 => charges'[o.key] > 0
  <2>1. charges \in [Key -> 0 .. MaxCharges] /\ o.key \in Key
    BY CheckoutFields DEF SagaInv, SagaTypeOK
  <2>2. CASE UNCHANGED charges
    BY <2>2
  <2>3. CASE \E k : charges' = [charges EXCEPT ![k] = @ + 1]
    BY <2>1, <2>3
  <2>4. ASSUME NEW p \in Session, Advance(p)
        PROVE  UNCHANGED charges \/ \E k : charges' = [charges EXCEPT ![k] = @ + 1]
    BY <2>4 DEF Advance, AuthorizationRefused, ReplayCaptured, EvaluateFraud, CallGateway,
         CaptureDone, CaptureFailed, Compensated, Finish
  <2> QED
    BY <2>2, <2>3, <2>4 DEF SagaNext, allVars, sagaVars, Begin, ServeOther, Serve, Interrupt, Stop, Finish
<1> QED
  BY <1>2, <1>3, <1>4, <1>5

\* The steps that write rows are those of a request being served.
Writes(p) ==
  \/ InsertTransaction(p) \/ InsertCapture(p) \/ MarkCaptured(p)
  \/ CreateWalletHold(p) \/ UpdateStatus(p)

LEMMA SagaWrites ==
  ASSUME SagaInv, [SagaNext]_allVars
  PROVE  UNCHANGED db \/ \E p \in Session : Serve(p) /\ Writes(p)
<1>1. ASSUME NEW p \in Session, NEW c, Submit(p, c) PROVE UNCHANGED db
  BY <1>1 DEF Submit
<1>2. ASSUME UNCHANGED vars PROVE UNCHANGED db
  BY <1>2 DEF vars, db
<1>3. ASSUME NEW p \in Session, Advance(p) PROVE UNCHANGED db
  <2>0. ASSUME NEW a, Finish(p, a) PROVE UNCHANGED db
    BY <1>2, <2>0 DEF Finish
  <2>1. ASSUME Compensate(p) PROVE UNCHANGED db
    BY <1>1, <2>1 DEF Compensate, Call
  <2>2. CASE AuthorizationRefused(p) \/ ReplayCaptured(p) \/ CaptureDone(p) \/ Compensated(p)
    BY <2>0, <2>2 DEF AuthorizationRefused, ReplayCaptured, CaptureDone, Compensated
  <2>3. CASE EvaluateFraud(p) \/ CaptureFailed(p)
    BY <1>2, <2>1, <2>3 DEF EvaluateFraud, CaptureFailed
  <2>4. CASE CallGateway(p)
    BY <1>1, <2>1, <2>4 DEF CallGateway, Call
  <2> QED
    BY <1>3, <2>2, <2>3, <2>4 DEF Advance
<1>4. ASSUME NEW p \in Session, Serve(p) PROVE UNCHANGED db \/ Writes(p)
  BY <1>4, ReadsWriteNothing DEF Serve, Writes, Reads, Run, Acquire
<1>5. ASSUME NEW p \in Session, Interrupt(p) PROVE UNCHANGED db
  BY <1>5, ReadsWriteNothing DEF Interrupt, Reads
<1> QED
  BY <1>1, <1>2, <1>3, <1>4, <1>5
     DEF SagaNext, allVars, Begin, Call, ServeOther, Tick, Stop, Finish

\* What the capture of a request writes.
LEMMA CaptureWrites ==
  ASSUME TypeOK, Ready, NEW p \in Session, InsertCapture(p) \/ MarkCaptured(p)
  PROVE  /\ pc[p] \in {"insert", "mark"} /\ cmd[p].op = "capture"
         /\ cmd[p].hold \in HoldId /\ cmd[p].txn \in TxnId /\ holds[cmd[p].hold] # None
         /\ \/ UNCHANGED db
            \/ /\ holds' = SetStatus(cmd[p].hold, "captured")
               /\ pc[p] = "insert" => posted' = [posted EXCEPT ![cmd[p].txn] = draft[p]]
               /\ pc[p] = "mark" => posted' = posted
<1>1. /\ pc[p] \in {"insert", "mark"}
      /\ InsertCapture(p) => pc[p] = "insert" /\ cmd[p].op = "capture"
      /\ MarkCaptured(p) => pc[p] = "mark"
  BY DEF InsertCapture, MarkCaptured, At
<1>2. ReadyAt(pc[p], cmd[p], draft[p])
  BY DEF Ready
<1>3. cmd[p].op = "capture" /\ cmd[p] \in Command /\ holds[cmd[p].hold] # None
  BY <1>1, <1>2 DEF ReadyAt, PostingOp
<1>4. cmd[p].hold \in HoldId /\ cmd[p].txn \in TxnId
  BY <1>3, CommandFields DEF PostingOp
<1>5. CASE InsertCapture(p)
  BY <1>1, <1>3, <1>4, <1>5 DEF InsertCapture, Fail, WriteTransaction
<1>6. CASE MarkCaptured(p)
  BY <1>1, <1>3, <1>4, <1>6 DEF MarkCaptured, Fail
<1> QED
  BY <1>5, <1>6

LEMMA HoldsOfCheckoutsStep ==
  ASSUME CheckoutsApart, SagaInv, [SagaNext]_allVars
  PROVE  HoldsOfCheckouts'
<1> SUFFICES ASSUME NEW h \in HoldId, NEW o \in Checkout, holds'[h] # None,
                    holds'[h].wallet = o.wallet, holds'[h].key = o.key, holds'[h].hash = o.hash
             PROVE  h = o.hold /\ holds'[h].amount = o.amount
  BY DEF HoldsOfCheckouts
<1>1. [Next]_vars /\ TypeOK /\ Ready
  BY SagaCore
<1>2. CASE holds[h] # None
  BY <1>1, <1>2, TermsKept DEF SagaInv, Rows, HoldsOfCheckouts
<1>3. CASE holds[h] = None
  <2>1. ~UNCHANGED db
    BY <1>3 DEF db
  <2>2. ~\E g \in HoldId : holds[g] # None /\ \E st : holds' = SetStatus(g, st)
    BY <1>1, <1>3 DEF SetStatus, TypeOK
  <2>3. PICK p \in Session, g \in HoldId, row \in HoldRow :
          /\ pc[p] = "create" /\ AskedOf(p, g, row) /\ holds' = [holds EXCEPT ![g] = row]
    BY <1>1, <1>3, <2>1, <2>2, WritesOfAStep
  <2>4. g = h /\ holds'[h] = row
    BY <1>1, <1>3, <2>3 DEF TypeOK
  <2>5. cmd[p].op = "authorize" /\ pc[p] # "idle"
    BY <1>1, <2>3 DEF Ready, ReadyAt
  <2>6. /\ cmd[p].hold = h /\ cmd[p].amount = holds'[h].amount
        /\ cmd[p].wallet = o.wallet /\ cmd[p].key = o.key /\ cmd[p].hash = o.hash
    BY <2>3, <2>4 DEF AskedOf
  <2> QED
    BY <2>5, <2>6, OwnCalls
<1> QED
  BY <1>2, <1>3

LEMMA CapturedPostedStep ==
  ASSUME CheckoutsApart, SagaInv, [SagaNext]_allVars
  PROVE  CapturedPosted'
<1> SUFFICES ASSUME NEW o \in Checkout, HoldIs(o.hold, "captured")'
             PROVE  Posted(o)'
  BY DEF CapturedPosted
<1>1. /\ [Next]_vars /\ TypeOK /\ Ready /\ TypeOK' /\ Pledges /\ KeysNamePostings
  BY SagaCore DEF SagaInv, CoreInv, PromiseInv
<1>0. o.hold \in HoldId /\ o.txn \in TxnId
  BY CheckoutFields
<1>2. CASE HoldIs(o.hold, "captured")
  BY <1>2, RowsLast DEF SagaInv, Rows, CapturedPosted
<1>3. CASE ~HoldIs(o.hold, "captured")
  <2>1. PICK p \in Session : Writes(p) /\ Serve(p)
    <3>1. ~UNCHANGED db
      BY <1>3 DEF HoldIs, db
    <3> QED
      BY <3>1, SagaWrites
  <2>2. ~(CreateWalletHold(p) \/ UpdateStatus(p) \/ InsertTransaction(p))
    <3>1. ASSUME CreateWalletHold(p) PROVE FALSE
      BY <1>0, <1>1, <1>3, <3>1 DEF CreateWalletHold, Fail, db, HoldIs, TypeOK
    <3>2. ASSUME UpdateStatus(p) PROVE FALSE
      <4>1. ReadyAt(pc[p], cmd[p], draft[p]) /\ pc[p] = "update"
        BY <1>1, <3>2 DEF Ready, UpdateStatus
      <4>2. cmd[p].hold \in HoldId /\ holds[cmd[p].hold] # None /\ cmd[p].op \in {"release", "expire"}
        BY <4>1, CommandFields DEF ReadyAt
      <4>3. holds[cmd[p].hold] \in HoldRow
        BY <1>1, <4>2 DEF TypeOK
      <4> QED
        BY <1>0, <1>1, <1>3, <3>2, <4>2, <4>3 DEF UpdateStatus, Fail, db, HoldIs, TypeOK, SetStatus, HoldRow
    <3>3. ASSUME InsertTransaction(p) PROVE FALSE
      BY <1>3, <3>3 DEF InsertTransaction, Fail, db, HoldIs
    <3> QED
      BY <3>1, <3>2, <3>3
  <2>3. InsertCapture(p) \/ MarkCaptured(p)
    BY <2>1, <2>2 DEF Writes
  <2>4. /\ pc[p] \in {"insert", "mark"} /\ cmd[p].op = "capture"
        /\ cmd[p].hold \in HoldId /\ cmd[p].txn \in TxnId
        /\ holds' = SetStatus(cmd[p].hold, "captured")
        /\ pc[p] = "insert" => posted' = [posted EXCEPT ![cmd[p].txn] = draft[p]]
        /\ pc[p] = "mark" => posted' = posted
    <3>1. ~UNCHANGED db
      BY <1>3 DEF HoldIs, db
    <3> QED
      BY <1>1, <2>3, <3>1, CaptureWrites
  <2>5. cmd[p].hold = o.hold
    BY <1>0, <1>1, <1>3, <2>4 DEF SetStatus, HoldIs, TypeOK
  <2>6. cmd[p].txn = o.txn
    <3>1. pc[p] # "idle"
      BY <2>4
    <3>2. cmd[p] = CaptureFor(order[p]) /\ order[p].txn = o.txn
      BY <2>4, <2>5, <3>1, OwnCalls
    <3> QED
      BY <3>2 DEF CaptureFor
  <2>7. CASE pc[p] = "insert"
    <3>1. draft[p] \in Transaction
      BY <1>1, <2>4, <2>7 DEF Ready, ReadyAt, PostingOp
    <3> QED
      BY <1>1, <2>4, <2>6, <2>7, <3>1, NoneAssumption DEF TypeOK, Posted
  <2>8. CASE pc[p] = "mark"
    <3>1. ReadyAt("mark", cmd[p], draft[p]) /\ Pledged(p)
      BY <1>1, <2>8 DEF Ready, Pledges
    <3>2. /\ cmd[p].key \in Key /\ cmd[p].hash \in Hash
          /\ keys[cmd[p].key] = [hash |-> cmd[p].hash, txn |-> cmd[p].txn]
      BY <2>4, <2>8, <3>1, CommandFields DEF ReadyAt, Pledged, PostingOp
    <3>3. [hash |-> cmd[p].hash, txn |-> cmd[p].txn] \in KeyRow
      BY <2>4, <3>2 DEF KeyRow
    <3>4. keys[cmd[p].key] # None /\ keys[cmd[p].key].txn = o.txn
      BY <2>6, <3>2, <3>3, NoneAssumption
    <3>5. posted[o.txn] # None
      BY <1>1, <3>2, <3>4 DEF KeysNamePostings
    <3> QED
      BY <2>4, <2>8, <3>5 DEF Posted
  <2> QED
    BY <2>4, <2>7, <2>8
<1> QED
  BY <1>2, <1>3

LEMMA PostedChargedStep ==
  ASSUME CheckoutsApart, SagaInv, [SagaNext]_allVars
  PROVE  PostedCharged'
<1> DEFINE Witness(o, b) ==
             /\ b.txn = o.txn
             /\ BelongsTo(b.hold, b) /\ holds[b.hold].status = "captured"
             /\ posted[o.txn] = TwoLeg(b.wallet, b.settle, b.amount, b.hold)
             /\ charges[b.key] > 0
<1> SUFFICES ASSUME NEW o \in Checkout, Posted(o)'
             PROVE  \E b \in Checkout : Witness(o, b)'
  BY DEF PostedCharged
<1>1. /\ [Next]_vars /\ TypeOK /\ Ready /\ TypeOK' /\ Pledges
  BY SagaCore DEF SagaInv, CoreInv, PromiseInv
<1>0. o.hold \in HoldId /\ o.txn \in TxnId
  BY CheckoutFields
<1>2. CASE Posted(o)
  <2>1. PICK b \in Checkout : Witness(o, b)
    BY <1>2 DEF SagaInv, Rows, PostedCharged
  <2>2. posted'[o.txn] = posted[o.txn]
    BY <1>2, RowsLast
  <2>3. HoldIs(b.hold, "captured")
    BY <2>1 DEF HoldIs, BelongsTo
  <2>4. BelongsTo(b.hold, b)' /\ holds'[b.hold] = holds[b.hold] /\ charges'[b.key] > 0
    BY <2>1, <2>3, RowsLast DEF HoldStatus
  <2> QED
    BY <2>1, <2>2, <2>4
<1>3. CASE ~Posted(o)
  <2>1. PICK p \in Session : Writes(p) /\ Serve(p)
    <3>1. ~UNCHANGED db
      BY <1>3 DEF Posted, db
    <3> QED
      BY <3>1, SagaWrites
  <2>2. pc[p] = "insert" /\ posted' = [posted EXCEPT ![cmd[p].txn] = draft[p]]
    <3>1. ~UNCHANGED posted
      BY <1>3 DEF Posted
    <3> QED
      BY <2>1, <3>1 DEF Writes, InsertTransaction, InsertCapture, MarkCaptured, CreateWalletHold,
         UpdateStatus, Fail, db, At, WriteTransaction
  <2>3. cmd[p].txn = o.txn
    BY <1>0, <1>1, <1>3, <2>2 DEF Posted, TypeOK
  <2>4. cmd[p].op \in PostingOp
    BY <1>1, <2>2 DEF Ready, ReadyAt
  <2>5. /\ order[p] \in Checkout /\ stage[p] = "capture"
        /\ cmd[p] = CaptureFor(order[p]) /\ order[p].txn = o.txn
    BY <2>2, <2>3, <2>4, OwnCalls
  <2>b. PICK b \in Checkout : b = order[p]
    BY <2>5
  <2>6. /\ cmd[p].op = "capture" /\ cmd[p].hold = b.hold /\ cmd[p].settle = b.settle
        /\ cmd[p].txn = b.txn
    BY <2>5, <2>b DEF CaptureFor
  <2>7. InsertCapture(p)
    BY <2>1, <2>2, <2>6 DEF Writes, InsertTransaction, At, MarkCaptured, CreateWalletHold, UpdateStatus
  <2>8. holds' = SetStatus(b.hold, "captured")
    <3>1. ~UNCHANGED db
      BY <1>3 DEF Posted, db
    <3> QED
      BY <1>1, <2>6, <2>7, <3>1, CaptureWrites
  <2>9. BelongsTo(b.hold, b) /\ charges[b.key] > 0
    <3>1. Came(p)
      BY DEF SagaInv
    <3> QED
      BY <2>5, <2>b, <3>1 DEF Came
  <2>10. draft[p] = TwoLeg(b.wallet, b.settle, b.amount, b.hold)
    <3>1. Accepted(cmd[p], draft[p])
      BY <1>1, <2>2, <2>4 DEF Pledges, Pledged
    <3>2. draft[p] = TwoLeg(holds[b.hold].wallet, b.settle, holds[b.hold].amount, b.hold)
      BY <2>6, <3>1 DEF Accepted
    <3> QED
      BY <2>9, <3>2 DEF BelongsTo
  <2>11. posted'[o.txn] = TwoLeg(b.wallet, b.settle, b.amount, b.hold)
    BY <1>0, <1>1, <2>2, <2>3, <2>10 DEF TypeOK
  <2>12. BelongsTo(b.hold, b)' /\ charges'[b.key] > 0
    BY <2>9, RowsLast
  <2>13. holds'[b.hold].status = "captured"
    <3>1. b.hold \in HoldId /\ holds[b.hold] \in HoldRow
      BY <1>1, <2>9, CheckoutFields DEF TypeOK, BelongsTo
    <3> QED
      BY <1>1, <2>8, <3>1 DEF SetStatus, TypeOK, HoldRow
  <2> QED
    BY <2>5, <2>b, <2>11, <2>12, <2>13
<1> QED
  BY <1>2, <1>3

LEMMA RowsStep ==
  ASSUME CheckoutsApart, SagaInv, [SagaNext]_allVars
  PROVE  Rows'
BY SagaCore, HoldsOfCheckoutsStep, CapturedPostedStep, PostedChargedStep DEF Rows

-----------------------------------------------------------------------------
(* What each attempt knows *)

\* A checkout that session q is in, or has answered.
LEMMA OrderTaken ==
  ASSUME SagaInv, NEW q \in Session
  PROVE  stage[q] # "none" \/ answer[q] # "none" => order[q] \in Checkout
BY DEF SagaInv, Came, SagaTypeOK

\* What a session knows stays true while others work.
LEMMA OthersKnow ==
  ASSUME SagaInv, [SagaNext]_allVars, NEW q \in Session,
         stage'[q] = stage[q], order'[q] = order[q], found'[q] = found[q], answer'[q] = answer[q],
         repeats'[q] = repeats[q],
         pc'[q] = pc[q], cmd'[q] = cmd[q], reply'[q] = reply[q]
  PROVE  Serving(q)' /\ Came(q)'
<1>1. Serving(q) /\ Came(q)
  BY DEF SagaInv
<1>2. Serving(q)'
  BY <1>1 DEF Serving
<1>3. CASE order[q] \in Checkout
  <2>1. PICK o \in Checkout : o = order[q]
    BY <1>3
  <2>2. o = order'[q]
    BY <2>1
  <2>3. /\ BelongsTo(o.hold, o) => BelongsTo(o.hold, o)'
        /\ HoldIs(o.hold, "captured") => HoldIs(o.hold, "captured")'
        /\ HoldIs(o.hold, "released") => HoldIs(o.hold, "released")'
        /\ Posted(o) => Posted(o)'
        /\ charges[o.key] > 0 => charges'[o.key] > 0
    BY RowsLast DEF HoldStatus
  <2>4. /\ (Succeeds(q, "authorize"))' = Succeeds(q, "authorize")
        /\ (Succeeds(q, "capture"))' = Succeeds(q, "capture")
        /\ (Succeeds(q, "release"))' = Succeeds(q, "release")
    BY DEF Succeeds, Returned
  <2>5. BelongsTo(order[q].hold, order[q])' = BelongsTo(o.hold, o)'
    BY <2>2 DEF BelongsTo
  <2>6. /\ HoldIs(order[q].hold, "captured")' = HoldIs(o.hold, "captured")'
        /\ HoldIs(order[q].hold, "released")' = HoldIs(o.hold, "released")'
    BY <2>2 DEF HoldIs
  <2>7. Posted(order[q])' = Posted(o)' /\ charges'[order'[q].key] = charges'[o.key]
    BY <2>2 DEF Posted
  <2> QED
    BY <1>1, <1>2, <2>1, <2>2, <2>3, <2>4, <2>5, <2>6, <2>7 DEF Came
<1>4. CASE order[q] \notin Checkout
  BY <1>1, <1>2, <1>4, OrderTaken DEF Came, Succeeds, Returned
<1> QED
  BY <1>3, <1>4

\* An attempt ends.
LEMMA FinishKnows ==
  ASSUME SagaInv, [SagaNext]_allVars, NEW q \in Session, NEW a, Finish(q, a),
         pc[q] = "idle", stage[q] # "none",
         a = "completed" => Posted(order[q]) /\ BelongsTo(order[q].hold, order[q]),
         a = "failed" => HoldIs(order[q].hold, "released")
  PROVE  Serving(q)' /\ Came(q)'
<1>1. /\ stage'[q] = "none" /\ answer'[q] = a /\ order' = order /\ repeats' = repeats
      /\ UNCHANGED vars /\ order[q] # None
  BY DEF Finish, SagaInv, SagaTypeOK
<1>2. pc' = pc /\ holds' = holds /\ posted' = posted
  BY <1>1 DEF vars
<1>3. Serving(q)'
  BY <1>1, <1>2 DEF Serving
<1>4. Came(q)'
  BY <1>1, <1>2 DEF Came, Succeeds, Returned, Posted, BelongsTo, HoldIs
<1> QED
  BY <1>3, <1>4

\* An attempt makes a call.
LEMMA CallKnows ==
  ASSUME SagaInv, [SagaNext]_allVars, NEW q \in Session, NEW s, NEW c, Call(q, s, c),
         UNCHANGED <<order, answer, repeats>>,
         ~repeats[q], order[q] \in Checkout,
         \/ s = "release" /\ c = ReleaseFor(order[q])
         \/ /\ s = "capture" /\ c = CaptureFor(order[q])
            /\ BelongsTo(order[q].hold, order[q]) /\ charges'[order[q].key] > 0
  PROVE  Serving(q)' /\ Came(q)'
<1>1. /\ stage'[q] = s /\ pc'[q] = "usecase" /\ cmd'[q] = c
      /\ UNCHANGED <<holds, posted>>
  BY DEF Call, Submit, SagaInv, SagaTypeOK, TypeOK, db
<1>2. Serving(q)'
  BY <1>1 DEF Serving
<1>3. Came(q)
  BY DEF SagaInv
<1>4. \/ s = "release"
      \/ s = "capture" /\ BelongsTo(order[q].hold, order[q])' /\ charges'[order'[q].key] > 0
  BY <1>1 DEF BelongsTo
<1>5. /\ ~Succeeds(q, "authorize")' /\ ~Succeeds(q, "capture")' /\ ~Succeeds(q, "release")'
  BY <1>1 DEF Succeeds, Returned
<1>6. /\ answer[q] = "completed" => Posted(order[q])' /\ BelongsTo(order[q].hold, order[q])'
      /\ answer[q] = "failed" => HoldIs(order[q].hold, "released")'
  BY <1>1, <1>3 DEF Came, Posted, BelongsTo, HoldIs
<1>7. order'[q] # None
  BY CheckoutAssumption
<1>8. Came(q)'
  BY <1>1, <1>4, <1>5, <1>6, <1>7 DEF Came
<1> QED
  BY <1>2, <1>8

LEMMA BeginKnows ==
  ASSUME SagaInv, [SagaNext]_allVars, NEW q \in Session, NEW o \in Checkout, Begin(q, o)
  PROVE  Serving(q)' /\ Came(q)'
<1>1. /\ stage'[q] = "authorize" /\ pc'[q] = "usecase" /\ order'[q] = o /\ answer'[q] = "none"
      /\ cmd'[q] = AuthorizeFor(o, clock + o.ttl) /\ clock + o.ttl \in Time
      /\ repeats'[q] = HoldIs(o.hold, "captured") /\ UNCHANGED holds
  BY DEF Begin, Call, Submit, SagaInv, SagaTypeOK, TypeOK, db
<1>2. Serving(q)'
  BY <1>1 DEF Serving
<1>3. /\ ~Succeeds(q, "authorize")' /\ ~Succeeds(q, "capture")' /\ ~Succeeds(q, "release")'
  BY <1>1 DEF Succeeds, Returned
<1>4. repeats'[q] => HoldIs(order[q].hold, "captured")'
  BY <1>1 DEF HoldIs
<1> QED
  BY <1>1, <1>2, <1>3, <1>4 DEF Came

LEMMA ServeOtherKnows ==
  ASSUME SagaInv, [SagaNext]_allVars, NEW q \in Session, NEW c \in Background, ServeOther(q, c)
  PROVE  Serving(q)' /\ Came(q)'
<1>1. /\ stage'[q] = "none" /\ pc'[q] = "usecase" /\ cmd'[q] = c
      /\ UNCHANGED <<order, answer, repeats, holds, posted>>
  BY DEF ServeOther, Returned, Submit, SagaInv, SagaTypeOK, TypeOK, db, sagaVars
<1>2. Serving(q)'
  BY <1>1 DEF Serving
<1>3. /\ ~Succeeds(q, "authorize")' /\ ~Succeeds(q, "capture")' /\ ~Succeeds(q, "release")'
  BY <1>1 DEF Succeeds, Returned
<1>4. Came(q)
  BY DEF SagaInv
<1>5. /\ answer[q] = "completed" => Posted(order[q])' /\ BelongsTo(order[q].hold, order[q])'
      /\ answer[q] = "failed" => HoldIs(order[q].hold, "released")'
      /\ answer[q] # "none" => order'[q] # None
  BY <1>1, <1>4 DEF Came, Posted, BelongsTo, HoldIs
<1> QED
  BY <1>1, <1>2, <1>3, <1>5 DEF Came

LEMMA AdvanceKnows ==
  ASSUME SagaInv, [SagaNext]_allVars, NEW q \in Session, Advance(q)
  PROVE  Serving(q)' /\ Came(q)'
<1>1. Came(q) /\ Serving(q)
  BY DEF SagaInv
<1>2. stage[q] # "none" => order[q] \in Checkout
  BY OrderTaken
<1>3. CASE AuthorizationRefused(q)
  BY <1>3, FinishKnows DEF AuthorizationRefused, Fails, Returned
<1>4. CASE ReplayCaptured(q)
  <2>1. /\ stage[q] = "authorize" /\ pc[q] = "idle" /\ Finish(q, "completed")
        /\ BelongsTo(order[q].hold, order[q]) /\ HoldIs(order[q].hold, "captured")
    BY <1>1, <1>4 DEF ReplayCaptured, Came, Succeeds, Returned
  <2>2. Posted(order[q])
    BY <1>2, <2>1 DEF SagaInv, Rows, CapturedPosted
  <2> QED
    BY <2>1, <2>2, FinishKnows
<1>5. CASE EvaluateFraud(q)
  <2>1. /\ stage[q] = "authorize" /\ pc[q] = "idle" /\ ~repeats[q]
        /\ BelongsTo(order[q].hold, order[q]) /\ order[q] \in Checkout
    BY <1>1, <1>2, <1>5 DEF EvaluateFraud, Came, Succeeds, Returned
  <2>2. CASE Compensate(q)
    BY <2>1, <2>2, CallKnows DEF Compensate
  <2>3. CASE /\ stage' = [stage EXCEPT ![q] = "gateway"]
             /\ UNCHANGED <<vars, order, found, answer, charges, repeats>>
    <3>1. /\ stage'[q] = "gateway" /\ UNCHANGED <<pc, cmd, holds, posted, order, answer, repeats>>
      BY <2>3 DEF vars, SagaInv, SagaTypeOK
    <3>2. Serving(q)'
      BY <2>1, <3>1 DEF Serving
    <3>3. /\ ~Succeeds(q, "authorize")' /\ ~Succeeds(q, "capture")' /\ ~Succeeds(q, "release")'
      BY <3>1 DEF Succeeds, Returned
    <3>4. /\ answer[q] = "completed" => Posted(order[q])' /\ BelongsTo(order[q].hold, order[q])'
          /\ answer[q] = "failed" => HoldIs(order[q].hold, "released")'
          /\ answer[q] # "none" => order'[q] # None
          /\ BelongsTo(order[q].hold, order[q])'
      BY <1>1, <2>1, <3>1 DEF Came, Posted, BelongsTo, HoldIs
    <3> QED
      BY <2>1, <3>1, <3>2, <3>3, <3>4 DEF Came
  <2> QED
    BY <1>5, <2>2, <2>3 DEF EvaluateFraud
<1>6. CASE CallGateway(q)
  <2>1. /\ stage[q] = "gateway" /\ ~repeats[q]
        /\ BelongsTo(order[q].hold, order[q]) /\ order[q] \in Checkout
    BY <1>1, <1>2, <1>6 DEF CallGateway, Came, Returned
  <2>2. CASE Compensate(q)
    BY <2>1, <2>2, CallKnows DEF Compensate
  <2>3. CASE /\ charges' = [charges EXCEPT ![order[q].key] = @ + 1]
             /\ Call(q, "capture", CaptureFor(order[q]))
             /\ UNCHANGED <<order, found, answer, repeats>>
    <3>1. charges'[order[q].key] > 0
      <4>1. charges \in [Key -> 0 .. MaxCharges] /\ order[q].key \in Key
        BY <2>1, CheckoutFields DEF SagaInv, SagaTypeOK
      <4> QED
        BY <2>3, <4>1
    <3> QED
      BY <2>1, <2>3, <3>1, CallKnows
  <2> QED
    BY <1>6, <2>2, <2>3 DEF CallGateway
<1>7. CASE CaptureDone(q)
  <2>1. /\ stage[q] = "capture" /\ pc[q] = "idle" /\ Finish(q, "completed")
        /\ BelongsTo(order[q].hold, order[q]) /\ Posted(order[q])
    BY <1>1, <1>7 DEF CaptureDone, Came, Succeeds, Returned
  <2> QED
    BY <2>1, FinishKnows
<1>8. CASE CaptureFailed(q)
  <2>1. stage[q] = "capture" /\ ~repeats[q] /\ order[q] \in Checkout /\ Compensate(q)
    BY <1>1, <1>2, <1>8 DEF CaptureFailed, Came, Fails, Returned
  <2> QED
    BY <2>1, CallKnows DEF Compensate
<1>9. CASE Compensated(q)
  <2>1. /\ stage[q] = "release" /\ pc[q] = "idle"
        /\ \/ Finish(q, "failed") /\ HoldIs(order[q].hold, "released")
           \/ Finish(q, "uncompensated")
    BY <1>1, <1>9 DEF Compensated, Came, Succeeds, Fails, Returned
  <2> QED
    BY <2>1, FinishKnows
<1> QED
  BY <1>3, <1>4, <1>5, <1>6, <1>7, <1>8, <1>9 DEF Advance

\* A request that has failed succeeded in nothing.
LEMMA InterruptKnows ==
  ASSUME SagaInv, [SagaNext]_allVars, NEW q \in Session, Interrupt(q)
  PROVE  Serving(q)' /\ Came(q)'
<1>1. /\ pc'[q] = "idle" /\ reply'[q] # "ok" /\ UNCHANGED <<holds, posted, cmd, sagaVars>>
  BY DEF Interrupt, DeadlockVictim, Abort, Fail, Answer, SagaInv, SagaTypeOK, TypeOK, db
<1>2. Serving(q) /\ Came(q)
  BY DEF SagaInv
<1>3. Serving(q)'
  BY <1>1, <1>2 DEF Serving, sagaVars
<1>4. /\ ~Succeeds(q, "authorize")' /\ ~Succeeds(q, "capture")' /\ ~Succeeds(q, "release")'
  BY <1>1 DEF Succeeds, Returned
<1>5. /\ BelongsTo(order[q].hold, order[q])' = BelongsTo(order[q].hold, order[q])
      /\ HoldIs(order[q].hold, "captured")' = HoldIs(order[q].hold, "captured")
      /\ HoldIs(order[q].hold, "released")' = HoldIs(order[q].hold, "released")
      /\ Posted(order[q])' = Posted(order[q])
  BY <1>1 DEF BelongsTo, HoldIs, Posted, sagaVars
<1>6. Came(q)'
  BY <1>1, <1>2, <1>4, <1>5 DEF Came, sagaVars
<1> QED
  BY <1>3, <1>6

\* An authorization that succeeds has the hold of its checkout, and its status.
LEMMA AuthorizeReturns ==
  ASSUME SagaInv, [SagaNext]_allVars, NEW q \in Session, NEW o \in Checkout, o = order[q],
         Serve(q), stage[q] = "authorize", pc'[q] = "idle", reply'[q] = "ok"
  PROVE  /\ BelongsTo(o.hold, o)'
         /\ found'[q] = "captured" => HoldIs(o.hold, "captured")'
         /\ repeats[q] => found'[q] = "captured"
<1>1. TypeOK /\ Ready /\ SagaTypeOK /\ Serving(q) /\ Came(q) /\ HoldsOfCheckouts /\ OneHoldPerKey
  BY SagaCore DEF SagaInv, Rows
<1>2. PICK t \in Time : cmd[q] = AuthorizeFor(o, t)
  BY <1>1 DEF Serving
<1>3. /\ cmd[q].op = "authorize" /\ cmd[q].key = o.key /\ cmd[q].hash = o.hash
      /\ cmd[q].hold = o.hold /\ cmd[q].amount = o.amount /\ cmd[q].wallet = o.wallet
  BY <1>2 DEF AuthorizeFor
<1>4. o.hold \in HoldId
  BY CheckoutFields
<1>5. MaySucceed(q) /\ Remember(q)
  BY <1>1, OnlyTheseSucceed DEF Serve
<1>6. FindHold(q) \/ CreateWalletHold(q)
  <2>1. ReadyAt(pc[q], cmd[q], draft[q])
    BY <1>1 DEF Ready
  <2>2. pc[q] \notin {"lookup", "accounts", "insert", "hold", "mark", "update"}
    BY <1>3, <2>1 DEF ReadyAt, PostingOp
  <2> QED
    BY <1>5, <2>2 DEF MaySucceed, LookupKey, RecheckKey, InsertTransaction, LockHold, InsertCapture,
       MarkCaptured, UpdateStatus, At
<1>7. repeats[q] => HoldIs(o.hold, "captured")
  BY <1>1 DEF Came
<1>8. CASE FindHold(q)
  <2>1. PICK h \in SameKey(cmd[q]) : holds[h].hash = cmd[q].hash
    BY <1>1, <1>8 DEF FindHold, Goto, Fail, Answer, TypeOK
  <2>2. /\ h \in HoldId /\ holds[h] # None /\ holds[h].wallet = o.wallet
        /\ holds[h].key = o.key /\ holds[h].hash = o.hash
    BY <1>3, <2>1 DEF SameKey
  <2>3. h = o.hold /\ holds[h].amount = o.amount
    BY <1>1, <2>2 DEF HoldsOfCheckouts
  <2>4. \A g \in SameKey(cmd[q]) : g = o.hold
    BY <1>1, <1>3, <2>2, <2>3 DEF SameKey, OneHoldPerKey
  <2>5. SameKey(cmd[q]) # {} /\ (CHOOSE g \in SameKey(cmd[q]) : TRUE) = o.hold
    BY <2>1, <2>4
  <2>6. found'[q] = holds[o.hold].status
    BY <1>1, <1>5, <1>8, <2>5 DEF Remember, FindHold, SagaTypeOK
  <2>7. UNCHANGED holds
    BY <1>8, ReadsWriteNothing DEF Reads, db
  <2> QED
    BY <1>7, <2>2, <2>3, <2>6, <2>7 DEF BelongsTo, HoldIs
<1>9. CASE CreateWalletHold(q)
  <2>1. holds[o.hold] = None
    BY <1>1, <1>3, <1>9 DEF CreateWalletHold, Fail, Answer, TypeOK
  <2>2. ~repeats[q]
    BY <1>7, <2>1 DEF HoldIs
  <2>3. found'[q] = "authorized"
    BY <1>1, <1>5, <1>9 DEF Remember, CreateWalletHold, SagaTypeOK
  <2> DEFINE row == [wallet |-> cmd[q].wallet, amount |-> cmd[q].amount, created |-> began[q],
                     expires |-> cmd[q].expires, status |-> "authorized",
                     key |-> cmd[q].key, hash |-> cmd[q].hash]
  <2>4. holds' = [holds EXCEPT ![o.hold] = row]
    BY <1>3, <1>9, <2>1 DEF CreateWalletHold
  <2>5. holds'[o.hold] = row
    BY <1>1, <1>4, <2>4 DEF TypeOK
  <2>6. holds'[o.hold] # None
    <3>1. row \in HoldRow
      <4>1. ReadyAt("create", cmd[q], draft[q])
        BY <1>1, <1>9 DEF Ready, CreateWalletHold
      <4> QED
        BY <1>1, <4>1, CommandFields DEF ReadyAt, HoldRow, HoldStatus, TypeOK
    <3> QED
      BY <2>5, <3>1, NoneAssumption
  <2>7. BelongsTo(o.hold, o)'
    BY <1>3, <2>5, <2>6 DEF BelongsTo
  <2> QED
    BY <2>2, <2>3, <2>7
<1> QED
  BY <1>6, <1>8, <1>9

\* A capture that succeeds, the first time or as a replay, has its transaction posted.
LEMMA CaptureReturns ==
  ASSUME CheckoutsApart, SagaInv, [SagaNext]_allVars, NEW q \in Session, NEW o \in Checkout,
         o = order[q], Serve(q), stage[q] = "capture", pc'[q] = "idle", reply'[q] = "ok"
  PROVE  Posted(o)'
<1>1. TypeOK /\ TypeOK' /\ Ready /\ Serving(q) /\ KeysNamePostings
  BY SagaCore DEF SagaInv, CoreInv
<1>2. cmd[q].op = "capture" /\ cmd[q].hold = o.hold /\ cmd[q].txn = o.txn
  BY <1>1 DEF Serving, CaptureFor
<1>3. o.hold \in HoldId
  BY CheckoutFields
<1>4. MaySucceed(q)
  BY <1>1, OnlyTheseSucceed DEF Serve
<1>5. ReadyAt(pc[q], cmd[q], draft[q])
  BY <1>1 DEF Ready
<1>6. LockHold(q) \/ RecheckKey(q) \/ InsertCapture(q) \/ MarkCaptured(q)
  <2>1. pc[q] \notin {"lookup", "find", "create", "update"}
    BY <1>2, <1>5 DEF ReadyAt
  <2> QED
    BY <1>2, <1>4, <2>1 DEF MaySucceed, LookupKey, InsertTransaction, FindHold, CreateWalletHold,
       UpdateStatus, At
<1>7. ~RecheckKey(q)
  BY <1>1, <1>2 DEF RecheckKey, Idempotency, Goto, Fail, Answer, TypeOK
<1>8. CASE LockHold(q)
  <2>1. Idempotency(cmd[q]) = "replayed" /\ UNCHANGED posted
    BY <1>1, <1>8 DEF LockHold, Goto, Fail, Answer, TypeOK, Idempotency, db
  <2>2. cmd[q].key \in Key /\ keys[cmd[q].key] # None /\ keys[cmd[q].key].txn = o.txn
    <3>1. cmd[q] \in Command
      BY <1>5, <1>8 DEF ReadyAt, LockHold
    <3> QED
      BY <1>2, <2>1, <3>1, CommandFields DEF Idempotency, PostingOp
  <2> QED
    BY <1>1, <2>1, <2>2 DEF KeysNamePostings, Posted
<1>9. CASE InsertCapture(q) \/ MarkCaptured(q)
  <2>1. holds' = SetStatus(o.hold, "captured")
    BY <1>1, <1>2, <1>9 DEF InsertCapture, MarkCaptured, Fail, Answer, TypeOK
  <2>2. holds[o.hold] # None /\ holds[o.hold] \in HoldRow
    BY <1>1, <1>2, <1>3, <1>9, CaptureWrites DEF TypeOK
  <2>3. holds'[o.hold] \in HoldRow /\ holds'[o.hold].status = "captured"
    BY <1>1, <1>3, <2>1, <2>2 DEF SetStatus, TypeOK, HoldRow, HoldStatus
  <2>4. HoldIs(o.hold, "captured")'
    BY <2>3, NoneAssumption DEF HoldIs
  <2> QED
    BY <2>4, CapturedPostedStep DEF CapturedPosted
<1> QED
  BY <1>6, <1>7, <1>8, <1>9

LEMMA ReleaseReturns ==
  ASSUME SagaInv, [SagaNext]_allVars, NEW q \in Session, NEW o \in Checkout, o = order[q],
         Serve(q), stage[q] = "release", pc'[q] = "idle", reply'[q] = "ok"
  PROVE  HoldIs(o.hold, "released")'
<1>1. TypeOK /\ TypeOK' /\ Ready /\ Serving(q)
  BY SagaCore DEF SagaInv
<1>2. cmd[q].op = "release" /\ cmd[q].hold = o.hold
  BY <1>1 DEF Serving, ReleaseFor
<1>3. o.hold \in HoldId
  BY CheckoutFields
<1>4. ReadyAt(pc[q], cmd[q], draft[q]) /\ MaySucceed(q)
  BY <1>1, OnlyTheseSucceed DEF Ready, Serve
<1>5. UpdateStatus(q)
  <2>1. pc[q] \notin {"lookup", "accounts", "insert", "hold", "mark", "find", "create"}
    BY <1>2, <1>4 DEF ReadyAt, PostingOp
  <2> QED
    BY <1>4, <2>1 DEF MaySucceed, LookupKey, RecheckKey, InsertTransaction, LockHold, InsertCapture,
       MarkCaptured, FindHold, CreateWalletHold, At
<1>6. holds' = SetStatus(o.hold, "released")
  BY <1>1, <1>2, <1>5 DEF UpdateStatus, Fail, Answer, TypeOK
<1>7. holds[o.hold] # None /\ holds[o.hold] \in HoldRow
  BY <1>1, <1>2, <1>3, <1>4, <1>5 DEF ReadyAt, UpdateStatus, TypeOK
<1>8. holds'[o.hold] \in HoldRow /\ holds'[o.hold].status = "released"
  BY <1>1, <1>3, <1>6, <1>7 DEF SetStatus, TypeOK, HoldRow, HoldStatus
<1> QED
  BY <1>8, NoneAssumption DEF HoldIs

LEMMA ServeKnows ==
  ASSUME CheckoutsApart, SagaInv, [SagaNext]_allVars, NEW q \in Session, Serve(q)
  PROVE  Serving(q)' /\ Came(q)'
<1>1. TypeOK /\ SagaTypeOK /\ Serving(q) /\ Came(q)
  BY SagaCore DEF SagaInv
<1>2. pc[q] # "idle" /\ UNCHANGED <<cmd, stage, order, answer, charges, repeats>>
  BY <1>1, WorkingSession DEF Serve
<1>3. Serving(q)'
  BY <1>1, <1>2 DEF Serving
<1>4. CASE order[q] \in Checkout
  <2>1. PICK o \in Checkout : o = order[q]
    BY <1>4
  <2>2. o = order'[q]
    BY <1>2, <2>1
  <2>3. /\ BelongsTo(o.hold, o) => BelongsTo(o.hold, o)'
        /\ HoldIs(o.hold, "captured") => HoldIs(o.hold, "captured")'
        /\ HoldIs(o.hold, "released") => HoldIs(o.hold, "released")'
        /\ Posted(o) => Posted(o)'
    BY RowsLast DEF HoldStatus
  <2>4. /\ Succeeds(q, "authorize")' =>
             /\ BelongsTo(o.hold, o)'
             /\ found'[q] = "captured" => HoldIs(o.hold, "captured")'
             /\ repeats[q] => found'[q] = "captured"
        /\ Succeeds(q, "capture")' => Posted(o)'
        /\ Succeeds(q, "release")' => HoldIs(o.hold, "released")'
    BY <1>2, <2>1, AuthorizeReturns, CaptureReturns, ReleaseReturns DEF Succeeds, Returned
  <2>5. BelongsTo(order[q].hold, order[q])' = BelongsTo(o.hold, o)'
    BY <2>2 DEF BelongsTo
  <2>6. /\ HoldIs(order[q].hold, "captured")' = HoldIs(o.hold, "captured")'
        /\ HoldIs(order[q].hold, "released")' = HoldIs(o.hold, "released")'
    BY <2>2 DEF HoldIs
  <2>7. Posted(order[q])' = Posted(o)' /\ charges'[order'[q].key] = charges[o.key]
    BY <1>2, <2>2 DEF Posted
  <2> QED
    BY <1>1, <1>2, <1>3, <2>1, <2>2, <2>3, <2>4, <2>5, <2>6, <2>7 DEF Came
<1>5. CASE order[q] \notin Checkout
  <2>1. stage[q] = "none" /\ answer[q] = "none"
    BY <1>5, OrderTaken
  <2>2. stage'[q] = "none" /\ answer'[q] = "none"
    BY <1>2, <2>1
  <2> QED
    BY <1>3, <2>2 DEF Came, Succeeds, Returned
<1> QED
  BY <1>4, <1>5

LEMMA SagaInvStep ==
  ASSUME CheckoutsApart, SagaInv, [SagaNext]_allVars, KeysNamePostings'
  PROVE  SagaInv'
<1>1. SagaTypeOK /\ TypeOK /\ Ready /\ [Next]_vars
  BY SagaCore
<1>2. ASSUME NEW q \in Session PROVE Serving(q)' /\ Came(q)'
  <2>1. CASE UNCHANGED allVars \/ (Tick /\ UNCHANGED sagaVars)
    BY <2>1, OthersKnow DEF allVars, vars, sagaVars, Tick
  <2>2. ASSUME NEW p \in Session, p # q,
               \/ \E o \in Checkout : Begin(p, o)
               \/ \E c \in Background : ServeOther(p, c)
               \/ Advance(p) \/ Stop(p)
        PROVE  Serving(q)' /\ Came(q)'
    <3>1. ASSUME NEW s, NEW c, Call(p, s, c)
          PROVE  /\ stage'[q] = stage[q] /\ pc'[q] = pc[q] /\ cmd'[q] = cmd[q]
                 /\ reply'[q] = reply[q]
      BY <1>1, <2>2, <3>1 DEF Call, Submit, SagaTypeOK, TypeOK
    <3>2. ASSUME NEW a, Finish(p, a) PROVE Serving(q)' /\ Came(q)'
      <4>1. UNCHANGED <<pc, cmd, reply, order, repeats>>
        BY <3>2 DEF Finish, vars
      <4>2. stage'[q] = stage[q] /\ answer'[q] = answer[q] /\ found'[q] = found[q]
        BY <1>1, <2>2, <3>2 DEF Finish, SagaTypeOK
      <4> QED
        BY <4>1, <4>2, OthersKnow
    <3>3. ASSUME Compensate(p) PROVE Serving(q)' /\ Came(q)'
      BY <3>1, <3>3, OthersKnow DEF Compensate
    <3>4. ASSUME NEW o \in Checkout, Begin(p, o) PROVE Serving(q)' /\ Came(q)'
      <4>1. /\ order'[q] = order[q] /\ answer'[q] = answer[q] /\ repeats'[q] = repeats[q]
            /\ UNCHANGED found
        BY <1>1, <2>2, <3>4 DEF Begin, SagaTypeOK
      <4> QED
        BY <3>1, <3>4, <4>1, OthersKnow DEF Begin
    <3>5. ASSUME NEW c \in Background, ServeOther(p, c) PROVE Serving(q)' /\ Came(q)'
      <4>1. pc'[q] = pc[q] /\ cmd'[q] = cmd[q] /\ reply'[q] = reply[q]
        BY <1>1, <2>2, <3>5 DEF ServeOther, Submit, TypeOK
      <4> QED
        BY <3>5, <4>1, OthersKnow DEF ServeOther, sagaVars
    <3>6. CASE AuthorizationRefused(p) \/ ReplayCaptured(p) \/ CaptureDone(p) \/ Compensated(p) \/ Stop(p)
      BY <3>2, <3>6 DEF AuthorizationRefused, ReplayCaptured, CaptureDone, Compensated, Stop
    <3>7. CASE CaptureFailed(p)
      BY <3>3, <3>7 DEF CaptureFailed
    <3>8. CASE EvaluateFraud(p)
      <4>1. CASE /\ stage' = [stage EXCEPT ![p] = "gateway"]
                 /\ UNCHANGED <<vars, order, found, answer, charges, repeats>>
        <5>1. UNCHANGED <<pc, cmd, reply, order, found, answer, repeats>> /\ stage'[q] = stage[q]
          BY <1>1, <2>2, <4>1 DEF vars, SagaTypeOK
        <5> QED
          BY <5>1, OthersKnow
      <4> QED
        BY <3>3, <3>8, <4>1 DEF EvaluateFraud
    <3>9. CASE CallGateway(p)
      <4>1. CASE /\ Call(p, "capture", CaptureFor(order[p]))
                 /\ UNCHANGED <<order, found, answer, repeats>>
        BY <3>1, <4>1, OthersKnow
      <4> QED
        BY <3>3, <3>9, <4>1 DEF CallGateway
    <3> QED
      BY <2>2, <3>4, <3>5, <3>6, <3>7, <3>8, <3>9 DEF Advance
  <2>3. ASSUME NEW p \in Session, p # q, Serve(p) \/ Interrupt(p)
        PROVE  Serving(q)' /\ Came(q)'
    <3>1. pc'[q] = pc[q] /\ cmd'[q] = cmd[q] /\ reply'[q] = reply[q]
      BY <1>1, <2>3, OtherSessions, WorkingSession DEF Serve, Interrupt
    <3>2. UNCHANGED <<stage, order, answer, repeats>> /\ found'[q] = found[q]
      BY <1>1, <2>3 DEF Serve, Interrupt, Remember, sagaVars, SagaTypeOK
    <3> QED
      BY <3>1, <3>2, OthersKnow
  <2>4. ASSUME Stop(q) PROVE Serving(q)' /\ Came(q)'
    BY <2>4, FinishKnows DEF Stop
  <2> QED
    BY <2>1, <2>2, <2>3, <2>4, BeginKnows, ServeOtherKnows, AdvanceKnows, ServeKnows, InterruptKnows
       DEF SagaNext
<1>3. SagaTypeOK' /\ PromiseInv' /\ Rows'
  BY SagaCore, RowsStep
<1> QED
  BY <1>2, <1>3 DEF SagaInv, CoreInv

LEMMA SagaInvInit == SagaInit /\ KeysNamePostings => SagaInv
<1> SUFFICES ASSUME SagaInit, KeysNamePostings PROVE SagaInv
  OBVIOUS
<1>1. SagaTypeOK /\ Init
  BY SagaTypeInit DEF SagaInit
<1>2. PromiseInv
  BY <1>1, SolvencyInit DEF Init, PromiseInv, Pledges, Pledged
<1>3. Rows
  <2>1. (\A h \in HoldId : holds[h] = None) /\ (\A t \in TxnId : posted[t] = None)
    BY <1>1 DEF Init
  <2> QED
    BY <2>1, CheckoutFields
       DEF Rows, OneHoldPerKey, HoldsOfCheckouts, PostedCharged, CapturedPosted, Posted, HoldIs
<1>4. ASSUME NEW p \in Session PROVE Serving(p) /\ Came(p)
  <2>1. stage[p] = "none" /\ pc[p] = "idle" /\ answer[p] = "none" /\ ~repeats[p]
    BY <1>1 DEF SagaInit, Init
  <2> QED
    BY <2>1 DEF Serving, Came, Succeeds, Returned
<1> QED
  BY <1>1, <1>2, <1>3, <1>4 DEF SagaInv, CoreInv

\* The strengthening behind the theorems on checkouts.
THEOREM SagaKnows ==
  ASSUME CheckoutsApart
  PROVE  SagaSpec => []SagaInv
<1>1. SagaInit /\ KeysNamePostings => SagaInv
  BY SagaInvInit
<1>2. SagaInv /\ KeysNamePostings' /\ [SagaNext]_allVars => SagaInv'
  BY SagaInvStep
<1>3. SagaSpec => []KeysNamePostings
  BY SagaRunsOnCore, KeysAndPostings, PTL
<1> QED
  BY <1>1, <1>2, <1>3, PTL DEF SagaSpec

\* Money leaves a wallet through a checkout only for a captured hold and a payment
\* the gateway took, whichever attempts did which step and crashed where.
THEOREM PostedIsCharged ==
  ASSUME CheckoutsApart
  PROVE  SagaSpec => []PostedWasCharged
<1>1. SagaInv => PostedWasCharged
  <2> SUFFICES ASSUME SagaInv, NEW o \in Checkout, Posted(o)
               PROVE  HoldIs(o.hold, "captured") /\ charges[o.key] > 0
    BY DEF PostedWasCharged
  <2>1. PICK b \in Checkout :
          /\ b.txn = o.txn /\ BelongsTo(b.hold, b) /\ holds[b.hold].status = "captured"
          /\ charges[b.key] > 0
    BY DEF SagaInv, Rows, PostedCharged
  <2>2. b.hold = o.hold /\ b.key = o.key
    BY <2>1 DEF CheckoutsApart
  <2> QED
    BY <2>1, <2>2 DEF BelongsTo, HoldIs
<1> QED
  BY <1>1, SagaKnows, PTL

\* COMPLETED means that this checkout, for its amount, was posted: also when another
\* attempt captured it, and when another checkout has the same key.
THEOREM CompletedMeansPosted ==
  ASSUME CheckoutsApart
  PROVE  SagaSpec => []CompletedIsPosted
<1>1. SagaInv => CompletedIsPosted
  <2> SUFFICES ASSUME SagaInv, NEW p \in Session, answer[p] = "completed"
               PROVE  posted[order[p].txn] =
                        TwoLeg(order[p].wallet, order[p].settle, order[p].amount, order[p].hold)
    BY DEF CompletedIsPosted
  <2>1. Came(p) /\ order[p] \in Checkout
    BY OrderTaken DEF SagaInv
  <2>2. Posted(order[p]) /\ BelongsTo(order[p].hold, order[p])
    BY <2>1 DEF Came
  <2>3. PICK b \in Checkout :
          /\ b.txn = order[p].txn /\ BelongsTo(b.hold, b)
          /\ posted[order[p].txn] = TwoLeg(b.wallet, b.settle, b.amount, b.hold)
    BY <2>1, <2>2 DEF SagaInv, Rows, PostedCharged
  <2>4. b.hold = order[p].hold
    BY <2>1, <2>3 DEF CheckoutsApart
  <2>5. b.key = order[p].key /\ b.hash = order[p].hash
    BY <2>2, <2>3, <2>4 DEF BelongsTo
  <2>6. b = order[p]
    BY <2>1, <2>5, CheckoutAssumption
  <2> QED
    BY <2>3, <2>6
<1> QED
  BY <1>1, SagaKnows, PTL

\* A checkout answered as failed never moves money, whatever other attempts of it
\* were about to do.
THEOREM FailedMeansUnposted ==
  ASSUME CheckoutsApart
  PROVE  SagaSpec => []FailedStaysUnposted
<1>1. SagaInv => FailedStaysUnposted
  <2> SUFFICES ASSUME SagaInv, NEW p \in Session, answer[p] = "failed"
               PROVE  HoldIs(order[p].hold, "released") /\ ~Posted(order[p])
    BY DEF FailedStaysUnposted
  <2>1. HoldIs(order[p].hold, "released") /\ order[p] \in Checkout
    BY OrderTaken DEF SagaInv, Came
  <2>2. SUFFICES ASSUME Posted(order[p]) PROVE FALSE
    BY <2>1
  <2>3. PICK b \in Checkout : b.txn = order[p].txn /\ holds[b.hold].status = "captured"
    BY <2>1, <2>2 DEF SagaInv, Rows, PostedCharged
  <2>4. b.hold = order[p].hold
    BY <2>1, <2>3 DEF CheckoutsApart
  <2> QED
    BY <2>1, <2>3, <2>4 DEF HoldIs
<1> QED
  BY <1>1, SagaKnows, PTL

\* A checkout repeated after its capture ends with its authorization: anti-fraud and
\* the gateway are not asked again.
THEOREM RepetitionsEndEarly ==
  ASSUME CheckoutsApart
  PROVE  SagaSpec => []RepetitionsCallNobody
<1>1. SagaInv => RepetitionsCallNobody
  BY DEF SagaInv, Came, RepetitionsCallNobody
<1> QED
  BY <1>1, SagaKnows, PTL
=============================================================================
