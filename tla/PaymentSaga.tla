----------------------------- MODULE PaymentSaga -----------------------------
(***************************************************************************)
(* POST /payments/checkout: PaymentSagaOrchestrator on top of the core.    *)
(*                                                                         *)
(* An attempt runs in a session of WalletLedger, which serves the hold     *)
(* requests of the saga one after the other: authorize, capture, release.  *)
(* Between them the attempt asks anti-fraud and the external gateway.      *)
(* Nothing but the hold records how far an attempt came; clients may send  *)
(* a checkout again at any time, also while it is being served.            *)
(***************************************************************************)
EXTENDS WalletLedger

CONSTANTS
  Checkout,     \* the checkouts clients may send, any number of times
  Background,   \* the other requests that sessions serve meanwhile
  Outcome,      \* what the gateway may do: a subset of GatewayOutcome
  MaxCharges    \* bound on the payments the gateway takes for one key

\* "unanswered": the payment was taken and the caller sees an error.  A breaker
\* that is open refuses as "declined" does.
GatewayOutcome == {"paid", "declined", "unanswered"}

\* The requests of the saga's three calls.  A hold's expiry is counted from the
\* time of the attempt, so it is no part of the request that is hashed.
AuthorizeFor(o, expires) ==
  [op |-> "authorize", key |-> o.key, hash |-> o.hash, hold |-> o.hold,
   wallet |-> o.wallet, amount |-> o.amount, expires |-> expires]
CaptureFor(o) ==
  [op |-> "capture", key |-> o.captureKey, hash |-> o.hash, txn |-> o.txn,
   hold |-> o.hold, settle |-> o.settle]
ReleaseFor(o) == [op |-> "release", hold |-> o.hold]

CheckoutRequest ==
  [key : Key, captureKey : Key, hash : Hash, hold : HoldId, txn : TxnId,
   wallet : Wallet, settle : Account, amount : Unit, ttl : Time \ {0}]

ASSUME CheckoutAssumption ==
  /\ Checkout \subseteq CheckoutRequest
  /\ None \notin Checkout
  /\ \A o \in Checkout :
       /\ \A t \in Time : AuthorizeFor(o, t) \in Command
       /\ {CaptureFor(o), ReleaseFor(o)} \subseteq Command
  \* the whole body is hashed, and identifiers it leaves out come from the key
  /\ \A o1, o2 \in Checkout : o1.key = o2.key /\ o1.hash = o2.hash => o1 = o2
  /\ Background \subseteq Command
  /\ Outcome \subseteq GatewayOutcome
  /\ MaxCharges \in Nat

Stage == {"none", "authorize", "gateway", "capture", "release"}

CheckoutAnswer ==
  {"none", "completed", "refused", "failed", "uncompensated", "aborted"}

-----------------------------------------------------------------------------
VARIABLES
  stage,      \* the call of the saga each session is in
  order,      \* the checkout it serves, or served last
  found,      \* the status of the hold its authorization returned
  answer,     \* the last answer to a checkout
  charges,    \* the payments the gateway has taken for each PaymentID
  repeats     \* history: the checkout was captured when the attempt began

sagaVars == <<stage, order, found, answer, charges, repeats>>
allVars  == <<vars, sagaVars>>

SagaTypeOK ==
  /\ TypeOK
  /\ stage \in [Session -> Stage]
  /\ order \in [Session -> Checkout \cup {None}]
  /\ found \in [Session -> HoldStatus \cup {None}]
  /\ answer \in [Session -> CheckoutAnswer]
  /\ charges \in [Key -> 0 .. MaxCharges]
  /\ repeats \in [Session -> BOOLEAN]
  /\ \A p \in Session : stage[p] # "none" => order[p] # None

SagaInit ==
  /\ Init
  /\ stage = [p \in Session |-> "none"]
  /\ order = [p \in Session |-> None]
  /\ found = [p \in Session |-> None]
  /\ answer = [p \in Session |-> "none"]
  /\ charges = [k \in Key |-> 0]
  /\ repeats = [p \in Session |-> FALSE]

-----------------------------------------------------------------------------
(* Calls *)

HoldIs(h, status) == holds[h] # None /\ holds[h].status = status

\* The call of a stage has returned.  It succeeds with the core's answer "ok"; it
\* fails with any other, and also when the answer to a COMMIT is lost: the saga
\* sees an error of a request that took effect.
Returned(p, s) == stage[p] = s /\ pc[p] = "idle"
Succeeds(p, s) == Returned(p, s) /\ reply[p] = "ok"
Fails(p, s)    == Returned(p, s)

Call(p, s, c) ==
  /\ Submit(p, c)
  /\ stage' = [stage EXCEPT ![p] = s]

Finish(p, a) ==
  /\ stage' = [stage EXCEPT ![p] = "none"]
  /\ answer' = [answer EXCEPT ![p] = a]
  /\ found' = [found EXCEPT ![p] = None]
  /\ UNCHANGED <<vars, order, charges, repeats>>

\* Mutant of Begin: the session keeps the checkout it served before.
BeginWithLast(p, o) ==
  /\ Returned(p, "none")
  /\ clock + o.ttl \in Time
  /\ Call(p, "authorize", AuthorizeFor(o, clock + o.ttl))
  /\ answer' = [answer EXCEPT ![p] = "none"]
  /\ UNCHANGED <<order, found, charges, repeats>>

\* The handler has decoded the checkout: step 1, hold authorization.
Begin(p, o) ==
  /\ Returned(p, "none")
  /\ clock + o.ttl \in Time
  /\ Call(p, "authorize", AuthorizeFor(o, clock + o.ttl))
  /\ order' = [order EXCEPT ![p] = o]
  /\ answer' = [answer EXCEPT ![p] = "none"]
  /\ repeats' = [repeats EXCEPT ![p] = HoldIs(o.hold, "captured")]
  /\ UNCHANGED <<found, charges>>

AuthorizationRefused(p) ==
  /\ Fails(p, "authorize")
  /\ Finish(p, "refused")

\* Mutant of ReplayCaptured: any hold that has ended is taken for captured.
ReplayEnded(p) ==
  /\ Succeeds(p, "authorize") /\ found[p] # "authorized"
  /\ Finish(p, "completed")

\* A captured hold is the answer of an earlier attempt.
ReplayCaptured(p) ==
  /\ Succeeds(p, "authorize") /\ found[p] = "captured"
  /\ Finish(p, "completed")

\* compensateHold
Compensate(p) ==
  /\ Call(p, "release", ReleaseFor(order[p]))
  /\ UNCHANGED <<order, found, answer, repeats>>

\* Mutant of EvaluateFraud: the status of the hold is ignored.
EvaluateAny(p) ==
  /\ Succeeds(p, "authorize")
  /\ stage' = [stage EXCEPT ![p] = "gateway"]
  /\ UNCHANGED <<vars, order, found, answer, charges, repeats>>

\* Step 2: anti-fraud approves, or it rejects or fails.
EvaluateFraud(p) ==
  /\ Succeeds(p, "authorize") /\ found[p] # "captured"
  /\ \/ /\ stage' = [stage EXCEPT ![p] = "gateway"]
        /\ UNCHANGED <<vars, order, found, answer, charges, repeats>>
     \/ Compensate(p) /\ UNCHANGED charges

\* Mutant of CallGateway: an answer without an error is taken for a payment.
CallGatewayOnce(p) ==
  /\ Returned(p, "gateway")
  /\ Call(p, "capture", CaptureFor(order[p]))
  /\ UNCHANGED <<order, found, answer, charges, repeats>>

\* Step 3: the gateway.  Its PaymentID is the idempotency key.
CallGateway(p) ==
  /\ Returned(p, "gateway")
  /\ \E outcome \in Outcome :
       /\ IF outcome = "declined"
          THEN UNCHANGED charges
          ELSE /\ charges[order[p].key] < MaxCharges
               /\ charges' = [charges EXCEPT ![order[p].key] = @ + 1]
       /\ IF outcome = "paid"
          THEN /\ Call(p, "capture", CaptureFor(order[p]))
               /\ UNCHANGED <<order, found, answer, repeats>>
          ELSE Compensate(p)

\* Step 4: the capture.
CaptureDone(p) ==
  /\ Succeeds(p, "capture")
  /\ Finish(p, "completed")

CaptureFailed(p) ==
  /\ Fails(p, "capture")
  /\ Compensate(p)
  /\ UNCHANGED charges

\* Mutant of Compensated: the error of the release is ignored.
CompensatedAnyway(p) == Returned(p, "release") /\ Finish(p, "failed")

Compensated(p) ==
  \/ Succeeds(p, "release") /\ Finish(p, "failed")
  \/ Fails(p, "release") /\ Finish(p, "uncompensated")

-----------------------------------------------------------------------------
(* The core at work for the attempts, and failures *)

\* FindHold returns the row it read, CreateWalletHold the one it wrote: the
\* saga decides on that copy.
Remember(p) ==
  found' = IF pc[p] = "find" /\ SameKey(cmd[p]) # {}
           THEN [found EXCEPT ![p] = holds[CHOOSE h \in SameKey(cmd[p]) : TRUE].status]
           ELSE IF pc[p] = "create" THEN [found EXCEPT ![p] = "authorized"] ELSE found

Serve(p) ==
  /\ Run(p) \/ Acquire(p)
  /\ Remember(p)
  /\ UNCHANGED <<stage, order, answer, charges, repeats>>

\* The database fails a request, or a deadlock ends it.  The saga goes on with
\* the error.
Interrupt(p) ==
  /\ DeadlockVictim(p) \/ Abort(p)
  /\ UNCHANGED sagaVars

\* The service stops or the client goes away between two calls, so that no
\* later one runs.  During a call this is Interrupt and then Stop.
Stop(p) ==
  /\ stage[p] # "none" /\ pc[p] = "idle"
  /\ Finish(p, "aborted")

ServeOther(p, c) ==
  /\ Returned(p, "none")
  /\ Submit(p, c)
  /\ UNCHANGED sagaVars

Advance(p) ==
  \/ AuthorizationRefused(p) \/ ReplayCaptured(p) \/ EvaluateFraud(p)
  \/ CallGateway(p) \/ CaptureDone(p) \/ CaptureFailed(p) \/ Compensated(p)

SagaNext ==
  \/ Tick /\ UNCHANGED sagaVars
  \/ \E p \in Session :
       \/ \E o \in Checkout : Begin(p, o)
       \/ \E c \in Background : ServeOther(p, c)
       \/ Advance(p) \/ Serve(p) \/ Interrupt(p) \/ Stop(p)

SagaSpec == SagaInit /\ [][SagaNext]_allVars

-----------------------------------------------------------------------------
(* What makes checkouts correct *)

\* Clients may choose the identifiers of a checkout's hold and transaction.  Nobody
\* uses those of another checkout, as identifiers that come from the key never are;
\* and no other request authorizes the same body under the same key.
CheckoutsApart ==
  /\ \A o1, o2 \in Checkout : o1.hold = o2.hold \/ o1.txn = o2.txn =>
       o1.key = o2.key /\ o1.hold = o2.hold /\ o1.txn = o2.txn
  /\ \A c \in Background, o \in Checkout :
       /\ c.op \in PostingOp => c.txn # o.txn
       /\ c.op = "capture" => c.hold # o.hold
       /\ c.op = "authorize" => ~(c.wallet = o.wallet /\ c.key = o.key /\ c.hash = o.hash)

Posted(o) == posted[o.txn] # None

\* Money leaves a wallet through a checkout only for a hold that is captured and a
\* payment the gateway took, whichever attempt did which step and whichever of
\* them crashed.
PostedWasCharged ==
  \A o \in Checkout : Posted(o) =>
    HoldIs(o.hold, "captured") /\ charges[o.key] > 0

\* COMPLETED, from the attempt that captured or from a repetition that found the
\* hold captured, means that exactly this checkout was posted.
CompletedIsPosted ==
  \A p \in Session : answer[p] = "completed" =>
    posted[order[p].txn]
      = TwoLeg(order[p].wallet, order[p].settle, order[p].amount, order[p].hold)

\* A checkout that was answered as failed, its hold released, never moves money
\* later, though another attempt of it may have been about to capture.
FailedStaysUnposted ==
  \A p \in Session : answer[p] = "failed" =>
    HoldIs(order[p].hold, "released") /\ ~Posted(order[p])

\* A checkout repeated after it was captured does not reach the gateway again
\* ("A retry after the response was lost must not call anti-fraud or the external
\* gateway again").
RepetitionsCallNobody ==
  \A p \in Session : repeats[p] => stage[p] \in {"none", "authorize"}

\* A checkout whose payment the gateway has processed ends with its hold captured
\* ("Hold capture after successful gateway processing"): the hold is not released.
ReleasedWasNotCharged ==
  \A o \in Checkout : HoldIs(o.hold, "released") => charges[o.key] = 0
=============================================================================
