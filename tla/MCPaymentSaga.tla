--------------------------- MODULE MCPaymentSaga ---------------------------
(***************************************************************************)
(* Small instances of PaymentSaga: wallet 1 pays account 9.                *)
(***************************************************************************)
EXTENDS PaymentSaga, TLC

Sessions == Permutations(Session)

Order(hash, amount) ==
  [key |-> "k1", captureKey |-> "k2", hash |-> hash, hold |-> "h1", txn |-> "t1",
   wallet |-> 1, settle |-> 9, amount |-> amount, ttl |-> 1]

\* One checkout, and another one that reuses its key.
Orders == {Order("x", 1), Order("y", 2)}
OneOrder == {Order("x", 1)}

Funding(n) ==
  [op |-> "deposit", key |-> "k3", hash |-> "x", txn |-> "t2", from |-> 9,
   wallet |-> 1, amount |-> n]
Expiry == [op |-> "expire", hold |-> "h1"]

\* The wallet is funded for the hold of the first checkout and its capture, and
\* for the hold only of the second; the worker expires a hold that is due.
Others == {Funding(3), Expiry}

\* It has just what the first checkout holds.
FundingOnly == {Funding(1)}

Requested ==
  {AuthorizeFor(o, t) : o \in Orders, t \in Time}
  \cup {CaptureFor(o) : o \in Orders} \cup {ReleaseFor(o) : o \in Orders}
  \cup Others \cup FundingOnly

\* What the proofs about the saga assume of its requests holds of these.
ASSUME CheckoutsApart

\* The behaviours in which the database completes every request, so that only the
\* ledger's own rules refuse one.
Uninterrupted ==
  SagaInit /\ [][SagaNext /\ \A p \in Session : ~Interrupt(p)]_allVars
=============================================================================
