---------------------------- MODULE OutboxRelay ----------------------------
(***************************************************************************)
(* The transactional outbox after the commit: the relays of several        *)
(* replicas claim rows of outbox_events in batches, publish them to SNS    *)
(* one after the other and record each result.  WalletLedger writes the    *)
(* rows.                                                                   *)
(*                                                                         *)
(* A step is a database transaction, or a call to SNS.  Two claims that    *)
(* run at the same time take disjoint rows (SKIP LOCKED), as one after the *)
(* other would.                                                            *)
(*                                                                         *)
(* Only differences of times are compared, so a row carries its age, the   *)
(* time since its updated_at, and time is unbounded; ages stop at MaxAge,  *)
(* where every comparison has been decided.  Nobody reads the updated_at   *)
(* of a pending or a published row, whose age stays 0.                     *)
(***************************************************************************)
EXTENDS Integers, FiniteSets

CONSTANTS
  Event,          \* events, numbered in the order of their created_at
  Relay,          \* the relay goroutines, one for each replica
  MaxRetries,     \* RelayConfig.MaxRetries
  BatchSize,      \* RelayConfig.BatchSize
  InitialDelay,   \* RelayConfig.InitialInterval
  MaxDelay,       \* RelayConfig.MaxInterval
  Stale,          \* how old a claim grows before it is taken back
  MaxFaults,      \* bound on crashes and lost database calls
  MaxStalls,      \* bound on how often a batch outlives its claims
  None            \* no row, or no claim

ASSUME EventAssumption == Event \subseteq Nat /\ IsFiniteSet(Event)
ASSUME RelayAssumption == IsFiniteSet(Relay)
ASSUME LimitAssumption ==
  /\ MaxRetries \in Nat \ {0} /\ BatchSize \in Nat \ {0}
  /\ InitialDelay \in Nat /\ MaxDelay \in Nat /\ Stale \in Nat
  /\ MaxDelay <= Stale
  /\ MaxFaults \in Nat /\ MaxStalls \in Nat

MaxAge == Stale + 1
Age    == 0 .. MaxAge

Older(a, d) == IF a + d > MaxAge THEN MaxAge ELSE a + d

EventStatus == {"pending", "processing", "published", "failed"}

OutboxRow == [status : EventStatus, retry : Nat, age : Age]

\* What a relay keeps of a row it has claimed: the row as SELECT read it.
Claim == [status : {"pending", "failed"}, retry : 0 .. MaxRetries - 1, age : Age]

ASSUME NoneAssumption == None \notin OutboxRow \cup Claim

VARIABLES
  row,         \* outbox_events
  delivered,   \* the events SNS has accepted at least once
  batch,       \* the claimed events each relay has still to finish
  batchAge,    \* the time since the relay claimed its batch
  result,      \* what SNS answered for the first event of the batch
  faults, stalls

vars == <<row, delivered, batch, batchAge, result, faults, stalls>>

TypeOK ==
  /\ row \in [Event -> OutboxRow \cup {None}]
  /\ delivered \subseteq Event
  /\ batch \in [Relay -> [Event -> Claim \cup {None}]]
  /\ batchAge \in [Relay -> Age]
  /\ result \in [Relay -> {"none", "accepted", "refused"}]
  /\ faults \in 0 .. MaxFaults
  /\ stalls \in 0 .. MaxStalls

NoClaims == [e \in Event |-> None]

Init ==
  /\ row = [e \in Event |-> None]
  /\ delivered = {}
  /\ batch = [r \in Relay |-> NoClaims]
  /\ batchAge = [r \in Relay |-> 0]
  /\ result = [r \in Relay |-> "none"]
  /\ faults = 0
  /\ stalls = 0

\* The events relay r has claimed and not finished, and the one it is at.
Claimed(r) == {e \in Event : batch[r][e] # None}
Busy(r)    == Claimed(r) # {}
First(r)   == CHOOSE e \in Claimed(r) : \A f \in Claimed(r) : e <= f

-----------------------------------------------------------------------------
\* A ledger transaction commits with this event.
CreateOutboxEvent(e) ==
  /\ row[e] = None
  /\ row' = [row EXCEPT ![e] = [status |-> "pending", retry |-> 0, age |-> 0]]
  /\ UNCHANGED <<delivered, batch, batchAge, result, faults, stalls>>

\* Mutant of Requeued: claims are never taken back.
NothingRequeued == row

\* The rows once stale claims are taken back.
Requeued ==
  [e \in Event |->
     IF row[e] # None /\ row[e].status = "processing" /\ row[e].age > Stale
     THEN [row[e] EXCEPT !.status = "failed", !.age = 0]
     ELSE row[e]]

\* Mutant of Fetchable: no limit on the retries.
FetchableForever(R) ==
  {e \in Event : R[e] # None /\ R[e].status \in {"pending", "failed"}}

Fetchable(R) ==
  {e \in Event : /\ R[e] # None
                 /\ R[e].status \in {"pending", "failed"}
                 /\ R[e].retry < MaxRetries}

\* C is what ORDER BY created_at LIMIT BatchSize leaves of the fetchable rows F.
Oldest(C, F) ==
  /\ C \subseteq F
  /\ \A e \in C, f \in F \ C : e < f
  /\ IF Cardinality(F) <= BatchSize THEN C = F ELSE Cardinality(C) = BatchSize

\* Mutant of ClaimRow: the SELECT takes its locks and marks nothing.
UnmarkedRow(w) == w

ClaimRow(w) == [w EXCEPT !.status = "processing", !.age = 0]

\* FetchPending: stale claims are taken back, the oldest rows read and marked.
FetchPending(r) ==
  /\ ~Busy(r)
  /\ \E C \in SUBSET Fetchable(Requeued) :
       /\ Oldest(C, Fetchable(Requeued))
       /\ batch' = [batch EXCEPT ![r] = [e \in Event |-> IF e \in C THEN Requeued[e] ELSE None]]
       /\ row' = [e \in Event |-> IF e \in C THEN ClaimRow(Requeued[e]) ELSE Requeued[e]]
  /\ batchAge' = [batchAge EXCEPT ![r] = 0]
  /\ UNCHANGED <<delivered, result, faults, stalls>>

\* The relay is done with its first event.
Finish(r) ==
  /\ batch' = [batch EXCEPT ![r][First(r)] = None]
  /\ result' = [result EXCEPT ![r] = "none"]
  /\ UNCHANGED <<delivered, batchAge, stalls>>

\* ExponentialBackoff.NextDelay draws a delay below this bound.
DelayBound(n) ==
  IF n = 0 THEN 0
  ELSE IF InitialDelay * 2 ^ (n - 1) > MaxDelay THEN MaxDelay ELSE InitialDelay * 2 ^ (n - 1)

\* isEligibleForProcessing may say no to a failed event before that bound.
MayWait(c) == c.status = "failed" /\ c.age < DelayBound(c.retry)

\* ReleaseClaim: the row gets back the updated_at it had, if it is still claimed.
ReleaseClaim(r) ==
  /\ Busy(r) /\ result[r] = "none"
  /\ LET e == First(r)
     IN  /\ MayWait(batch[r][e])
         /\ row' = IF row[e].status = "processing"
                   THEN [row EXCEPT ![e].status = "failed",
                                    ![e].age = Older(batch[r][e].age, batchAge[r])]
                   ELSE row
  /\ Finish(r)
  /\ UNCHANGED faults

\* Publish: SNS takes the event or not, and an error may hide that it did.
Publish(r) ==
  /\ Busy(r) /\ result[r] = "none"
  /\ \/ /\ delivered' = delivered \cup {First(r)}
        /\ result' = [result EXCEPT ![r] = "accepted"]
     \/ /\ delivered' \in {delivered, delivered \cup {First(r)}}
        /\ result' = [result EXCEPT ![r] = "refused"]
  /\ UNCHANGED <<row, batch, batchAge, faults, stalls>>

\* Mutant of MarkPublished: whatever SNS answered.
MarkAnyPublished(r) ==
  /\ Busy(r) /\ result[r] # "none"
  /\ row' = [row EXCEPT ![First(r)].status = "published", ![First(r)].age = 0]
  /\ Finish(r)
  /\ UNCHANGED faults

MarkPublished(r) ==
  /\ Busy(r) /\ result[r] = "accepted"
  /\ row' = [row EXCEPT ![First(r)].status = "published", ![First(r)].age = 0]
  /\ Finish(r)
  /\ UNCHANGED faults

MarkFailed(r) ==
  /\ Busy(r) /\ result[r] = "refused"
  /\ row' = [row EXCEPT ![First(r)].status = "failed",
                        ![First(r)].retry = @ + 1,
                        ![First(r)].age = batchAge[r]]
  /\ Finish(r)
  /\ UNCHANGED faults

Fault == faults < MaxFaults /\ faults' = faults + 1

\* The update that would record the result, or release the claim, fails: the
\* relay logs it and goes on with the next event.
LoseUpdate(r) ==
  /\ Busy(r)
  /\ result[r] # "none" \/ MayWait(batch[r][First(r)])
  /\ Fault
  /\ Finish(r)
  /\ UNCHANGED row

\* The replica stops and starts again, or FetchPending fails after its commit.
Crash(r) ==
  /\ Busy(r)
  /\ Fault
  /\ batch' = [batch EXCEPT ![r] = NoClaims]
  /\ result' = [result EXCEPT ![r] = "none"]
  /\ UNCHANGED <<row, delivered, batchAge, stalls>>

\* Time passes.  A batch that is at the age of its claims' end outlives them
\* only by a stall.
Tick ==
  /\ row' = [e \in Event |->
       IF row[e] # None /\ row[e].status \in {"processing", "failed"}
       THEN [row[e] EXCEPT !.age = Older(@, 1)]
       ELSE row[e]]
  /\ batchAge' = [r \in Relay |-> IF Busy(r) THEN Older(batchAge[r], 1) ELSE batchAge[r]]
  /\ IF \E r \in Relay : Busy(r) /\ batchAge[r] = Stale
     THEN stalls < MaxStalls /\ stalls' = stalls + 1
     ELSE UNCHANGED stalls
  /\ UNCHANGED <<delivered, batch, result, faults>>

\* ProcessBatch, a call at a time.
Step(r) ==
  FetchPending(r) \/ ReleaseClaim(r) \/ Publish(r) \/ MarkPublished(r) \/ MarkFailed(r)

Next ==
  \/ \E e \in Event : CreateOutboxEvent(e)
  \/ \E r \in Relay : Step(r) \/ LoseUpdate(r) \/ Crash(r)
  \/ Tick

Spec == Init /\ [][Next]_vars

\* A relay polls and goes on with its batch, and time passes.  Nothing makes a
\* ledger transaction commit, SNS accept, or a fault happen.
Fairness == (\A r \in Relay : WF_vars(Step(r))) /\ WF_vars(Tick)

FairSpec == Spec /\ Fairness

-----------------------------------------------------------------------------
\* A row says published only of an event that SNS has accepted, whatever was
\* lost or done twice: nothing is dropped on the way (processEvent).
PublishedWasDelivered ==
  \A e \in Event : row[e] # None /\ row[e].status = "published" => e \in delivered

\* The relays that have claimed e and not finished.
Claimants(e) == {r \in Relay : batch[r][e] # None}

\* No event is retried without end: relays whose claims overlap can exceed the
\* limit only by the attempts that were under way.
AttemptsBounded ==
  \A e \in Event : row[e] # None =>
    row[e].retry + Cardinality(Claimants(e)) < MaxRetries + Cardinality(Relay)

\* While one relay has an event, no other one does (FetchPending).
ClaimsExclusive ==
  \A r, q \in Relay : \A e \in Event : batch[r][e] # None /\ batch[q][e] # None => r = q

\* That holds for as long as every batch is finished before its claims are taken
\* back, whatever crashes, is lost or is released meanwhile.
ExclusiveUnlessStalled == stalls = 0 => ClaimsExclusive

\* Published, or given up after MaxRetries refusals.
Settled(e) ==
  row[e] # None /\ (row[e].status = "published" \/ row[e].retry >= MaxRetries)

\* In the end every event is settled for good: no crash, lost update or stall
\* leaves one claimed or waiting for ever.
EventsSettle == <>[](\A e \in Event : row[e] # None => Settled(e))
=============================================================================
