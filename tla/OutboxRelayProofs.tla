-------------------------- MODULE OutboxRelayProofs --------------------------
(***************************************************************************)
(* What holds of the outbox relays for every number of relays and events   *)
(* and every limit: types, that published means delivered, the bound on    *)
(* the attempts, and, when no batch outlives its claims, that no two       *)
(* relays have the same event.                                             *)
(***************************************************************************)
EXTENDS OutboxRelay, Counting

\* Ages stay ages.
LEMMA OlderType ==
  ASSUME NEW a \in Age, NEW d \in Age
  PROVE  Older(a, d) \in Age
  BY LimitAssumption DEF Older, Age, MaxAge

\* A busy relay is at one of the events it has claimed.
LEMMA FirstType ==
  ASSUME TypeOK, NEW r \in Relay, Busy(r)
  PROVE  /\ First(r) \in Event
         /\ batch[r][First(r)] # None
         /\ batch[r][First(r)] \in Claim
<1>1. Claimed(r) \subseteq Nat /\ Claimed(r) # {} /\ IsFiniteSet(Claimed(r))
  BY EventAssumption, FS_Subset DEF Claimed, Busy
<1>2. \E e \in Claimed(r) : \A f \in Claimed(r) : e <= f
  BY <1>1, LeastNatural
<1>3. First(r) \in Claimed(r)
  BY <1>2 DEF First
<1> QED
  BY <1>3 DEF Claimed, TypeOK

\* Taking stale claims back adds and drops no row and counts no retry, and the
\* rows that can then be fetched are claims.
LEMMA RequeuedType ==
  ASSUME TypeOK, NEW e \in Event
  PROVE  /\ row[e] = None => Requeued[e] = None
         /\ row[e] # None => /\ Requeued[e] \in OutboxRow
                            /\ Requeued[e] # None
                            /\ Requeued[e].retry = row[e].retry
         /\ e \in Fetchable(Requeued) => /\ Requeued[e] \in Claim
                                         /\ row[e] # None
                                         /\ row[e].retry < MaxRetries
<1>1. row[e] \in OutboxRow \cup {None} /\ 0 \in Age
  BY LimitAssumption DEF TypeOK, Age, MaxAge
<1>2. row[e] = None => Requeued[e] = None
  BY DEF Requeued
<1>3. ASSUME row[e] # None
      PROVE  Requeued[e] \in OutboxRow /\ Requeued[e].retry = row[e].retry
  BY <1>1, <1>3 DEF Requeued, OutboxRow, EventStatus
<1>4. ASSUME e \in Fetchable(Requeued)
      PROVE  Requeued[e] \in Claim /\ row[e] # None /\ row[e].retry < MaxRetries
  <2>1. /\ Requeued[e] # None /\ Requeued[e].status \in {"pending", "failed"}
        /\ Requeued[e].retry < MaxRetries
    BY <1>4 DEF Fetchable
  <2>2. Requeued[e] \in OutboxRow /\ Requeued[e].retry = row[e].retry
    BY <1>2, <1>3, <2>1
  <2>3. Requeued[e].retry \in 0 .. MaxRetries - 1
    BY <2>1, <2>2, LimitAssumption DEF OutboxRow
  <2> QED
    BY <1>2, <2>1, <2>2, <2>3 DEF OutboxRow, Claim
<1> QED
  BY <1>2, <1>3, <1>4, NoneAssumption

\* Finishing an event keeps the types of what it changes.
LEMMA FinishType ==
  ASSUME TypeOK, NEW r \in Relay, Busy(r), Finish(r)
  PROVE  /\ batch' \in [Relay -> [Event -> Claim \cup {None}]]
         /\ result' \in [Relay -> {"none", "accepted", "refused"}]
         /\ batch' = [batch EXCEPT ![r][First(r)] = None]
         /\ UNCHANGED <<delivered, batchAge, stalls>>
  BY FirstType DEF Finish, TypeOK

\* A claim is always of a row.
ClaimsHaveRows ==
  \A r \in Relay : \A e \in Event : batch[r][e] # None => row[e] # None

TypeInv == TypeOK /\ ClaimsHaveRows

\* The steps of a relay that record something in its first event's row.
LEMMA RecordType ==
  ASSUME TypeInv, NEW r \in Relay,
         ReleaseClaim(r) \/ MarkPublished(r) \/ MarkFailed(r) \/ LoseUpdate(r)
  PROVE  TypeInv'
<1>1. Busy(r) /\ Finish(r)
  BY DEF ReleaseClaim, MarkPublished, MarkFailed, LoseUpdate
<1>2. First(r) \in Event /\ row[First(r)] \in OutboxRow /\ batch[r][First(r)] \in Claim
  BY <1>1, FirstType DEF TypeInv, TypeOK, ClaimsHaveRows
<1>3. batchAge[r] \in Age /\ 0 \in Age /\ Older(batch[r][First(r)].age, batchAge[r]) \in Age
  BY <1>2, OlderType, LimitAssumption DEF TypeInv, TypeOK, Claim, Age, MaxAge
<1>4. faults' \in 0 .. MaxFaults
  BY LimitAssumption DEF ReleaseClaim, MarkPublished, MarkFailed, LoseUpdate, Fault, TypeInv, TypeOK
<1>5. /\ row' \in [Event -> OutboxRow \cup {None}]
      /\ \A e \in Event : row[e] # None => row'[e] # None
  <2>1. ASSUME NEW w \in OutboxRow, row' = [row EXCEPT ![First(r)] = w]
        PROVE  /\ row' \in [Event -> OutboxRow \cup {None}]
               /\ \A e \in Event : row[e] # None => row'[e] # None
    BY <2>1, <1>2, NoneAssumption DEF TypeInv, TypeOK
  <2>2. CASE UNCHANGED row
    BY <2>2 DEF TypeInv, TypeOK
  <2>3. CASE MarkPublished(r)
    <3> DEFINE w == [row[First(r)] EXCEPT !.status = "published", !.age = 0]
    <3>1. w \in OutboxRow /\ row' = [row EXCEPT ![First(r)] = w]
      BY <2>3, <1>2, <1>3 DEF MarkPublished, OutboxRow, EventStatus, TypeInv, TypeOK
    <3> HIDE DEF w
    <3> QED
      BY <2>1, <3>1
  <2>4. CASE MarkFailed(r)
    <3> DEFINE w == [row[First(r)] EXCEPT !.status = "failed", !.retry = @ + 1,
                                          !.age = batchAge[r]]
    <3>1. w \in OutboxRow /\ row' = [row EXCEPT ![First(r)] = w]
      BY <2>4, <1>2, <1>3 DEF MarkFailed, OutboxRow, EventStatus, TypeInv, TypeOK
    <3> HIDE DEF w
    <3> QED
      BY <2>1, <3>1
  <2>5. CASE ReleaseClaim(r) /\ ~UNCHANGED row
    <3> DEFINE w == [row[First(r)] EXCEPT !.status = "failed",
                                          !.age = Older(batch[r][First(r)].age, batchAge[r])]
    <3>1. w \in OutboxRow /\ row' = [row EXCEPT ![First(r)] = w]
      BY <2>5, <1>2, <1>3 DEF ReleaseClaim, OutboxRow, EventStatus, TypeInv, TypeOK
    <3> HIDE DEF w
    <3> QED
      BY <2>1, <3>1
  <2> QED
    BY <2>2, <2>3, <2>4, <2>5 DEF LoseUpdate
<1> QED
  BY <1>1, <1>4, <1>5, FinishType DEF TypeInv, TypeOK, ClaimsHaveRows

LEMMA TypeStep ==
  ASSUME TypeInv, [Next]_vars
  PROVE  TypeInv'
<1> USE DEF TypeInv, TypeOK, ClaimsHaveRows
<1>1. ASSUME NEW e \in Event, CreateOutboxEvent(e) PROVE TypeInv'
  <2>1. [status |-> "pending", retry |-> 0, age |-> 0] \in OutboxRow
    BY LimitAssumption DEF OutboxRow, EventStatus, Age, MaxAge
  <2> QED
    BY <1>1, <2>1, NoneAssumption DEF CreateOutboxEvent
<1>2. ASSUME NEW r \in Relay, FetchPending(r) PROVE TypeInv'
  <2>1. PICK C \in SUBSET Fetchable(Requeued) :
          /\ batch' = [batch EXCEPT ![r] = [e \in Event |-> IF e \in C THEN Requeued[e] ELSE None]]
          /\ row' = [e \in Event |-> IF e \in C THEN ClaimRow(Requeued[e]) ELSE Requeued[e]]
          /\ batchAge' = [batchAge EXCEPT ![r] = 0]
          /\ UNCHANGED <<delivered, result, faults, stalls>>
    BY <1>2 DEF FetchPending
  <2>2. /\ \A e \in C : e \in Event /\ Requeued[e] \in Claim /\ Requeued[e] \in OutboxRow
        /\ \A e \in Event : Requeued[e] \in OutboxRow \cup {None}
    BY RequeuedType DEF Fetchable
  <2>3. \A e \in Event : row[e] # None => Requeued[e] # None
    BY RequeuedType
  <2>4. 0 \in Age
    BY LimitAssumption DEF Age, MaxAge
  <2>5. \A w \in OutboxRow : ClaimRow(w) \in OutboxRow /\ ClaimRow(w) # None
    BY <2>4, NoneAssumption DEF ClaimRow, OutboxRow, EventStatus
  <2>6. row' \in [Event -> OutboxRow \cup {None}]
    BY <2>1, <2>2, <2>5
  <2>7. batch' \in [Relay -> [Event -> Claim \cup {None}]]
    BY <2>1, <2>2
  <2>8. ClaimsHaveRows'
    BY <2>1, <2>2, <2>3, <2>5
  <2> QED
    BY <2>1, <2>4, <2>6, <2>7, <2>8
<1>3. ASSUME NEW r \in Relay, Publish(r) PROVE TypeInv'
  BY <1>3, FirstType DEF Publish
<1>4. ASSUME NEW r \in Relay, Crash(r) PROVE TypeInv'
  BY <1>4, LimitAssumption DEF Crash, Fault, NoClaims
<1>5. CASE Tick
  <2>1. 1 \in Age
    BY LimitAssumption DEF Age, MaxAge
  <2>2. \A a \in Age : Older(a, 1) \in Age
    BY <2>1, OlderType
  <2>3. \A e \in Event : row[e] # None =>
          [row[e] EXCEPT !.age = Older(@, 1)] \in OutboxRow
    BY <2>2 DEF OutboxRow
  <2>4. row' \in [Event -> OutboxRow \cup {None}]
        /\ \A e \in Event : row[e] # None => row'[e] # None
    BY <1>5, <2>3, NoneAssumption DEF Tick
  <2>5. batchAge' \in [Relay -> Age]
    BY <1>5, <2>2 DEF Tick
  <2>6. stalls' \in 0 .. MaxStalls
    BY <1>5, LimitAssumption DEF Tick
  <2> QED
    BY <1>5, <2>4, <2>5, <2>6 DEF Tick
<1>6. CASE UNCHANGED vars
  BY <1>6 DEF vars
<1> QED
  BY <1>1, <1>2, <1>3, <1>4, <1>5, <1>6, RecordType DEF Next, Step

LEMMA TypeInit == Init => TypeInv
  BY LimitAssumption DEF Init, TypeInv, TypeOK, ClaimsHaveRows, NoClaims, Age, MaxAge

\* Every variable keeps its type: a relay only ever publishes rows below the
\* retry limit.
THEOREM TypeCorrect == Spec => []TypeOK
<1>1. TypeInv => TypeOK
  BY DEF TypeInv
<1> QED
  BY <1>1, TypeInit, TypeStep, PTL DEF Spec

-----------------------------------------------------------------------------
(* Published means delivered *)

\* What SNS has accepted of a relay's batch, it is still at.
AcceptedIsFirst ==
  \A r \in Relay : result[r] = "accepted" => Busy(r) /\ First(r) \in delivered

PublishedInv == TypeInv /\ AcceptedIsFirst /\ PublishedWasDelivered

\* A relay's answer from SNS is kept by every step that leaves its batch alone.
LEMMA AcceptedKept ==
  ASSUME AcceptedIsFirst, delivered \subseteq delivered',
         \A q \in Relay : result'[q] = "accepted" =>
           /\ batch'[q] = batch[q]
           /\ result[q] = "accepted" \/ (Busy(q) /\ First(q) \in delivered')
  PROVE  AcceptedIsFirst'
<1>1. ASSUME NEW q \in Relay, batch'[q] = batch[q]
      PROVE  (Busy(q))' = Busy(q) /\ (First(q))' = First(q)
  BY <1>1 DEF Busy, First, Claimed
<1> QED
  BY <1>1 DEF AcceptedIsFirst

\* The steps that record something in the first event's row.
LEMMA PublishedRecord ==
  ASSUME PublishedInv, NEW r \in Relay,
         ReleaseClaim(r) \/ MarkPublished(r) \/ MarkFailed(r) \/ LoseUpdate(r)
  PROVE  AcceptedIsFirst' /\ PublishedWasDelivered'
<1> USE DEF PublishedInv, TypeInv, TypeOK
<1>1. Busy(r) /\ Finish(r)
  BY DEF ReleaseClaim, MarkPublished, MarkFailed, LoseUpdate
<1>2. First(r) \in Event /\ row[First(r)] \in OutboxRow
  BY <1>1, FirstType DEF ClaimsHaveRows
<1>3. delivered' = delivered /\ result'[r] = "none"
  BY <1>1 DEF Finish
<1>4. \A q \in Relay \ {r} : batch'[q] = batch[q] /\ result'[q] = result[q]
  BY <1>1 DEF Finish
<1>5. AcceptedIsFirst'
  BY <1>3, <1>4, AcceptedKept
<1>6. \A e \in Event \ {First(r)} : row'[e] = row[e]
  BY DEF ReleaseClaim, MarkPublished, MarkFailed, LoseUpdate
<1>7. ASSUME row'[First(r)].status = "published"
      PROVE  First(r) \in delivered
  <2>1. CASE MarkPublished(r)
    BY <2>1 DEF MarkPublished, AcceptedIsFirst
  <2>2. CASE UNCHANGED row
    BY <2>2, <1>2, <1>7, NoneAssumption DEF PublishedWasDelivered
  <2>3. CASE MarkFailed(r) \/ (ReleaseClaim(r) /\ ~UNCHANGED row)
    BY <2>3, <1>2, <1>7 DEF MarkFailed, ReleaseClaim, OutboxRow
  <2> QED
    BY <2>1, <2>2, <2>3 DEF LoseUpdate
<1> QED
  BY <1>3, <1>5, <1>6, <1>7 DEF PublishedWasDelivered

LEMMA PublishedStep ==
  ASSUME PublishedInv, [Next]_vars
  PROVE  AcceptedIsFirst' /\ PublishedWasDelivered'
<1> USE DEF PublishedInv, TypeInv, TypeOK
<1>1. ASSUME NEW e \in Event, CreateOutboxEvent(e)
      PROVE  AcceptedIsFirst' /\ PublishedWasDelivered'
  BY <1>1, AcceptedKept DEF CreateOutboxEvent, PublishedWasDelivered
<1>2. ASSUME NEW r \in Relay, FetchPending(r)
      PROVE  AcceptedIsFirst' /\ PublishedWasDelivered'
  <2>1. \A q \in Relay : result'[q] = "accepted" => batch'[q] = batch[q] /\ result[q] = "accepted"
    BY <1>2 DEF FetchPending, AcceptedIsFirst
  <2>2. ASSUME NEW e \in Event, row'[e] # None, row'[e].status = "published"
        PROVE  e \in delivered
    <3>1. row[e] # None
      BY <1>2, <2>2, RequeuedType DEF FetchPending, Fetchable
    <3>2. row[e] \in OutboxRow /\ Requeued[e] \in OutboxRow
      BY <3>1, RequeuedType
    <3>3. row'[e] = Requeued[e]
      <4>1. row'[e] \in {ClaimRow(Requeued[e]), Requeued[e]}
        BY <1>2 DEF FetchPending
      <4>2. ClaimRow(Requeued[e]).status = "processing"
        BY <3>2 DEF ClaimRow, OutboxRow
      <4> QED
        BY <2>2, <4>1, <4>2
    <3>4. row[e].status = "published"
      BY <2>2, <3>2, <3>3 DEF Requeued, OutboxRow
    <3> QED
      BY <3>1, <3>4 DEF PublishedWasDelivered
  <2>3. delivered' = delivered
    BY <1>2 DEF FetchPending
  <2> QED
    BY <2>1, <2>2, <2>3, AcceptedKept DEF PublishedWasDelivered
<1>3. ASSUME NEW r \in Relay, Publish(r)
      PROVE  AcceptedIsFirst' /\ PublishedWasDelivered'
  <2>1. \A q \in Relay : result'[q] = "accepted" =>
          result[q] = "accepted" \/ (Busy(q) /\ First(q) \in delivered')
    BY <1>3 DEF Publish
  <2>2. delivered \subseteq delivered' /\ UNCHANGED <<batch, row>>
    BY <1>3 DEF Publish
  <2> QED
    BY <2>1, <2>2, AcceptedKept DEF PublishedWasDelivered
<1>4. ASSUME NEW r \in Relay, Crash(r)
      PROVE  AcceptedIsFirst' /\ PublishedWasDelivered'
  BY <1>4, AcceptedKept DEF Crash, PublishedWasDelivered
<1>5. CASE Tick
  <2>1. \A e \in Event : row'[e] # None => row[e] # None /\ (row'[e].status = "published" => row'[e] = row[e])
    BY <1>5 DEF Tick, OutboxRow
  <2> QED
    BY <1>5, <2>1, AcceptedKept DEF Tick, PublishedWasDelivered
<1>6. CASE UNCHANGED vars
  BY <1>6, AcceptedKept DEF vars, PublishedWasDelivered
<1> QED
  BY <1>1, <1>2, <1>3, <1>4, <1>5, <1>6, PublishedRecord DEF Next, Step

\* A row says published only of an event SNS has accepted: however relays crash,
\* lose updates or overlap, no event is marked without having been sent.
THEOREM PublishedDelivered == Spec => []PublishedWasDelivered
<1>1. Init => PublishedInv
  BY TypeInit DEF Init, PublishedInv, AcceptedIsFirst, PublishedWasDelivered
<1>2. PublishedInv /\ [Next]_vars => PublishedInv'
  BY TypeStep, PublishedStep DEF PublishedInv
<1>3. PublishedInv => PublishedWasDelivered
  BY DEF PublishedInv
<1> QED
  BY <1>1, <1>2, <1>3, PTL DEF Spec

-----------------------------------------------------------------------------
(* Attempts are bounded *)

LEMMA ClaimantsFinite ==
  ASSUME NEW e \in Event
  PROVE  /\ IsFiniteSet(Claimants(e))
         /\ Cardinality(Claimants(e)) \in Nat
         /\ Cardinality(Claimants(e)) <= Cardinality(Relay)
         /\ Cardinality(Relay) \in Nat
  BY RelayAssumption, FS_Subset, FS_CardinalityType DEF Claimants

\* An event keeps its bound when it gets no new claimant and no retry.
LEMMA NoNewClaimant ==
  ASSUME TypeOK, AttemptsBounded, NEW e \in Event, row[e] # None,
         row'[e].retry = row[e].retry,
         \A r \in Relay : batch'[r][e] # None => batch[r][e] # None
  PROVE  row'[e].retry + Cardinality(Claimants(e))' < MaxRetries + Cardinality(Relay)
<1>1. Claimants(e)' \subseteq Claimants(e)
  BY DEF Claimants
<1>2. Cardinality(Claimants(e)') <= Cardinality(Claimants(e)) /\ Cardinality(Claimants(e)') \in Nat
  BY <1>1, ClaimantsFinite, FS_Subset, FS_CardinalityType
<1>3. row[e].retry \in Nat
  BY DEF TypeOK, OutboxRow
<1> QED
  BY <1>2, <1>3, ClaimantsFinite, LimitAssumption DEF AttemptsBounded

LEMMA AttemptsStep ==
  ASSUME TypeInv, AttemptsBounded, [Next]_vars
  PROVE  AttemptsBounded'
<1> USE DEF TypeInv, TypeOK
<1>1. ASSUME NEW d \in Event, CreateOutboxEvent(d) PROVE AttemptsBounded'
  <2>1. ASSUME NEW e \in Event, row'[e] # None, e # d
        PROVE  row'[e].retry + Cardinality(Claimants(e))' < MaxRetries + Cardinality(Relay)
    BY <1>1, <2>1, NoNewClaimant DEF CreateOutboxEvent
  <2>2. Claimants(d)' = {} /\ row'[d].retry = 0
    BY <1>1 DEF CreateOutboxEvent, Claimants, ClaimsHaveRows
  <2>3. row'[d].retry + Cardinality(Claimants(d))' < MaxRetries + Cardinality(Relay)
    BY <2>2, FS_EmptySet, RelayAssumption, FS_CardinalityType, LimitAssumption
  <2> QED
    BY <2>1, <2>3 DEF AttemptsBounded
<1>2. ASSUME NEW r \in Relay, FetchPending(r) PROVE AttemptsBounded'
  <2>1. PICK C \in SUBSET Fetchable(Requeued) :
          /\ batch' = [batch EXCEPT ![r] = [e \in Event |-> IF e \in C THEN Requeued[e] ELSE None]]
          /\ row' = [e \in Event |-> IF e \in C THEN ClaimRow(Requeued[e]) ELSE Requeued[e]]
    BY <1>2 DEF FetchPending
  <2> SUFFICES ASSUME NEW e \in Event, row'[e] # None
               PROVE  row'[e].retry + Cardinality(Claimants(e))' < MaxRetries + Cardinality(Relay)
    BY DEF AttemptsBounded
  <2>2. row[e] # None
    BY <2>1, RequeuedType
  <2>3. Requeued[e] \in OutboxRow /\ Requeued[e].retry = row[e].retry
    BY <2>2, RequeuedType
  <2>4. row'[e].retry = row[e].retry
    BY <2>1, <2>3 DEF ClaimRow, OutboxRow
  <2>5. CASE e \in C
    <3>1. row[e].retry < MaxRetries /\ row[e].retry \in Nat
      BY <2>2, <2>5, RequeuedType DEF OutboxRow
    <3>2. /\ Cardinality(Claimants(e))' \in Nat
          /\ Cardinality(Claimants(e))' <= Cardinality(Relay)
          /\ Cardinality(Relay) \in Nat
      BY RelayAssumption, FS_Subset, FS_CardinalityType DEF Claimants
    <3> QED
      BY <2>4, <3>1, <3>2, LimitAssumption
  <2>6. CASE e \notin C
    <3>1. \A q \in Relay : batch'[q][e] # None => batch[q][e] # None
      BY <2>1, <2>6
    <3> QED
      BY <2>2, <2>4, <3>1, NoNewClaimant
  <2> QED
    BY <2>5, <2>6
<1>3. ASSUME NEW r \in Relay,
             ReleaseClaim(r) \/ MarkPublished(r) \/ MarkFailed(r) \/ LoseUpdate(r)
      PROVE  AttemptsBounded'
  <2>1. Busy(r) /\ Finish(r)
    BY <1>3 DEF ReleaseClaim, MarkPublished, MarkFailed, LoseUpdate
  <2>2. /\ First(r) \in Event /\ batch[r][First(r)] # None
        /\ row[First(r)] \in OutboxRow /\ row[First(r)] # None
    BY <2>1, FirstType DEF ClaimsHaveRows
  <2>3. batch' = [batch EXCEPT ![r][First(r)] = None]
    BY <2>1 DEF Finish
  <2>4. \A e \in Event \ {First(r)} : row'[e] = row[e]
    BY <1>3 DEF ReleaseClaim, MarkPublished, MarkFailed, LoseUpdate
  <2>5. \A q \in Relay : \A e \in Event : batch'[q][e] # None => batch[q][e] # None
    BY <2>3
  <2>6. CASE MarkFailed(r)
    <3>1. Claimants(First(r)) \in SUBSET Relay /\ r \in Claimants(First(r))
      BY <2>2 DEF Claimants
    <3>2. Claimants(First(r)) \ {r} = {q \in Relay : batch'[q][First(r)] # None}
      BY <2>2, <2>3 DEF Claimants
    <3>3. Cardinality({q \in Relay : batch'[q][First(r)] # None}) =
            Cardinality(Claimants(First(r))) - 1
      BY <2>2, <3>1, <3>2, ClaimantsFinite, FS_RemoveElement
    <3>4. row'[First(r)].retry = row[First(r)].retry + 1 /\ row[First(r)].retry \in Nat
      BY <2>2, <2>6 DEF MarkFailed, OutboxRow
    <3>5. row'[First(r)].retry + Cardinality({q \in Relay : batch'[q][First(r)] # None})
            < MaxRetries + Cardinality(Relay)
      BY <2>2, <3>3, <3>4, ClaimantsFinite, LimitAssumption DEF AttemptsBounded
    <3>6. ASSUME NEW e \in Event, e # First(r), row'[e] # None
          PROVE  row'[e].retry + Cardinality(Claimants(e))' < MaxRetries + Cardinality(Relay)
      BY <2>4, <2>5, <3>6, NoNewClaimant
    <3>7. ASSUME NEW e \in Event, e = First(r)
          PROVE  row'[e].retry + Cardinality(Claimants(e))' < MaxRetries + Cardinality(Relay)
      BY <3>5, <3>7 DEF Claimants
    <3> QED
      BY <3>6, <3>7 DEF AttemptsBounded
  <2>7. CASE ReleaseClaim(r) \/ MarkPublished(r) \/ LoseUpdate(r)
    <3>1. row'[First(r)].retry = row[First(r)].retry
      BY <2>2, <2>7 DEF ReleaseClaim, MarkPublished, LoseUpdate, OutboxRow
    <3>2. ASSUME NEW e \in Event, row'[e] # None
          PROVE  row[e] # None /\ row'[e].retry = row[e].retry
      BY <2>2, <2>4, <3>1, <3>2
    <3> QED
      BY <2>5, <3>2, NoNewClaimant DEF AttemptsBounded
  <2> QED
    BY <1>3, <2>6, <2>7
<1>4. ASSUME NEW r \in Relay, Crash(r) PROVE AttemptsBounded'
  <2>1. \A q \in Relay : \A e \in Event : batch'[q][e] # None => batch[q][e] # None
    BY <1>4 DEF Crash, NoClaims
  <2> QED
    BY <1>4, <2>1, NoNewClaimant DEF Crash, AttemptsBounded
<1>5. ASSUME Tick \/ UNCHANGED vars \/ \E r \in Relay : Publish(r)
      PROVE  AttemptsBounded'
  <2>1. \A e \in Event : row'[e] # None => row[e] # None /\ row'[e].retry = row[e].retry
    BY <1>5 DEF Tick, vars, Publish, OutboxRow
  <2>2. batch' = batch
    BY <1>5 DEF Tick, vars, Publish
  <2> QED
    BY <2>1, <2>2, NoNewClaimant DEF AttemptsBounded
<1> QED
  BY <1>1, <1>2, <1>3, <1>4, <1>5 DEF Next, Step

\* No event is retried without end: overlapping claims exceed the limit at most
\* by one attempt for each other relay.
THEOREM BoundedAttempts == Spec => []AttemptsBounded
<1>1. Init => TypeInv /\ AttemptsBounded
  BY TypeInit DEF Init, AttemptsBounded
<1>2. TypeInv /\ AttemptsBounded /\ [Next]_vars => (TypeInv /\ AttemptsBounded)'
  BY TypeStep, AttemptsStep
<1> QED
  BY <1>1, <1>2, PTL DEF Spec

-----------------------------------------------------------------------------
(* Claims are exclusive while no batch outlives them *)

\* A claim is marked in its row, at the age of the batch it belongs to, and that
\* is not yet the age at which it is taken back.
ClaimsMarked ==
  \A r \in Relay : \A e \in Event : batch[r][e] # None =>
    /\ row[e].status = "processing"
    /\ row[e].age = batchAge[r]
    /\ row[e].age <= Stale

\* What holds until the first stall.
Owned == ClaimsMarked /\ ClaimsExclusive

ExclusiveInv == TypeInv /\ (stalls = 0 => Owned)

\* With one owner each, claims of other events stay as they were marked.
LEMMA ExclusiveRecord ==
  ASSUME TypeInv, Owned, NEW r \in Relay,
         ReleaseClaim(r) \/ MarkPublished(r) \/ MarkFailed(r) \/ LoseUpdate(r)
  PROVE  ClaimsMarked' /\ ClaimsExclusive'
<1> USE DEF Owned, TypeInv, TypeOK
<1>1. Busy(r) /\ Finish(r)
  BY DEF ReleaseClaim, MarkPublished, MarkFailed, LoseUpdate
<1>2. First(r) \in Event /\ batch[r][First(r)] # None
  BY <1>1, FirstType
<1>3. batch' = [batch EXCEPT ![r][First(r)] = None] /\ batchAge' = batchAge
  BY <1>1 DEF Finish
<1>4. \A e \in Event \ {First(r)} : row'[e] = row[e]
  BY DEF ReleaseClaim, MarkPublished, MarkFailed, LoseUpdate
<1>5. \A q \in Relay : \A e \in Event : batch'[q][e] # None =>
        batch[q][e] # None /\ e # First(r)
  BY <1>2, <1>3 DEF ClaimsExclusive
<1> QED
  BY <1>3, <1>4, <1>5 DEF ClaimsMarked, ClaimsExclusive

\* Time passes for a claim and for its batch alike.
LEMMA ExclusiveTick ==
  ASSUME TypeInv, Owned, stalls' = 0, Tick
  PROVE  ClaimsMarked' /\ ClaimsExclusive'
<1> USE DEF Owned, TypeInv, TypeOK
<1>1. batch' = batch
  BY DEF Tick
<1>2. ASSUME NEW r \in Relay, NEW e \in Event, batch[r][e] # None
      PROVE  /\ row'[e].status = "processing"
             /\ row'[e].age = batchAge'[r]
             /\ row'[e].age <= Stale
  <2>1. Busy(r)
    BY <1>2 DEF Busy, Claimed
  <2>2. row[e] \in OutboxRow /\ row[e] # None
    BY <1>2 DEF ClaimsHaveRows
  <2>3. row[e].status = "processing" /\ row[e].age = batchAge[r] /\ batchAge[r] <= Stale
    BY <1>2 DEF ClaimsMarked
  <2>4. batchAge[r] # Stale
    BY <2>1, LimitAssumption DEF Tick
  <2>5. row'[e] = [row[e] EXCEPT !.age = Older(row[e].age, 1)]
    BY <2>2, <2>3 DEF Tick
  <2>6. batchAge'[r] = Older(batchAge[r], 1)
    BY <2>1 DEF Tick
  <2>7. row'[e].status = "processing" /\ row'[e].age = Older(batchAge[r], 1)
    BY <2>2, <2>3, <2>5 DEF OutboxRow
  <2>8. Older(batchAge[r], 1) <= Stale
    <3>1. batchAge[r] \in Int /\ Stale \in Int
      BY LimitAssumption DEF Age
    <3> HIDE DEF Owned, TypeInv, TypeOK
    <3>2. batchAge[r] <= Stale
      BY <2>3
    <3>3. batchAge[r] + 1 <= Stale
      BY <3>2, <2>4, <3>1
    <3> QED
      BY <3>1, <3>3 DEF Older, MaxAge
  <2> QED
    BY <2>6, <2>7, <2>8
<1> QED
  BY <1>1, <1>2 DEF ClaimsMarked, ClaimsExclusive

LEMMA ExclusiveStep ==
  ASSUME TypeInv, Owned, stalls' = 0, [Next]_vars
  PROVE  ClaimsMarked' /\ ClaimsExclusive'
<1> USE DEF Owned, TypeInv, TypeOK
<1>1. ASSUME NEW d \in Event, CreateOutboxEvent(d)
      PROVE  ClaimsMarked' /\ ClaimsExclusive'
  <2>1. \A r \in Relay : batch[r][d] = None
    BY <1>1 DEF CreateOutboxEvent, ClaimsHaveRows
  <2>2. UNCHANGED <<batch, batchAge>> /\ \A e \in Event \ {d} : row'[e] = row[e]
    BY <1>1 DEF CreateOutboxEvent
  <2> QED
    BY <2>1, <2>2 DEF ClaimsMarked, ClaimsExclusive
<1>2. ASSUME NEW r \in Relay, FetchPending(r)
      PROVE  ClaimsMarked' /\ ClaimsExclusive'
  <2>1. PICK C \in SUBSET Fetchable(Requeued) :
          /\ batch' = [batch EXCEPT ![r] = [e \in Event |-> IF e \in C THEN Requeued[e] ELSE None]]
          /\ row' = [e \in Event |-> IF e \in C THEN ClaimRow(Requeued[e]) ELSE Requeued[e]]
          /\ batchAge' = [batchAge EXCEPT ![r] = 0]
    BY <1>2 DEF FetchPending
  \* What another relay has is not stale, so it is not fetched.
  <2>2. ASSUME NEW q \in Relay, NEW e \in Event, batch[q][e] # None
        PROVE  e \notin C /\ row'[e] = row[e]
    <3>1. row[e].status = "processing" /\ ~(row[e].age > Stale)
      <4>1. row[e].age \in Int /\ row[e].age <= Stale
        BY <2>2 DEF ClaimsMarked, Age
      <4> QED
        BY <2>2, <4>1, LimitAssumption DEF ClaimsMarked
    <3>2. Requeued[e] = row[e]
      BY <3>1 DEF Requeued
    <3>3. e \notin C
      BY <3>1, <3>2 DEF Fetchable
    <3> QED
      BY <2>1, <3>2, <3>3
  <2>3. ASSUME NEW e \in Event, e \in C
        PROVE  row'[e].status = "processing" /\ row'[e].age = 0
    <3>1. Requeued[e] \in OutboxRow
      BY <2>3, RequeuedType
    <3> QED
      BY <2>1, <2>3, <3>1 DEF ClaimRow, OutboxRow
  <2>4. \A e \in Event : batch'[r][e] # None => e \in C
    BY <2>1
  <2>5. \A q \in Relay \ {r} : batch'[q] = batch[q] /\ batchAge'[q] = batchAge[q]
    BY <2>1
  <2>6. batchAge'[r] = 0
    BY <2>1
  <2>7. ClaimsMarked'
    BY <2>2, <2>3, <2>4, <2>5, <2>6, LimitAssumption DEF ClaimsMarked
  <2> QED
    BY <2>2, <2>4, <2>5, <2>7 DEF ClaimsExclusive
<1>3. ASSUME NEW r \in Relay, Publish(r)
      PROVE  ClaimsMarked' /\ ClaimsExclusive'
  BY <1>3 DEF Publish, ClaimsMarked, ClaimsExclusive
<1>4. ASSUME NEW r \in Relay, Crash(r)
      PROVE  ClaimsMarked' /\ ClaimsExclusive'
  <2>1. /\ UNCHANGED <<row, batchAge>>
        /\ \A q \in Relay : \A e \in Event : batch'[q][e] # None => batch[q][e] # None
    BY <1>4 DEF Crash, NoClaims
  <2> QED
    BY <2>1 DEF ClaimsMarked, ClaimsExclusive
<1>5. CASE UNCHANGED vars
  BY <1>5 DEF vars, ClaimsMarked, ClaimsExclusive
<1> QED
  BY <1>1, <1>2, <1>3, <1>4, <1>5, ExclusiveRecord, ExclusiveTick DEF Next, Step

\* Stalls are only counted up.
LEMMA StallsGrow == TypeOK /\ [Next]_vars /\ stalls' = 0 => stalls = 0
<1> SUFFICES ASSUME TypeOK, [Next]_vars, stalls' = 0 PROVE stalls = 0
  OBVIOUS
<1>1. stalls \in Nat
  BY LimitAssumption DEF TypeOK
<1>2. stalls' = stalls \/ stalls' = stalls + 1
  BY DEF Next, Step, CreateOutboxEvent, FetchPending, ReleaseClaim, Publish, MarkPublished,
     MarkFailed, LoseUpdate, Crash, Finish, Tick, vars
<1> QED
  BY <1>1, <1>2

\* As long as every batch is finished before its claims are taken back, no two
\* relays have the same event, crashes and lost updates included (FetchPending).
THEOREM ExclusiveClaims == Spec => []ExclusiveUnlessStalled
<1>1. Init => ExclusiveInv
  BY TypeInit DEF Init, ExclusiveInv, Owned, ClaimsMarked, ClaimsExclusive, NoClaims
<1>2. ExclusiveInv /\ [Next]_vars => ExclusiveInv'
  <2> SUFFICES ASSUME TypeInv, stalls = 0 => Owned, [Next]_vars PROVE ExclusiveInv'
    BY DEF ExclusiveInv
  <2>1. TypeInv'
    BY TypeStep
  <2>2. ASSUME stalls' = 0 PROVE Owned'
    <3>1. stalls = 0
      BY <2>2, StallsGrow DEF TypeInv
    <3> QED
      BY <2>2, <3>1, ExclusiveStep DEF Owned
  <2> QED
    BY <2>1, <2>2 DEF ExclusiveInv
<1>3. ExclusiveInv => ExclusiveUnlessStalled
  BY DEF ExclusiveInv, Owned, ExclusiveUnlessStalled
<1> QED
  BY <1>1, <1>2, <1>3, PTL DEF Spec
=============================================================================
