------------------------ MODULE CircuitBreakerProofs ------------------------
(***************************************************************************)
(* The safety of the circuit breaker, for any number of callers, any       *)
(* thresholds and any timeout.                                             *)
(***************************************************************************)
EXTENDS CircuitBreaker, TLAPS

\* TypeOK alone is not inductive: a closed breaker that kept successes from a
\* half-open period would pass the threshold in the next one.
BreakerInv == TypeOK /\ CountsOfThisPeriod

LEMMA InitBreaker == Init => BreakerInv
BY ThresholdAssumption DEF Init, BreakerInv, TypeOK, CountsOfThisPeriod

\* A transition leaves the breaker with fresh counts.
LEMMA TransitionFresh ==
  ASSUME TypeOK, NEW s \in {"closed", "half_open", "open"}, TransitionTo(s)
  PROVE  /\ state' = s
         /\ failureCount' \in 0 .. FailureThreshold - 1 /\ failureCount' = 0
         /\ successCount' \in 0 .. SuccessThreshold - 1 /\ successCount' = 0
         /\ sinceChange' \in 0 .. Timeout
BY ThresholdAssumption DEF TransitionTo

\* beforeExecution and State keep the invariant.
LEMMA EntryKeepsInv ==
  ASSUME BreakerInv, NEW c \in Caller, BeforeExecution(c) \/ ReadState
  PROVE  BreakerInv'
<1> USE DEF BreakerInv
<1>1. calling' \subseteq Caller
  BY DEF BeforeExecution, ReadState, TypeOK
<1>2. CASE HalfOpen
  <2>1. TransitionTo("half_open")
    BY <1>2 DEF HalfOpen
  <2> QED
    BY <1>1, <2>1, TransitionFresh DEF TypeOK, CountsOfThisPeriod
<1>3. CASE ~HalfOpen
  <2>1. UNCHANGED <<state, failureCount, successCount, sinceChange>>
    BY <1>3 DEF BeforeExecution, ReadState
  <2> QED
    BY <1>1, <2>1 DEF TypeOK, CountsOfThisPeriod
<1> QED
  BY <1>2, <1>3

\* afterExecution keeps the invariant, whatever state the result meets.
LEMMA ExitKeepsInv ==
  ASSUME BreakerInv, NEW c \in Caller, AfterExecution(c)
  PROVE  BreakerInv'
<1> USE DEF BreakerInv
<1>1. calling' \subseteq Caller
  BY DEF AfterExecution, Succeeds, Fails, Returns, TypeOK
<1>2. CASE TransitionTo("closed") \/ TransitionTo("open")
  BY <1>1, <1>2, TransitionFresh DEF TypeOK, CountsOfThisPeriod
<1>3. CASE Ignored
  BY <1>1, <1>3 DEF Ignored, TypeOK, CountsOfThisPeriod
<1>4. CASE failureCount + 1 < FailureThreshold /\ CountFailure
  BY <1>1, <1>4, ThresholdAssumption DEF CountFailure, TypeOK, CountsOfThisPeriod
<1>5. CASE /\ state = "closed"
           /\ failureCount' = 0
           /\ UNCHANGED <<state, successCount, sinceChange>>
  BY <1>1, <1>5, ThresholdAssumption DEF TypeOK, CountsOfThisPeriod
<1>6. CASE /\ state = "half_open" /\ successCount + 1 < SuccessThreshold
           /\ successCount' = successCount + 1
           /\ UNCHANGED <<state, failureCount, sinceChange>>
  BY <1>1, <1>6, ThresholdAssumption DEF TypeOK, CountsOfThisPeriod
<1> QED
  BY <1>2, <1>3, <1>4, <1>5, <1>6 DEF AfterExecution, Succeeds, Fails, OnSuccess, OnFailure

LEMMA NextBreaker == BreakerInv /\ [Next]_vars => BreakerInv'
<1> SUFFICES ASSUME BreakerInv, [Next]_vars PROVE BreakerInv'
  OBVIOUS
<1>1. CASE \E c \in Caller : BeforeExecution(c)
  BY <1>1, EntryKeepsInv
<1>2. CASE \E c \in Caller : AfterExecution(c)
  BY <1>2, ExitKeepsInv
<1>3. CASE ReadState
  <2>1. TransitionTo("half_open") /\ UNCHANGED calling
    BY <1>3 DEF ReadState, HalfOpen
  <2> QED
    BY <2>1, TransitionFresh DEF BreakerInv, TypeOK, CountsOfThisPeriod
<1>4. CASE Tick
  BY <1>4, ThresholdAssumption DEF Tick, BreakerInv, TypeOK, CountsOfThisPeriod
<1>5. CASE UNCHANGED vars
  BY <1>5 DEF vars, BreakerInv, TypeOK, CountsOfThisPeriod
<1> QED
  BY <1>1, <1>2, <1>3, <1>4, <1>5 DEF Next

LEMMA BreakerInvariant == Spec => []BreakerInv
BY InitBreaker, NextBreaker, PTL DEF Spec

\* A count never reaches its threshold without the breaker changing its state.
THEOREM TypeCorrect == Spec => []TypeOK
<1>1. BreakerInv => TypeOK
  BY DEF BreakerInv
<1> QED
  BY <1>1, BreakerInvariant, PTL

\* Every period starts its counts from nothing, however many calls of earlier
\* periods return in it (transitionTo, onSuccess, onFailure).
THEOREM FreshCounts == Spec => []CountsOfThisPeriod
<1>1. BreakerInv => CountsOfThisPeriod
  BY DEF BreakerInv
<1> QED
  BY <1>1, BreakerInvariant, PTL

\* Late results neither close an open breaker nor prolong its wait
\* (onSuccess, onFailure, evaluateStateChange).
THEOREM OpenPeriod == Spec => OpenForTimeout
<1> DEFINE Stays == state = "open" =>
                      \/ state' = "open" /\ sinceChange' >= sinceChange
                      \/ state' = "half_open" /\ sinceChange >= Timeout
<1>1. TypeOK /\ [Next]_vars => [Stays]_vars
  <2> SUFFICES ASSUME TypeOK, Next, state = "open" PROVE Stays
    OBVIOUS
  <2>1. sinceChange \in Int
    BY ThresholdAssumption DEF TypeOK
  <2>2. CASE ReadState \/ \E c \in Caller : BeforeExecution(c)
    BY <2>2 DEF ReadState, BeforeExecution, HalfOpen, DueToHalfOpen, TransitionTo
  <2>3. CASE \E c \in Caller : AfterExecution(c)
    <3>1. Ignored
      BY <2>3 DEF AfterExecution, Succeeds, Fails, OnSuccess, OnFailure, CountFailure
    <3> QED
      BY <2>1, <3>1 DEF Ignored
  <2>4. CASE Tick
    BY <2>1, <2>4 DEF Tick
  <2> QED
    BY <2>2, <2>3, <2>4 DEF Next
<1> QED
  BY <1>1, TypeCorrect, PTL DEF Spec, OpenForTimeout
=============================================================================
