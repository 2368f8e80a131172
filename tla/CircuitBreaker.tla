--------------------------- MODULE CircuitBreaker ---------------------------
(***************************************************************************)
(* The circuit breaker in front of the payment gateway, one for each       *)
(* process and shared by all its checkouts.  beforeExecution and           *)
(* afterExecution run under the breaker's mutex and are a step each; the   *)
(* call between them does not, so that results arrive in whatever state    *)
(* the breaker is by then.                                                 *)
(*                                                                         *)
(* Time is unbounded: the breaker only asks whether Timeout has passed     *)
(* since the last change, and sinceChange stops there.                     *)
(***************************************************************************)
EXTENDS Integers

CONSTANTS
  Caller,             \* the checkouts that may run at the same time
  FailureThreshold,
  SuccessThreshold,
  Timeout

ASSUME ThresholdAssumption ==
  FailureThreshold \in Nat \ {0} /\ SuccessThreshold \in Nat \ {0} /\ Timeout \in Nat

VARIABLES
  state,          \* cb.state
  failureCount,   \* cb.failureCount
  successCount,   \* cb.successCount
  sinceChange,    \* the time since cb.lastStateChange
  calling         \* the callers that are in fn

vars == <<state, failureCount, successCount, sinceChange, calling>>

counts == <<failureCount, successCount>>

\* A count stays below its threshold: at the threshold the breaker changes.
TypeOK ==
  /\ state \in {"closed", "half_open", "open"}
  /\ failureCount \in 0 .. FailureThreshold - 1
  /\ successCount \in 0 .. SuccessThreshold - 1
  /\ sinceChange \in 0 .. Timeout
  /\ calling \subseteq Caller

Init ==
  /\ state = "closed"
  /\ failureCount = 0
  /\ successCount = 0
  /\ sinceChange = 0
  /\ calling = {}

-----------------------------------------------------------------------------
\* Mutant of TransitionTo: the counts are kept.
TransitionKeepingCounts(new) ==
  /\ state' = new
  /\ sinceChange' = 0
  /\ UNCHANGED counts

TransitionTo(new) ==
  /\ state' = new
  /\ sinceChange' = 0
  /\ failureCount' = 0
  /\ successCount' = 0

\* A result that comes when the breaker is open changes nothing.
Ignored == UNCHANGED <<state, failureCount, successCount, sinceChange>>

\* evaluateStateChange: an open breaker whose Timeout has passed half-opens.
DueToHalfOpen == state = "open" /\ sinceChange >= Timeout
HalfOpen      == DueToHalfOpen /\ TransitionTo("half_open")

\* Mutant of BeforeExecution: only State() looks at the time.
BeforeExecutionAsIs(c) ==
  /\ c \notin calling /\ state # "open"
  /\ calling' = calling \cup {c}
  /\ UNCHANGED <<state, failureCount, successCount, sinceChange>>

\* beforeExecution lets the caller into fn.  A refusal changes nothing.
BeforeExecution(c) ==
  /\ c \notin calling
  /\ \/ HalfOpen
     \/ state # "open" /\ UNCHANGED <<state, failureCount, successCount, sinceChange>>
  /\ calling' = calling \cup {c}

\* State() looks at the time too.
ReadState == HalfOpen /\ UNCHANGED calling

OnSuccess ==
  \/ /\ state = "closed"
     /\ failureCount' = 0
     /\ UNCHANGED <<state, successCount, sinceChange>>
  \/ /\ state = "half_open" /\ successCount + 1 < SuccessThreshold
     /\ successCount' = successCount + 1
     /\ UNCHANGED <<state, failureCount, sinceChange>>
  \/ /\ state = "half_open" /\ successCount + 1 >= SuccessThreshold
     /\ TransitionTo("closed")
  \/ state = "open" /\ Ignored

\* A failure short of the threshold.
CountFailure ==
  /\ state = "closed"
  /\ failureCount' = failureCount + 1
  /\ UNCHANGED <<state, successCount, sinceChange>>

\* Mutant of OnFailure: one failure too many before the breaker opens.
OnFailureLate ==
  IF failureCount < FailureThreshold /\ state = "closed" THEN CountFailure
  ELSE IF state = "open" THEN Ignored ELSE TransitionTo("open")

\* Mutant of OnFailure: every failure opens the breaker anew.
OnFailureAnew ==
  IF failureCount + 1 < FailureThreshold /\ state = "closed" THEN CountFailure
  ELSE TransitionTo("open")

\* Mutant of OnFailure: the trials of a half-open breaker may fail.
OnFailureForgiving ==
  IF state # "closed" THEN Ignored
  ELSE IF failureCount + 1 < FailureThreshold THEN CountFailure ELSE TransitionTo("open")

OnFailure ==
  \/ failureCount + 1 < FailureThreshold /\ CountFailure
  \/ /\ state = "closed" /\ failureCount + 1 >= FailureThreshold
     /\ TransitionTo("open")
  \/ state = "half_open" /\ TransitionTo("open")
  \/ state = "open" /\ Ignored

\* afterExecution: fn has returned, with an error or without.
Returns(c)  == c \in calling /\ calling' = calling \ {c}
Succeeds(c) == Returns(c) /\ OnSuccess
Fails(c)    == Returns(c) /\ OnFailure

AfterExecution(c) == Succeeds(c) \/ Fails(c)

Tick ==
  /\ sinceChange < Timeout
  /\ sinceChange' = sinceChange + 1
  /\ UNCHANGED <<state, failureCount, successCount, calling>>

Next ==
  \/ \E c \in Caller : BeforeExecution(c) \/ AfterExecution(c)
  \/ ReadState
  \/ Tick

Spec == Init /\ [][Next]_vars

\* Checkouts keep coming, every call of the gateway returns, time passes.
Fairness ==
  /\ \A c \in Caller : WF_vars(BeforeExecution(c)) /\ WF_vars(AfterExecution(c))
  /\ WF_vars(Tick)

FairSpec == Spec /\ Fairness

-----------------------------------------------------------------------------
\* A period starts its counts from nothing, however many calls of the periods
\* before it still return (transitionTo, onSuccess, onFailure).
CountsOfThisPeriod ==
  /\ state # "closed" => failureCount = 0
  /\ state # "half_open" => successCount = 0

\* An open breaker stays open for Timeout and no longer: the late results of
\* calls that were let in before neither close it nor prolong the wait.
OpenForTimeout ==
  [][state = "open" =>
       \/ state' = "open" /\ sinceChange' >= sinceChange
       \/ state' = "half_open" /\ sinceChange >= Timeout]_vars

\* When the gateway fails no more, the breaker closes for good.
ClosesAfterOutage ==
  <>[][\A c \in Caller : ~Fails(c)]_vars => <>[](state = "closed")

\* While the gateway only fails, checkouts are spared it again and again.
OpensInOutage ==
  <>[][\A c \in Caller : ~Succeeds(c)]_vars => []<>(state = "open")
=============================================================================
