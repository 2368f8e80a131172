--------------------------- MODULE HoldExpiration ---------------------------
(***************************************************************************)
(* HoldExpirationWorker on top of the core.  Each replica has one: every   *)
(* interval it lists the first holds that are due and asks                 *)
(* ExpireHoldUseCase to expire them one after the other, in a session of   *)
(* its own.                                                                *)
(***************************************************************************)
EXTENDS WalletLedger

CONSTANTS
  Worker,       \* the sessions of the workers
  BatchSize,    \* how many holds a worker lists
  Rank,         \* the order of the identifiers of holds
  ClientRequest, \* what the other sessions serve
  MaxFaults     \* bound on requests that fail and workers that stop

ExpiryOf(h) == [op |-> "expire", hold |-> h]

ASSUME WorkerAssumption ==
  /\ Worker \subseteq Session
  /\ BatchSize \in Nat \ {0}
  /\ Rank \in [HoldId -> Nat]
  /\ \A g, h \in HoldId : Rank[g] = Rank[h] => g = h
  /\ ClientRequest \subseteq Command
  /\ \A h \in HoldId : ExpiryOf(h) \in Command
  /\ MaxFaults \in Nat

VARIABLES
  batch,        \* the holds each worker still has to expire
  faults

workerVars     == <<batch, faults>>
expirationVars == <<vars, workerVars>>

WorkerInit == Init /\ batch = [w \in Worker |-> {}] /\ faults = 0

-----------------------------------------------------------------------------
Due(h) == holds[h] # None /\ holds[h].status = "authorized" /\ holds[h].expires <= clock

\* ORDER BY expires_at, id
Before(g, h) ==
  \/ holds[g].expires < holds[h].expires
  \/ holds[g].expires = holds[h].expires /\ Rank[g] < Rank[h]

\* Mutant of FirstDue: the query has no LIMIT.
AllDue == {h \in HoldId : Due(h)}

\* ListExpiredWalletHoldIDs
FirstDue ==
  {h \in HoldId : Due(h) /\ Cardinality({g \in HoldId : Due(g) /\ Before(g, h)}) < BatchSize}

\* ListExpiredHolds, when the last batch is done.
ListExpiredHolds(w) ==
  /\ pc[w] = "idle" /\ batch[w] = {}
  /\ batch' = [batch EXCEPT ![w] = FirstDue]
  /\ UNCHANGED <<vars, faults>>

\* Mutant of ExpireNext: an error ends the batch.
ExpireNextOrStop(w) ==
  /\ pc[w] = "idle"
  /\ \E h \in batch[w] :
       /\ \A g \in batch[w] : ~Before(g, h)
       /\ Submit(w, ExpiryOf(h))
       /\ batch' = [batch EXCEPT ![w] = {g \in batch[w] \ {h} : Found(h)}]
  /\ UNCHANGED faults

\* The next of the batch, whatever became of the one before it.
ExpireNext(w) ==
  /\ pc[w] = "idle"
  /\ \E h \in batch[w] :
       /\ \A g \in batch[w] : ~Before(g, h)
       /\ Submit(w, ExpiryOf(h))
       /\ batch' = [batch EXCEPT ![w] = @ \ {h}]
  /\ UNCHANGED faults

\* A request fails; or a worker stops, and with it what is left of its batch.
FailOrStop(p) ==
  /\ faults < MaxFaults
  /\ Abort(p)
  /\ faults' = faults + 1
  /\ \/ UNCHANGED batch
     \/ p \in Worker /\ batch' = [batch EXCEPT ![p] = {}]

WorkerNext ==
  \/ Tick /\ UNCHANGED workerVars
  \/ \E w \in Worker : ListExpiredHolds(w) \/ ExpireNext(w)
  \/ \E p \in Session \ Worker, c \in ClientRequest : Submit(p, c) /\ UNCHANGED workerVars
  \/ \E p \in Session :
       \/ (Run(p) \/ Acquire(p) \/ DeadlockVictim(p)) /\ UNCHANGED workerVars
       \/ FailOrStop(p)

WorkerSpec == WorkerInit /\ [][WorkerNext]_expirationVars

\* A worker's ticker goes on; sessions run as in the core.
WorkerFairness ==
  /\ \A w \in Worker : WF_expirationVars(ListExpiredHolds(w)) /\ WF_expirationVars(ExpireNext(w))
  /\ \A p \in Session :
       /\ WF_expirationVars(Run(p) /\ UNCHANGED workerVars)
       /\ SF_expirationVars(Acquire(p) /\ UNCHANGED workerVars)
  /\ WF_expirationVars(\E p \in Session : DeadlockVictim(p) /\ UNCHANGED workerVars)

FairWorkerSpec == WorkerSpec /\ WorkerFairness

-----------------------------------------------------------------------------
\* A worker works on holds that exist, at most as many at a time as it lists.
BatchesBounded ==
  \A w \in Worker :
    /\ Cardinality(batch[w]) <= BatchSize
    /\ \A h \in batch[w] : holds[h] # None

\* Holds that are due and that no use case can read (their authorization waited past
\* their expiry): every list has them first.
Stuck == {h \in HoldId : Due(h) /\ ~Found(h)}

\* Every hold is ended when its time has come, whatever the other requests and
\* workers do, through failures and restarts, unless a whole batch of unreadable
\* holds is in front of it.
DueHoldsEnd ==
  \A h \in HoldId : (Due(h) /\ Found(h)) ~> (~Due(h) \/ Cardinality(Stuck) >= BatchSize)
=============================================================================
