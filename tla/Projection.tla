----------------------------- MODULE Projection -----------------------------
(***************************************************************************)
(* The balance of one wallet on its way from PostgreSQL to DynamoDB: the   *)
(* relay's messages in SQS, ProjectionConsumer in every replica, and the   *)
(* balance requests that fall back on the ledger and save what they read.  *)
(*                                                                         *)
(* Items of different wallets have nothing in common, so one is modelled.  *)
(* A balance is a version: how many changes of the ledger it has seen.     *)
(* Each save takes its time from one clock, and no two the same time.      *)
(***************************************************************************)
EXTENDS Naturals, FiniteSets

CONSTANTS
  Consumer,     \* replicas, each with one consumer
  Reader,       \* balance requests served at the same time
  BatchSize,    \* MaxMessages of a consumer
  MaxReceives,  \* maxReceiveCount of the queue
  Instant,      \* the times of saves, in tenths of a second
  MaxVersion,   \* bound on the changes of the wallet
  MaxCopies,    \* bound on the messages for one event
  MaxFaults,    \* bound on failures, crashes and overrun visibility timeouts
  MaxReads,     \* bound on balance requests that reach the ledger
  None          \* no item, no message

Version == 0 .. MaxVersion
Process == Consumer \cup Reader

\* One of the messages of the event of a version.
Message == (1 .. MaxVersion) \X (1 .. MaxCopies)

Item == [version : Version, stamp : Instant]

ASSUME ProjectionAssumption ==
  /\ IsFiniteSet(Consumer) /\ IsFiniteSet(Reader) /\ Consumer \cap Reader = {}
  /\ {BatchSize, MaxReceives} \subseteq Nat \ {0}
  /\ {MaxVersion, MaxCopies, MaxFaults, MaxReads} \subseteq Nat
  /\ Instant \subseteq Nat \ {0} /\ IsFiniteSet(Instant)
  /\ None \notin Item \cup Message

VARIABLES
  ledger,      \* the version PostgreSQL has
  announced,   \* the last version that was a posting, with an outbox event
  owed,        \* events the relay has still to publish
  queue,       \* where each message is
  receives,    \* how often it was received
  todo,        \* the batch of each consumer: receipts by message, 0 for none
  doing,       \* the message a consumer is projecting
  pc,          \* where each process is
  seen,        \* the version it has read
  stamp,       \* the time it saves with
  item,        \* the DynamoDB item of the wallet
  projected,   \* history: the last version a finished projection has read
  overlapped,  \* history: a save was stamped while an older read had still to be
  lost,        \* history: an event was never delivered, or dropped by the queue
  faults,
  reads

queueVars == <<queue, receives>>
saveVars  == <<item, projected>>
workVars  == <<todo, doing>>
bounds    == <<faults, reads>>
vars == <<ledger, announced, owed, queue, receives, todo, doing, pc, seen, stamp,
          item, projected, overlapped, lost, faults, reads>>

TypeOK ==
  /\ ledger \in Version /\ announced \in Version /\ owed \subseteq 1 .. announced
  /\ queue \in [Message -> {"none", "visible", "inflight", "deleted", "dead"}]
  /\ receives \in [Message -> 0 .. MaxReceives]
  /\ todo \in [Consumer -> [Message -> 0 .. MaxReceives]]
  /\ doing \in [Consumer -> Message \cup {None}]
  /\ pc \in [Process -> {"idle", "stamp", "put", "delete"}]
  /\ seen \in [Process -> Version]
  /\ stamp \in [Process -> Instant \cup {0}]
  /\ item \in Item \cup {None}
  /\ projected \in Version
  /\ overlapped \in BOOLEAN /\ lost \in BOOLEAN
  /\ faults \in 0 .. MaxFaults /\ reads \in 0 .. MaxReads

Init ==
  /\ ledger = 0 /\ announced = 0 /\ owed = {}
  /\ queue = [m \in Message |-> "none"] /\ receives = [m \in Message |-> 0]
  /\ todo = [c \in Consumer |-> [m \in Message |-> 0]]
  /\ doing = [c \in Consumer |-> None]
  /\ pc = [p \in Process |-> "idle"]
  /\ seen = [p \in Process |-> 0] /\ stamp = [p \in Process |-> 0]
  /\ item = None /\ projected = 0
  /\ overlapped = FALSE /\ lost = FALSE
  /\ faults = 0 /\ reads = 0

Fault == faults < MaxFaults /\ faults' = faults + 1 /\ UNCHANGED reads

-----------------------------------------------------------------------------
(* The ledger and the relay *)

\* A posting commits its event with it; a hold that is created, released or
\* expired changes the available balance and writes none.
Change(posting) ==
  /\ ledger < MaxVersion
  /\ ledger' = ledger + 1
  /\ IF posting
     THEN announced' = ledger + 1 /\ owed' = owed \cup {ledger + 1}
     ELSE UNCHANGED <<announced, owed>>
  /\ UNCHANGED <<queueVars, workVars, pc, seen, stamp, saveVars, overlapped, lost, bounds>>

\* SNS puts the event into the queue; the relay marks it, or publishes it again.
Publish(m) ==
  /\ m[1] \in owed /\ queue[m] = "none"
  /\ \A n \in 1 .. m[2] - 1 : queue[<<m[1], n>>] # "none"
  /\ queue' = [queue EXCEPT ![m] = "visible"]
  /\ owed' \in {owed, owed \ {m[1]}}
  /\ UNCHANGED <<ledger, announced, receives, workVars, pc, seen, stamp, saveVars,
                 overlapped, lost, bounds>>

\* The relay's retries are used up.
GiveUp(v) ==
  /\ v \in owed
  /\ Fault
  /\ owed' = owed \ {v}
  /\ lost' = (lost \/ \A m \in Message : m[1] = v => queue[m] = "none")
  /\ UNCHANGED <<ledger, announced, queueVars, workVars, pc, seen, stamp, saveVars, overlapped>>

-----------------------------------------------------------------------------
(* The queue *)

Receive(c) ==
  /\ pc[c] = "idle" /\ \A m \in Message : todo[c][m] = 0
  /\ \E batch \in SUBSET {m \in Message : queue[m] = "visible"} :
       /\ Cardinality(batch) \in 1 .. BatchSize
       /\ queue' = [m \in Message |-> IF m \in batch THEN "inflight" ELSE queue[m]]
       /\ receives' = [m \in Message |-> receives[m] + IF m \in batch THEN 1 ELSE 0]
       /\ todo' = [todo EXCEPT ![c] = [m \in Message |-> IF m \in batch THEN receives[m] + 1 ELSE 0]]
  /\ UNCHANGED <<ledger, announced, owed, doing, pc, seen, stamp, saveVars,
                 overlapped, lost, bounds>>

\* A consumer that still has to finish a message it has the last receipt of.
InHand(m) == \E c \in Consumer : todo[c][m] = receives[m]

\* A message not deleted in time is visible again, at the latest when nobody works
\* on it any more, or it goes to the dead letters.
VisibilityEnds(m) ==
  /\ queue[m] = "inflight"
  /\ IF InHand(m) THEN Fault ELSE UNCHANGED bounds
  /\ IF receives[m] < MaxReceives
     THEN queue' = [queue EXCEPT ![m] = "visible"] /\ UNCHANGED lost
     ELSE queue' = [queue EXCEPT ![m] = "dead"] /\ lost' = TRUE
  /\ UNCHANGED <<ledger, announced, owed, receives, workVars, pc, seen, stamp, saveVars,
                 overlapped>>

\* The queue keeps a message for a day.
Expires(m) ==
  /\ queue[m] = "visible"
  /\ Fault
  /\ queue' = [queue EXCEPT ![m] = "dead"]
  /\ lost' = TRUE
  /\ UNCHANGED <<ledger, announced, owed, receives, workVars, pc, seen, stamp, saveVars,
                 overlapped>>

-----------------------------------------------------------------------------
(* ProjectBalance and ExecuteFromLedger: read, stamp, save *)

ReadLedger(p) ==
  /\ pc[p] = "idle"
  /\ pc' = [pc EXCEPT ![p] = "stamp"]
  /\ seen' = [seen EXCEPT ![p] = ledger]
  /\ UNCHANGED <<ledger, announced, owed, queueVars, stamp, saveVars, overlapped, lost>>

\* processMessage, for the messages of a batch one after the other.
ProcessMessage(c) ==
  /\ \E m \in Message :
       todo[c][m] > 0 /\ doing' = [doing EXCEPT ![c] = m]
  /\ ReadLedger(c)
  /\ UNCHANGED <<todo, bounds>>

\* The item is missing, cannot be read in time, or the client wants the ledger.  A
\* request that gets the item, however old, changes nothing.
FallBack(r) ==
  /\ reads < MaxReads
  /\ reads' = reads + 1
  /\ ReadLedger(r)
  /\ UNCHANGED <<workVars, faults>>

\* After every time that is still compared with another.
Later(t) ==
  /\ item # None => t > item.stamp
  /\ \A q \in Process : t > stamp[q]

Stamp(p) ==
  /\ pc[p] = "stamp"
  /\ \E t \in Instant :
       /\ Later(t) /\ \A u \in Instant : Later(u) => t <= u
       /\ stamp' = [stamp EXCEPT ![p] = t]
  /\ pc' = [pc EXCEPT ![p] = "put"]
  /\ overlapped' = (overlapped \/ \E q \in Process : pc[q] = "stamp" /\ seen[q] < seen[p])
  /\ UNCHANGED <<ledger, announced, owed, queueVars, workVars, seen, saveVars, lost, bounds>>

\* RFC3339Nano leaves out trailing zeros, and then `Z' sorts after any digit and
\* after the point: the place of a time in the order of the texts.
Text(t) == 11 * (t \div 10) + IF t % 10 = 0 THEN 10 ELSE t % 10

\* The texts of the times of saves sort as the times do: so they do while none of
\* these times is a whole second.  The promise of freshness rests on it.
TextsInOrder == \A t, u \in Instant : t < u => Text(t) < Text(u)

\* Mutant of MayReplace: the item is written without a condition.
AnyItem(p) == TRUE

\* Mutant of MayReplace: an item is written once.
NoItem(p) == item = None

\* attribute_not_exists(pk) OR updated_at <= :new_updated_at
MayReplace(p) == item = None \/ Text(item.stamp) <= Text(stamp[p])

\* Mutant of Written: the item carries no time.
WrittenUndated(p) ==
  item' = IF MayReplace(p) THEN [version |-> seen[p], stamp |-> 0] ELSE item

Written(p) ==
  item' = IF MayReplace(p) THEN [version |-> seen[p], stamp |-> stamp[p]] ELSE item

Larger(x, y) == IF x < y THEN y ELSE x

Goto(p, label) ==
  /\ pc' = [pc EXCEPT ![p] = label]
  /\ seen' = [seen EXCEPT ![p] = 0]
  /\ stamp' = [stamp EXCEPT ![p] = 0]

\* SaveWalletBalance: a write that is refused for a newer one is a success.
Put(p) ==
  /\ pc[p] = "put"
  /\ Written(p)
  /\ projected' = Larger(projected, seen[p])
  /\ Goto(p, IF p \in Consumer THEN "delete" ELSE "idle")
  /\ UNCHANGED <<ledger, announced, owed, queueVars, workVars, overlapped, lost, bounds>>

Done(c) ==
  /\ todo' = [todo EXCEPT ![c][doing[c]] = 0]
  /\ doing' = [doing EXCEPT ![c] = None]
  /\ Goto(c, "idle")

\* SQS may ignore a receipt that is not the last one of its message.
DeleteMessage(c) ==
  /\ pc[c] = "delete"
  /\ LET m == doing[c]
     IN  \/ /\ queue' = [queue EXCEPT ![m] = IF @ = "dead" THEN @ ELSE "deleted"]
         \/ /\ todo[c][m] # receives[m]
            /\ UNCHANGED queue
  /\ Done(c)
  /\ UNCHANGED <<ledger, announced, owed, receives, saveVars, overlapped, lost, bounds>>

\* Mutant of ProjectionFails: the message is deleted all the same.
FailsDeleting(c) ==
  /\ pc[c] \in {"stamp", "put", "delete"}
  /\ Fault
  /\ \/ UNCHANGED <<saveVars>>
     \/ pc[c] = "put" /\ Written(c) /\ UNCHANGED projected
  /\ queue' = [queue EXCEPT ![doing[c]] = "deleted"]
  /\ Done(c)
  /\ UNCHANGED <<ledger, announced, owed, receives, overlapped, lost>>

\* An error at any point leaves the message to its visibility timeout and goes on
\* with the batch.  DynamoDB may have written the item all the same.
ProjectionFails(c) ==
  /\ pc[c] \in {"stamp", "put", "delete"}
  /\ Fault
  /\ \/ UNCHANGED saveVars
     \/ pc[c] = "put" /\ Written(c) /\ UNCHANGED projected
  /\ Done(c)
  /\ UNCHANGED <<ledger, announced, owed, queueVars, overlapped, lost>>

\* A balance request is answered whatever becomes of its save.
SaveFails(r) ==
  /\ pc[r] = "put"
  /\ Fault
  /\ \/ UNCHANGED saveVars
     \/ Written(r) /\ UNCHANGED projected
  /\ Goto(r, "idle")
  /\ UNCHANGED <<ledger, announced, owed, queueVars, workVars, overlapped, lost>>

\* A replica stops; its batch is lost to it.
Crash(c) ==
  /\ \E m \in Message : todo[c][m] > 0
  /\ Fault
  /\ todo' = [todo EXCEPT ![c] = [m \in Message |-> 0]]
  /\ doing' = [doing EXCEPT ![c] = None]
  /\ Goto(c, "idle")
  /\ UNCHANGED <<ledger, announced, owed, queueVars, saveVars, overlapped, lost>>

-----------------------------------------------------------------------------
Consume(c) == ProcessMessage(c) \/ Stamp(c) \/ Put(c) \/ DeleteMessage(c)

Next ==
  \/ Change(TRUE) \/ Change(FALSE)
  \/ \E v \in 1 .. MaxVersion : GiveUp(v)
  \/ \E m \in Message : Publish(m) \/ VisibilityEnds(m) \/ Expires(m)
  \/ \E c \in Consumer : Receive(c) \/ Consume(c) \/ ProjectionFails(c) \/ Crash(c)
  \/ \E r \in Reader : FallBack(r) \/ Stamp(r) \/ Put(r) \/ SaveFails(r)

Spec == Init /\ [][Next]_vars

\* The relay goes on publishing what it owes, visibility timeouts end, and the loop
\* of each consumer receives what there is and goes on with its batch.
Fairness ==
  /\ \A m \in Message : WF_vars(Publish(m)) /\ WF_vars(~InHand(m) /\ VisibilityEnds(m))
  /\ \A c \in Consumer : WF_vars(Receive(c)) /\ WF_vars(Consume(c))

FairSpec == Spec /\ Fairness

-----------------------------------------------------------------------------
(* What the projection promises *)

\* A message is deleted only after a projection that read the ledger with its
\* posting in it was finished, by whichever consumer and in whatever order.
DeletedWasProjected ==
  \A m \in Message : queue[m] = "deleted" => projected >= m[1]

\* The condition on the time makes up for saves that arrive out of order: the item
\* is as new as any finished projection, unless one read the ledger before another
\* and took its time after it.
FreshUnlessOverlapped ==
  projected > 0 /\ ~overlapped => item # None /\ item.version >= projected

\* Through failures, crashes, redelivery and duplicates the item comes to show the
\* last posting (holds that change later may be missing), unless its event never
\* arrived or saves overlapped.
Converges ==
  <>[](lost \/ overlapped \/ announced = 0
       \/ (item # None /\ item.version >= announced))
=============================================================================
