-------------------------- MODULE ProjectionProofs --------------------------
(***************************************************************************)
(* What the projection of a balance keeps, for any number of replicas,     *)
(* balance requests, messages and failures: its types, that no message is  *)
(* deleted unprojected, and that the item stays as new as any finished     *)
(* projection unless two saves overlapped.                                 *)
(***************************************************************************)
EXTENDS Projection, FiniteSetTheorems, TLAPS

\* Nobody has read more than the ledger has.
Past ==
  /\ announced <= ledger
  /\ \A p \in Process : seen[p] <= ledger
  /\ projected <= ledger
  /\ item # None => item.version <= ledger

\* A message was published for an announced version, and was received no more often
\* than the queue allows and at least as often as a consumer's receipt says.
Messages ==
  \A m \in Message :
    /\ queue[m] = "none" => receives[m] = 0
    /\ queue[m] = "visible" => receives[m] < MaxReceives
    /\ queue[m] # "none" => m[1] <= announced
    /\ \A c \in Consumer : todo[c][m] <= receives[m]

\* A consumer at work has a message, and reads the ledger after the change that the
\* message tells of.
Working(c) ==
  pc[c] # "idle" =>
    /\ doing[c] \in Message /\ todo[c][doing[c]] > 0
    /\ pc[c] # "delete" => doing[c][1] <= seen[c]
    /\ pc[c] = "delete" => doing[c][1] <= projected

Work ==
  /\ \A r \in Reader : pc[r] # "delete"
  /\ \A c \in Consumer : Working(c)

TypeInv == TypeOK /\ Messages /\ Work /\ Past

Saving(p) == pc[p] = "put"

\* A process has a time while it saves, and no two saves have the same.
Stamps ==
  /\ \A p \in Process : ~Saving(p) => stamp[p] = 0
  /\ \A p \in Process : Saving(p) =>
       stamp[p] \in Instant /\ (item # None => stamp[p] # item.stamp)
  /\ \A p, q \in Process : Saving(p) /\ Saving(q) /\ stamp[p] = stamp[q] => p = q

\* As long as no saves overlapped, a later time goes with a newer balance: among
\* the saves under way, and between them and the item.
SavesInOrder ==
  \A p, q \in Process :
    /\ Saving(p) /\ Saving(q) /\ stamp[p] < stamp[q] => seen[p] <= seen[q]
    /\ pc[p] = "stamp" /\ Saving(q) => seen[q] <= seen[p]

ItemInOrder ==
  item # None =>
    \A p \in Process :
      /\ pc[p] = "stamp" => item.version <= seen[p]
      /\ Saving(p) /\ item.stamp < stamp[p] => item.version <= seen[p]
      /\ Saving(p) /\ stamp[p] < item.stamp => seen[p] <= item.version

InOrder == ~overlapped => SavesInOrder /\ ItemInOrder

FreshInv == TypeInv /\ Stamps /\ InOrder /\ FreshUnlessOverlapped

-----------------------------------------------------------------------------
(* What the steps have in common *)

\* Process p puts its save aside and goes on to label l, after a write that DynamoDB
\* took or refused, or without one.
Leaves(p, l) ==
  /\ Goto(p, l)
  /\ \/ UNCHANGED saveVars
     \/ /\ Saving(p) /\ Written(p)
        /\ projected' \in {projected, Larger(projected, seen[p])}

\* What one step does to the reads and the saves of the processes.
LEMMA SavesOfAStep ==
  ASSUME [Next]_vars
  PROVE  \/ UNCHANGED <<pc, seen, stamp, item, projected, overlapped>>
         \/ \E p \in Process : ReadLedger(p)
         \/ \E p \in Process : Stamp(p)
         \/ \E p \in Process, l \in {"idle", "delete"} :
              Leaves(p, l) /\ UNCHANGED <<ledger, announced, overlapped>>
<1> Consumer \subseteq Process /\ Reader \subseteq Process
  BY DEF Process
<1>1. ASSUME NEW p \in Process, Put(p)
      PROVE  \E l \in {"idle", "delete"} :
               Leaves(p, l) /\ UNCHANGED <<ledger, announced, overlapped>>
  <2>1. Goto(p, IF p \in Consumer THEN "delete" ELSE "idle")
    BY <1>1 DEF Put
  <2>2. Saving(p) /\ Written(p) /\ projected' = Larger(projected, seen[p])
    BY <1>1 DEF Put, Saving
  <2>3. UNCHANGED <<ledger, announced, overlapped>>
    BY <1>1 DEF Put
  <2> QED
    BY <2>1, <2>2, <2>3 DEF Leaves
<1>2. ASSUME NEW c \in Consumer, DeleteMessage(c)
      PROVE  Leaves(c, "idle") /\ UNCHANGED <<ledger, announced, overlapped>>
  BY <1>2 DEF DeleteMessage, Done, Leaves
<1>3. ASSUME NEW c \in Consumer, ProjectionFails(c)
      PROVE  Leaves(c, "idle") /\ UNCHANGED <<ledger, announced, overlapped>>
  BY <1>3 DEF ProjectionFails, Done, Leaves, Saving
<1>4. ASSUME NEW c \in Consumer, Crash(c)
      PROVE  Leaves(c, "idle") /\ UNCHANGED <<ledger, announced, overlapped>>
  BY <1>4 DEF Crash, Leaves
<1>5. ASSUME NEW r \in Reader, SaveFails(r)
      PROVE  Leaves(r, "idle") /\ UNCHANGED <<ledger, announced, overlapped>>
  BY <1>5 DEF SaveFails, Leaves, Saving
<1>6. ASSUME NEW c \in Consumer, ProcessMessage(c)
      PROVE  ReadLedger(c)
  BY <1>6 DEF ProcessMessage
<1>7. ASSUME NEW r \in Reader, FallBack(r)
      PROVE  ReadLedger(r)
  BY <1>7 DEF FallBack
<1>8. ASSUME \/ UNCHANGED vars
             \/ Change(TRUE) \/ Change(FALSE)
             \/ \E v \in 1 .. MaxVersion : GiveUp(v)
             \/ \E m \in Message : Publish(m) \/ VisibilityEnds(m) \/ Expires(m)
             \/ \E c \in Consumer : Receive(c)
      PROVE  UNCHANGED <<pc, seen, stamp, item, projected, overlapped>>
  BY <1>8 DEF vars, Change, GiveUp, Publish, VisibilityEnds, Expires, Receive, saveVars
<1> QED
  BY <1>1, <1>2, <1>3, <1>4, <1>5, <1>6, <1>7, <1>8 DEF Next, Consume

-----------------------------------------------------------------------------
(* Times and versions in order *)

\* Versions and times are naturals.
LEMMA SaveNumbers ==
  ASSUME TypeOK
  PROVE  /\ ledger \in Nat /\ \A p \in Process : seen[p] \in Nat /\ stamp[p] \in Nat
         /\ item # None => item.version \in Nat /\ item.stamp \in Nat
<1> Version \subseteq Nat /\ Instant \cup {0} \subseteq Nat
  BY ProjectionAssumption DEF Version
<1>1. ledger \in Nat /\ \A p \in Process : seen[p] \in Nat
  BY DEF TypeOK
<1>2. \A p \in Process : stamp[p] \in Nat
  BY DEF TypeOK
<1>3. item # None => item.version \in Nat /\ item.stamp \in Nat
  BY DEF TypeOK, Item
<1> QED
  BY <1>1, <1>2, <1>3

\* The type of a written item.
LEMMA WrittenType ==
  ASSUME TypeOK, Stamps, NEW p \in Process, Saving(p), Written(p)
  PROVE  /\ MayReplace(p) => item' = [version |-> seen[p], stamp |-> stamp[p]]
         /\ ~MayReplace(p) => item' = item
         /\ [version |-> seen[p], stamp |-> stamp[p]] \in Item
         /\ [version |-> seen[p], stamp |-> stamp[p]] # None
         /\ item' \in Item \cup {None}
  BY ProjectionAssumption DEF TypeOK, Stamps, Saving, Written, Item

\* Later times are after the time of the item and after those of the saves.
LEMMA StampStep ==
  ASSUME TypeOK, Stamps, NEW p \in Process, Stamp(p)
  PROVE  \E t \in Instant :
           /\ pc[p] = "stamp"
           /\ pc' = [pc EXCEPT ![p] = "put"] /\ stamp' = [stamp EXCEPT ![p] = t]
           /\ \A q \in Process : Saving(q) => stamp[q] < t /\ stamp[q] # t
           /\ item # None => item.stamp < t /\ item.stamp # t
           /\ seen' = seen /\ item' = item /\ projected' = projected
           /\ ~overlapped' =>
                ~overlapped /\ \A q \in Process : pc[q] = "stamp" => seen[p] <= seen[q]
<1>1. PICK t \in Instant : Later(t) /\ stamp' = [stamp EXCEPT ![p] = t]
  BY DEF Stamp
<1>2. t \in Nat
  BY ProjectionAssumption
<1>3. \A q \in Process : stamp[q] \in Nat
  BY SaveNumbers
<1>4. item # None => item.stamp \in Nat
  BY SaveNumbers
<1>5. /\ \A q \in Process : stamp[q] < t /\ stamp[q] # t
      /\ item # None => item.stamp < t /\ item.stamp # t
  BY <1>1, <1>2, <1>3, <1>4 DEF Later
<1>6. ~overlapped' =>
        ~overlapped /\ \A q \in Process : pc[q] = "stamp" => seen[p] <= seen[q]
  <2>1. \A q \in Process : seen[q] \in Nat
    BY SaveNumbers
  <2>2. overlapped' = (overlapped \/ \E q \in Process : pc[q] = "stamp" /\ seen[q] < seen[p])
    BY DEF Stamp
  <2>3. ~overlapped' =>
          ~overlapped /\ \A q \in Process : pc[q] = "stamp" => ~(seen[q] < seen[p])
    BY <2>2, Zenon
  <2> QED
    BY <2>1, <2>3
<1> QED
  BY <1>1, <1>5, <1>6 DEF Stamp, saveVars

\* The effect of Leaves on one process and the others.
LEMMA LeavesStep ==
  ASSUME TypeOK, NEW p \in Process, NEW l \in {"idle", "delete"}, Leaves(p, l)
  PROVE  /\ pc'[p] = l /\ seen'[p] = 0 /\ stamp'[p] = 0
         /\ \A q \in Process : q # p =>
              pc'[q] = pc[q] /\ seen'[q] = seen[q] /\ stamp'[q] = stamp[q]
  BY DEF Leaves, Goto, TypeOK

\* A process that starts to read has no time yet.
LEMMA ReadStep ==
  ASSUME TypeOK, NEW p \in Process, ReadLedger(p)
  PROVE  /\ pc[p] = "idle" /\ pc'[p] = "stamp" /\ seen'[p] = ledger
         /\ \A q \in Process : q # p => pc'[q] = pc[q] /\ seen'[q] = seen[q]
         /\ UNCHANGED <<ledger, announced, stamp, item, projected, overlapped>>
  BY DEF ReadLedger, TypeOK, saveVars

\* The times of saves stay distinct.
LEMMA StampsStep ==
  ASSUME TypeOK, Stamps, [Next]_vars
  PROVE  Stamps'
<1>1. CASE UNCHANGED <<pc, seen, stamp, item, projected, overlapped>>
  BY <1>1 DEF Stamps, Saving
<1>2. ASSUME NEW p \in Process, ReadLedger(p) PROVE Stamps'
  BY <1>2, ReadStep DEF Stamps, Saving
<1>3. ASSUME NEW p \in Process, Stamp(p) PROVE Stamps'
  <2>1. PICK t \in Instant :
           /\ pc[p] = "stamp"
           /\ pc' = [pc EXCEPT ![p] = "put"] /\ stamp' = [stamp EXCEPT ![p] = t]
           /\ \A q \in Process : Saving(q) => stamp[q] # t
           /\ item # None => item.stamp # t
           /\ item' = item
    BY <1>3, StampStep
  <2>2. /\ pc'[p] = "put" /\ stamp'[p] = t
        /\ \A q \in Process : q # p => pc'[q] = pc[q] /\ stamp'[q] = stamp[q]
    BY <2>1 DEF TypeOK
  <2> QED
    BY <2>1, <2>2 DEF Stamps, Saving
<1>4. ASSUME NEW p \in Process, NEW l \in {"idle", "delete"}, Leaves(p, l) PROVE Stamps'
  <2>1. item' # item =>
          Saving(p) /\ item' = [version |-> seen[p], stamp |-> stamp[p]]
    BY <1>4, WrittenType DEF Leaves, saveVars
  <2>2. item' # item => Saving(p) /\ item'.stamp = stamp[p]
    BY <2>1
  <2> QED
    BY <1>4, <2>2, LeavesStep DEF Stamps, Saving
<1> QED
  BY <1>1, <1>2, <1>3, <1>4, SavesOfAStep

-----------------------------------------------------------------------------
(* Types *)

\* The version of a message.
LEMMA MessageType ==
  ASSUME NEW m \in Message
  PROVE  m[1] \in 1 .. MaxVersion /\ m[1] \in Nat /\ m[2] \in Nat
  BY ProjectionAssumption DEF Message

\* Actions that leave the reads and the saves alone.
LEMMA QueueTypeStep ==
  ASSUME TypeInv,
         \/ Change(TRUE) \/ Change(FALSE)
         \/ \E v \in 1 .. MaxVersion : GiveUp(v)
         \/ \E m \in Message : Publish(m) \/ VisibilityEnds(m) \/ Expires(m)
         \/ \E c \in Consumer : Receive(c)
  PROVE  TypeOK'
<1> USE ProjectionAssumption
<1>1. ASSUME NEW b \in BOOLEAN, Change(b) PROVE TypeOK'
  <2>1. ledger' \in Version
    BY <1>1 DEF TypeInv, TypeOK, Change, Version
  <2>2. announced' \in Version /\ owed' \subseteq 1 .. announced'
    <3>1. \/ announced' = ledger' /\ owed' = owed \cup {ledger'} /\ ledger' = ledger + 1
          \/ announced' = announced /\ owed' = owed
      BY <1>1 DEF Change
    <3>2. ledger \in Nat /\ announced \in Nat /\ announced <= ledger /\ owed \subseteq 1 .. announced
      BY DEF TypeInv, TypeOK, Past, Version
    <3>3. CASE announced' = ledger' /\ owed' = owed \cup {ledger'} /\ ledger' = ledger + 1
      <4>1. \A x \in owed : x \in Nat /\ 1 <= x /\ x <= announced
        BY <3>2
      <4>2. \A x \in owed' : x \in Nat /\ 1 <= x /\ x <= ledger'
        BY <3>2, <3>3, <4>1
      <4>3. ledger' \in Nat
        BY <3>2, <3>3
      <4> QED
        BY <2>1, <3>3, <4>2, <4>3
    <3> QED
      BY <3>1, <3>2, <3>3 DEF TypeInv, TypeOK
  <2> QED
    BY <1>1, <2>1, <2>2 DEF TypeInv, TypeOK, Change, queueVars, workVars, saveVars, bounds
<1>2. ASSUME NEW v \in 1 .. MaxVersion, GiveUp(v) PROVE TypeOK'
  <2>1. faults' \in 0 .. MaxFaults /\ owed' \subseteq owed
    BY <1>2 DEF TypeInv, TypeOK, GiveUp, Fault
  <2>2. lost' \in BOOLEAN
    BY <1>2 DEF GiveUp
  <2> QED
    BY <1>2, <2>1, <2>2
    DEF TypeInv, TypeOK, GiveUp, Fault, queueVars, workVars, saveVars
<1>3. ASSUME NEW m \in Message, Publish(m) PROVE TypeOK'
  BY <1>3 DEF TypeInv, TypeOK, Publish, queueVars, workVars, saveVars, bounds
<1>4. ASSUME NEW m \in Message, VisibilityEnds(m) PROVE TypeOK'
  <2>1. faults' \in 0 .. MaxFaults /\ reads' = reads
    BY <1>4 DEF TypeInv, TypeOK, VisibilityEnds, Fault, bounds
  <2>2. lost' \in BOOLEAN
    BY <1>4 DEF TypeInv, TypeOK, VisibilityEnds
  <2>3. queue' \in [Message -> {"none", "visible", "inflight", "deleted", "dead"}]
    BY <1>4 DEF TypeInv, TypeOK, VisibilityEnds
  <2> QED
    BY <1>4, <2>1, <2>2, <2>3 DEF TypeInv, TypeOK, VisibilityEnds, workVars, saveVars
<1>5. ASSUME NEW m \in Message, Expires(m) PROVE TypeOK'
  BY <1>5 DEF TypeInv, TypeOK, Expires, Fault, workVars, saveVars
<1>6. ASSUME NEW c \in Consumer, Receive(c) PROVE TypeOK'
  <2>1. PICK batch \in SUBSET {m \in Message : queue[m] = "visible"} :
          /\ queue' = [m \in Message |-> IF m \in batch THEN "inflight" ELSE queue[m]]
          /\ receives' = [m \in Message |-> receives[m] + IF m \in batch THEN 1 ELSE 0]
          /\ todo' = [todo EXCEPT ![c] = [m \in Message |->
                         IF m \in batch THEN receives[m] + 1 ELSE 0]]
    BY <1>6 DEF Receive
  <2>2. \A m \in Message : receives[m] \in 0 .. MaxReceives
    BY DEF TypeInv, TypeOK
  <2>3. \A m \in batch : receives[m] + 1 \in 0 .. MaxReceives
    BY <2>2 DEF TypeInv, Messages
  <2>4. receives' \in [Message -> 0 .. MaxReceives]
    BY <2>1, <2>2, <2>3
  <2>5. [m \in Message |-> IF m \in batch THEN receives[m] + 1 ELSE 0]
          \in [Message -> 0 .. MaxReceives]
    BY <2>3
  <2>6. todo' \in [Consumer -> [Message -> 0 .. MaxReceives]]
    BY <2>1, <2>5 DEF TypeInv, TypeOK
  <2>7. queue' \in [Message -> {"none", "visible", "inflight", "deleted", "dead"}]
    BY <2>1 DEF TypeInv, TypeOK
  <2> QED
    BY <1>6, <2>4, <2>6, <2>7 DEF TypeInv, TypeOK, Receive, saveVars, bounds
<1> QED
  BY <1>1, <1>2, <1>3, <1>4, <1>5, <1>6

\* Actions of the processes that read and save.
LEMMA WorkTypeStep ==
  ASSUME TypeInv, Stamps,
         \/ \E c \in Consumer : Consume(c) \/ ProjectionFails(c) \/ Crash(c)
         \/ \E r \in Reader : FallBack(r) \/ Stamp(r) \/ Put(r) \/ SaveFails(r)
  PROVE  TypeOK'
<1> USE ProjectionAssumption
<1> Consumer \subseteq Process /\ Reader \subseteq Process
  BY DEF Process
<1> DEFINE SaveTypes ==
             /\ pc' \in [Process -> {"idle", "stamp", "put", "delete"}]
             /\ seen' \in [Process -> Version]
             /\ stamp' \in [Process -> Instant \cup {0}]
             /\ item' \in Item \cup {None}
             /\ projected' \in Version
<1>1. ASSUME NEW p \in Process, ReadLedger(p) PROVE SaveTypes
  BY <1>1 DEF TypeInv, TypeOK, ReadLedger, saveVars
<1>2. ASSUME NEW p \in Process, NEW l \in {"idle", "delete"}, Leaves(p, l) PROVE SaveTypes
  <2>1. 0 \in Version
    BY DEF Version
  <2>2. item' \in Item \cup {None}
    BY <1>2, WrittenType DEF Leaves, TypeInv, TypeOK, saveVars
  <2>3. projected' \in Version
    BY <1>2 DEF Leaves, TypeInv, TypeOK, Larger, saveVars
  <2> QED
    BY <1>2, <2>1, <2>2, <2>3 DEF Leaves, Goto, TypeInv, TypeOK
<1>3. ASSUME NEW p \in Process, Stamp(p) PROVE TypeOK'
  <2>1. PICK t \in Instant :
          pc' = [pc EXCEPT ![p] = "put"] /\ stamp' = [stamp EXCEPT ![p] = t]
    BY <1>3, StampStep DEF TypeInv
  <2>2. overlapped' \in BOOLEAN
    BY <1>3 DEF Stamp
  <2> QED
    BY <1>3, <2>1, <2>2
    DEF TypeInv, TypeOK, Stamp, queueVars, workVars, saveVars, bounds
<1>4. ASSUME NEW p \in Process, Put(p) PROVE TypeOK'
  <2>1. Leaves(p, IF p \in Consumer THEN "delete" ELSE "idle")
    BY <1>4 DEF Put, Leaves, Saving
  <2>2. SaveTypes
    BY <1>2, <2>1
  <2> QED
    BY <1>4, <2>2 DEF TypeInv, TypeOK, Put, queueVars, workVars, bounds
<1>5. ASSUME NEW c \in Consumer, ProcessMessage(c) PROVE TypeOK'
  <2>1. SaveTypes /\ ReadLedger(c)
    BY <1>1, <1>5 DEF ProcessMessage
  <2>2. doing' \in [Consumer -> Message \cup {None}]
    BY <1>5 DEF ProcessMessage, TypeInv, TypeOK
  <2> QED
    BY <1>5, <2>1, <2>2 DEF TypeInv, TypeOK, ProcessMessage, ReadLedger, queueVars, bounds
<1>6. ASSUME NEW r \in Reader, FallBack(r) PROVE TypeOK'
  <2>1. SaveTypes /\ ReadLedger(r)
    BY <1>1, <1>6 DEF FallBack
  <2>2. reads' \in 0 .. MaxReads
    BY <1>6 DEF FallBack, TypeInv, TypeOK
  <2> QED
    BY <1>6, <2>1, <2>2 DEF TypeInv, TypeOK, FallBack, ReadLedger, queueVars, workVars
<1>7. ASSUME NEW c \in Consumer, Done(c)
      PROVE  /\ todo' \in [Consumer -> [Message -> 0 .. MaxReceives]]
             /\ doing' \in [Consumer -> Message \cup {None}]
  <2>1. 0 \in 0 .. MaxReceives
    OBVIOUS
  <2> QED
    BY <1>7, <2>1 DEF Done, TypeInv, TypeOK
<1>8. ASSUME NEW c \in Consumer, DeleteMessage(c) PROVE TypeOK'
  <2>1. SaveTypes /\ Done(c)
    BY <1>2, <1>8 DEF DeleteMessage, Done, Leaves
  <2>2. queue' \in [Message -> {"none", "visible", "inflight", "deleted", "dead"}]
    BY <1>8 DEF DeleteMessage, TypeInv, TypeOK
  <2> QED
    BY <1>7, <1>8, <2>1, <2>2 DEF TypeInv, TypeOK, DeleteMessage, bounds
<1>9. ASSUME NEW c \in Consumer, ProjectionFails(c) PROVE TypeOK'
  <2>1. SaveTypes /\ Done(c)
    BY <1>2, <1>9 DEF ProjectionFails, Done, Leaves, Saving
  <2>2. faults' \in 0 .. MaxFaults
    BY <1>9 DEF ProjectionFails, Fault, TypeInv, TypeOK
  <2> QED
    BY <1>7, <1>9, <2>1, <2>2 DEF TypeInv, TypeOK, ProjectionFails, Fault, queueVars
<1>10. ASSUME NEW c \in Consumer, Crash(c) PROVE TypeOK'
  <2>1. SaveTypes
    BY <1>2, <1>10 DEF Crash, Leaves
  <2>2. faults' \in 0 .. MaxFaults
    BY <1>10 DEF Crash, Fault, TypeInv, TypeOK
  <2>3. /\ todo' \in [Consumer -> [Message -> 0 .. MaxReceives]]
        /\ doing' \in [Consumer -> Message \cup {None}]
    BY <1>10 DEF Crash, TypeInv, TypeOK
  <2> QED
    BY <1>10, <2>1, <2>2, <2>3 DEF TypeInv, TypeOK, Crash, Fault, queueVars
<1>11. ASSUME NEW r \in Reader, SaveFails(r) PROVE TypeOK'
  <2>1. SaveTypes
    BY <1>2, <1>11 DEF SaveFails, Leaves, Saving
  <2>2. faults' \in 0 .. MaxFaults
    BY <1>11 DEF SaveFails, Fault, TypeInv, TypeOK
  <2> QED
    BY <1>11, <2>1, <2>2 DEF TypeInv, TypeOK, SaveFails, Fault, queueVars, workVars
<1> QED
  BY <1>3, <1>4, <1>5, <1>6, <1>8, <1>9, <1>10, <1>11 DEF Consume

LEMMA TypeStep ==
  ASSUME TypeInv, Stamps, [Next]_vars
  PROVE  TypeOK'
<1>1. CASE UNCHANGED vars
  BY <1>1 DEF TypeInv, TypeOK, vars
<1> QED
  BY <1>1, QueueTypeStep, WorkTypeStep DEF Next

-----------------------------------------------------------------------------
(* Messages, and what was read for them *)

\* What one step does to the ledger and to finished projections: both only grow.
LEMMA VersionsGrow ==
  ASSUME TypeOK, announced <= ledger, [Next]_vars
  PROVE  /\ ledger' >= ledger /\ announced' >= announced /\ projected' >= projected
         /\ announced' <= ledger' /\ announced' \in Nat
<1> USE ProjectionAssumption
<1>1. ledger \in Nat /\ announced \in Nat /\ projected \in Nat
  BY DEF TypeOK, Version
<1>2. \A p \in Process : seen[p] \in Nat
  BY DEF TypeOK, Version
<1>3. projected' >= projected
  <2>1. ASSUME NEW p \in Process, NEW l \in {"idle", "delete"}, Leaves(p, l)
        PROVE  projected' >= projected
    BY <1>1, <1>2, <2>1 DEF Leaves, saveVars, Larger
  <2>2. ASSUME NEW p \in Process, ReadLedger(p) \/ Stamp(p)
        PROVE  projected' = projected
    BY <2>2 DEF ReadLedger, Stamp, saveVars
  <2> QED
    BY <1>1, <2>1, <2>2, SavesOfAStep
<1>4. \/ UNCHANGED <<ledger, announced>>
      \/ ledger' = ledger + 1 /\ announced' \in {announced, ledger + 1}
  <2>1. ASSUME NEW b \in BOOLEAN, Change(b)
        PROVE  ledger' = ledger + 1 /\ announced' \in {announced, ledger + 1}
    BY <2>1 DEF Change
  <2>2. ASSUME NEW p \in Process, Stamp(p) \/ Put(p) \/ ReadLedger(p)
        PROVE  UNCHANGED <<ledger, announced>>
    BY <2>2 DEF Stamp, Put, ReadLedger
  <2>3. ASSUME NEW c \in Consumer,
               Receive(c) \/ ProcessMessage(c) \/ DeleteMessage(c) \/ ProjectionFails(c) \/ Crash(c)
        PROVE  UNCHANGED <<ledger, announced>>
    BY <2>3 DEF Receive, ProcessMessage, ReadLedger, DeleteMessage, ProjectionFails, Crash
  <2>4. ASSUME NEW r \in Reader, FallBack(r) \/ SaveFails(r)
        PROVE  UNCHANGED <<ledger, announced>>
    BY <2>4 DEF FallBack, ReadLedger, SaveFails
  <2>5. ASSUME \/ UNCHANGED vars
               \/ \E v \in 1 .. MaxVersion : GiveUp(v)
               \/ \E m \in Message : Publish(m) \/ VisibilityEnds(m) \/ Expires(m)
        PROVE  UNCHANGED <<ledger, announced>>
    BY <2>5 DEF vars, GiveUp, Publish, VisibilityEnds, Expires
  <2> QED
    BY <2>1, <2>2, <2>3, <2>4, <2>5 DEF Next, Consume, Process
<1> QED
  BY <1>1, <1>3, <1>4

\* Nobody reads or saves more than the ledger has.
LEMMA PastStep ==
  ASSUME TypeInv, Stamps, [Next]_vars
  PROVE  Past'
<1> USE ProjectionAssumption
<1>1. /\ ledger \in Nat /\ ledger' \in Nat /\ projected \in Nat
      /\ \A p \in Process : seen[p] \in Nat
      /\ item # None => item.version \in Nat
  BY TypeStep DEF TypeInv, TypeOK, Version, Item
<1>2. ledger <= ledger' /\ announced' <= ledger'
  BY <1>1, VersionsGrow DEF TypeInv, Past
<1> DEFINE Read == \A p \in Process : seen'[p] <= ledger'
           Saved == projected' <= ledger' /\ (item' # None => item'.version <= ledger')
<1>3. CASE UNCHANGED <<pc, seen, stamp, item, projected, overlapped>>
  BY <1>1, <1>2, <1>3 DEF TypeInv, Past
<1>4. ASSUME NEW p \in Process, ReadLedger(p) PROVE Read /\ Saved
  BY <1>1, <1>2, <1>4, ReadStep DEF TypeInv, Past
<1>5. ASSUME NEW p \in Process, Stamp(p) PROVE Read /\ Saved
  <2>1. UNCHANGED <<seen, item, projected>>
    BY <1>5 DEF Stamp, saveVars
  <2> QED
    BY <1>1, <1>2, <2>1 DEF TypeInv, Past
<1>6. ASSUME NEW p \in Process, NEW l \in {"idle", "delete"}, Leaves(p, l) PROVE Read /\ Saved
  <2>1. Read
    BY <1>1, <1>2, <1>6, LeavesStep DEF TypeInv, Past
  <2>2. projected' \in {projected, seen[p]}
    BY <1>6 DEF Leaves, saveVars, Larger
  <2>3. item' = item \/ item' = [version |-> seen[p], stamp |-> stamp[p]]
    BY <1>6, WrittenType DEF Leaves, TypeInv, saveVars
  <2>4. item' = item \/ item'.version = seen[p]
    BY <2>3
  <2> QED
    BY <1>1, <1>2, <2>1, <2>2, <2>4 DEF TypeInv, Past
<1> QED
  BY <1>2, <1>3, <1>4, <1>5, <1>6, SavesOfAStep DEF TypeInv, Past

\* What one step does to the messages and the batches.
LEMMA MessagesStep ==
  ASSUME TypeInv, [Next]_vars
  PROVE  Messages'
<1> USE ProjectionAssumption
<1> DEFINE OfMessage(m) ==
             /\ queue[m] = "none" => receives[m] = 0
             /\ queue[m] = "visible" => receives[m] < MaxReceives
             /\ queue[m] # "none" => m[1] <= announced
             /\ \A c \in Consumer : todo[c][m] <= receives[m]
<1> SUFFICES ASSUME NEW m \in Message PROVE OfMessage(m)'
  BY DEF Messages
<1>1. /\ OfMessage(m) /\ m[1] \in Nat /\ announced \in Nat /\ announced' \in Nat
      /\ receives[m] \in Nat /\ \A c \in Consumer : todo[c][m] \in Nat
      /\ owed \subseteq 1 .. announced /\ announced <= announced'
  <2>1. announced' \in Nat /\ announced <= announced'
    BY VersionsGrow DEF TypeInv, Past
  <2>2. receives[m] \in Nat /\ \A c \in Consumer : todo[c][m] \in Nat
    BY DEF TypeInv, TypeOK
  <2> QED
    BY <2>1, <2>2, MessageType DEF TypeInv, TypeOK, Messages, Version
<1>2. CASE UNCHANGED <<queue, receives, todo>>
  BY <1>1, <1>2
<1>3. ASSUME NEW k \in Message, Publish(k) PROVE OfMessage(m)'
  <2>1. CASE k = m
    BY <1>1, <1>3, <2>1 DEF Publish, workVars, TypeInv, TypeOK
  <2>2. CASE k # m
    <3>1. queue'[m] = queue[m] /\ receives' = receives /\ todo' = todo
      BY <1>3, <2>2 DEF Publish, workVars, TypeInv, TypeOK
    <3> QED
      BY <1>1, <3>1
  <2> QED
    BY <2>1, <2>2
<1>4. ASSUME NEW c \in Consumer, Receive(c) PROVE OfMessage(m)'
  <2>1. PICK batch \in SUBSET {k \in Message : queue[k] = "visible"} :
          /\ queue' = [k \in Message |-> IF k \in batch THEN "inflight" ELSE queue[k]]
          /\ receives' = [k \in Message |-> receives[k] + IF k \in batch THEN 1 ELSE 0]
          /\ todo' = [todo EXCEPT ![c] = [k \in Message |->
                         IF k \in batch THEN receives[k] + 1 ELSE 0]]
    BY <1>4 DEF Receive
  <2>2. \A d \in Consumer : todo'[d][m] \in {todo[d][m], IF m \in batch THEN receives[m] + 1 ELSE 0}
    BY <2>1 DEF TypeInv, TypeOK
  <2>3. CASE m \in batch
    <3>1. queue[m] = "visible" /\ queue'[m] = "inflight" /\ receives'[m] = receives[m] + 1
      BY <2>1, <2>3
    <3> QED
      BY <1>1, <2>2, <2>3, <3>1
  <2>4. CASE m \notin batch
    <3>1. queue'[m] = queue[m] /\ receives'[m] = receives[m]
      BY <1>1, <2>1, <2>4
    <3> QED
      BY <1>1, <2>2, <2>4, <3>1
  <2> QED
    BY <2>3, <2>4
<1>5. ASSUME NEW k \in Message, VisibilityEnds(k) \/ Expires(k) PROVE OfMessage(m)'
  <2>1. receives' = receives /\ todo' = todo
    BY <1>5 DEF VisibilityEnds, Expires, workVars
  <2>2. \/ queue'[m] = queue[m]
        \/ queue[m] # "none" /\ queue'[m] = "dead"
        \/ queue[m] # "none" /\ queue'[m] = "visible" /\ receives[m] < MaxReceives
    BY <1>5 DEF VisibilityEnds, Expires, TypeInv, TypeOK
  <2> QED
    BY <1>1, <2>1, <2>2
<1>6. ASSUME NEW c \in Consumer, Done(c), receives' = receives,
             queue'[m] = queue[m] \/ (queue[m] # "none" /\ queue'[m] = "deleted")
      PROVE  OfMessage(m)'
  <2>1. \A d \in Consumer : todo'[d][m] \in {todo[d][m], 0}
    BY <1>6 DEF Done, TypeInv, TypeOK
  <2> QED
    BY <1>1, <1>6, <2>1
<1>7. ASSUME NEW c \in Consumer, DeleteMessage(c) PROVE OfMessage(m)'
  <2>1. doing[c] \in Message /\ todo[c][doing[c]] > 0
    BY <1>7 DEF DeleteMessage, TypeInv, Work, Working
  <2>2. queue[doing[c]] # "none"
    <3>1. todo[c][doing[c]] <= receives[doing[c]] /\ (queue[doing[c]] = "none" => receives[doing[c]] = 0)
      BY <2>1 DEF TypeInv, Messages
    <3>2. todo[c][doing[c]] \in Nat
      BY <2>1 DEF TypeInv, TypeOK
    <3> QED
      BY <2>1, <3>1, <3>2
  <2>3. queue'[m] = queue[m] \/ (queue[m] # "none" /\ queue'[m] = "deleted")
    <3>1. queue' = queue \/
            queue' = [queue EXCEPT ![doing[c]] = IF @ = "dead" THEN @ ELSE "deleted"]
      BY <1>7 DEF DeleteMessage
    <3>2. queue \in [Message -> {"none", "visible", "inflight", "deleted", "dead"}]
      BY DEF TypeInv, TypeOK
    <3>3. CASE m = doing[c]
      BY <2>2, <3>1, <3>2, <3>3
    <3>4. CASE m # doing[c]
      BY <2>1, <3>1, <3>2, <3>4
    <3> QED
      BY <3>3, <3>4
  <2>4. Done(c) /\ receives' = receives
    BY <1>7 DEF DeleteMessage
  <2> QED
    BY <1>6, <2>3, <2>4
<1>8. ASSUME NEW c \in Consumer, ProjectionFails(c) PROVE OfMessage(m)'
  BY <1>6, <1>8 DEF ProjectionFails, queueVars
<1>9. ASSUME NEW c \in Consumer, Crash(c) PROVE OfMessage(m)'
  <2>1. queue' = queue /\ receives' = receives /\ \A d \in Consumer : todo'[d][m] \in {todo[d][m], 0}
    BY <1>9 DEF Crash, queueVars, TypeInv, TypeOK
  <2> QED
    BY <1>1, <2>1
<1>10. ASSUME \/ UNCHANGED vars \/ Change(TRUE) \/ Change(FALSE)
              \/ \E v \in 1 .. MaxVersion : GiveUp(v)
              \/ \E p \in Process : Stamp(p) \/ Put(p)
              \/ \E c \in Consumer : ProcessMessage(c)
              \/ \E r \in Reader : FallBack(r) \/ SaveFails(r)
       PROVE  UNCHANGED <<queue, receives, todo>>
  BY <1>10 DEF vars, Change, GiveUp, Stamp, Put, ProcessMessage, ReadLedger, FallBack, SaveFails,
               queueVars, workVars
<1> QED
  BY <1>2, <1>3, <1>4, <1>5, <1>7, <1>8, <1>9, <1>10 DEF Next, Consume, Process

\* A consumer at work keeps what it relies on.
LEMMA WorkStep ==
  ASSUME TypeInv, Stamps, [Next]_vars
  PROVE  Work'
<1> USE ProjectionAssumption
<1>1. /\ projected \in Nat /\ projected' \in Nat /\ projected <= projected'
      /\ ledger \in Nat /\ \A p \in Process : seen[p] \in Nat
  <2>1. projected \in Nat /\ ledger \in Nat /\ \A p \in Process : seen[p] \in Nat
    BY DEF TypeInv, TypeOK, Version
  <2>2. projected' >= projected
    BY VersionsGrow DEF TypeInv, Past
  <2>3. projected' \in Nat
    BY TypeStep DEF TypeOK, Version
  <2> QED
    BY <2>1, <2>2, <2>3
<1>2. \A c \in Consumer : c \in Process /\ c \notin Reader
  BY DEF Process
<1> DEFINE Same(q) == pc'[q] = pc[q] /\ seen'[q] = seen[q]
           SameJob(c) == doing'[c] = doing[c] /\ todo'[c] = todo[c]
\* Whoever does not move relies on what it relied on.
<1>3. ASSUME NEW c \in Consumer, Same(c), SameJob(c) PROVE Working(c)'
  <2>1. doing[c] \in Message => doing[c][1] \in Nat
    BY MessageType
  <2> QED
    BY <1>1, <1>3, <2>1 DEF Working, TypeInv, Work
<1>4. ASSUME NEW c \in Consumer, pc'[c] = "idle" PROVE Working(c)'
  BY <1>4 DEF Working
\* Of the readers, no one deletes messages.
<1>5. \A r \in Reader : pc'[r] # "delete"
  <2>1. \A r \in Reader : pc[r] # "delete" /\ r \in Process
    BY DEF TypeInv, Work, Process
  <2>2. ASSUME NEW p \in Process, ReadLedger(p) \/ Stamp(p)
        PROVE  \A r \in Reader : pc'[r] # "delete"
    <3>1. \A q \in Process : pc'[q] \in {pc[q], "stamp", "put"}
      BY <2>2 DEF ReadLedger, Stamp, TypeInv, TypeOK
    <3> QED
      BY <2>1, <3>1
  <2>3. ASSUME NEW p \in Process, Goto(p, "idle") \/ (p \in Consumer /\ Goto(p, "delete"))
        PROVE  \A r \in Reader : pc'[r] # "delete"
    BY <1>2, <2>1, <2>3 DEF Goto, TypeInv, TypeOK
  <2>4. ASSUME NEW p \in Process, Put(p)
        PROVE  \A r \in Reader : pc'[r] # "delete"
    <3>1. p \in Consumer => Goto(p, "delete")
      BY <2>4 DEF Put
    <3>2. p \notin Consumer => Goto(p, "idle")
      BY <2>4 DEF Put
    <3> QED
      BY <2>3, <3>1, <3>2
  <2>5. ASSUME NEW c \in Consumer, DeleteMessage(c) \/ ProjectionFails(c) \/ Crash(c)
        PROVE  Goto(c, "idle") /\ c \in Process
    BY <1>2, <2>5 DEF DeleteMessage, ProjectionFails, Crash, Done
  <2>6. ASSUME NEW r \in Reader, SaveFails(r)
        PROVE  Goto(r, "idle") /\ r \in Process
    BY <2>1, <2>6 DEF SaveFails
  <2>7. CASE UNCHANGED pc
    BY <2>1, <2>7
  <2>8. ASSUME \/ UNCHANGED vars \/ Change(TRUE) \/ Change(FALSE)
               \/ \E v \in 1 .. MaxVersion : GiveUp(v)
               \/ \E m \in Message : Publish(m) \/ VisibilityEnds(m) \/ Expires(m)
               \/ \E c \in Consumer : Receive(c)
        PROVE  UNCHANGED pc
    BY <2>8 DEF vars, Change, GiveUp, Publish, VisibilityEnds, Expires, Receive
  <2>9. ASSUME NEW c \in Consumer, ProcessMessage(c) PROVE ReadLedger(c)
    BY <2>9 DEF ProcessMessage
  <2>10. ASSUME NEW r \in Reader, FallBack(r) PROVE ReadLedger(r)
    BY <2>10 DEF FallBack
  <2> QED
    BY <1>2, <2>1, <2>2, <2>3, <2>4, <2>5, <2>6, <2>7, <2>8, <2>9, <2>10 DEF Next, Consume
\* Of the consumers, one action after the other.
<1> SUFFICES ASSUME NEW c \in Consumer PROVE Working(c)'
  BY <1>5 DEF Work
<1>6. /\ pc \in [Process -> {"idle", "stamp", "put", "delete"}]
      /\ seen \in [Process -> Version] /\ doing \in [Consumer -> Message \cup {None}]
      /\ todo \in [Consumer -> [Message -> 0 .. MaxReceives]] /\ c \in Process
  BY <1>2 DEF TypeInv, TypeOK
<1>7. ASSUME NEW d \in Consumer, Receive(d) PROVE Working(c)'
  <2>1. pc' = pc /\ seen' = seen /\ doing' = doing /\ pc[d] = "idle"
    BY <1>7 DEF Receive
  <2>2. c # d => todo'[c] = todo[c]
    BY <1>6, <1>7 DEF Receive
  <2> QED
    BY <1>3, <1>4, <2>1, <2>2
<1>8. ASSUME NEW d \in Consumer, ProcessMessage(d) PROVE Working(c)'
  <2>1. ReadLedger(d) /\ todo' = todo /\ d \in Process
    BY <1>2, <1>8 DEF ProcessMessage
  <2>2. CASE c # d
    <3>1. Same(c) /\ SameJob(c)
      BY <1>6, <1>8, <2>1, <2>2 DEF ProcessMessage, ReadLedger
    <3> QED
      BY <1>3, <3>1
  <2>3. CASE c = d
    <3>1. PICK m \in Message : todo[c][m] > 0 /\ doing' = [doing EXCEPT ![c] = m]
      BY <1>8, <2>3 DEF ProcessMessage
    <3>2. doing'[c] = m /\ pc'[c] = "stamp" /\ seen'[c] = ledger
      BY <1>6, <2>1, <2>3, <3>1 DEF ReadLedger
    <3>3. m[1] <= announced
      <4>1. todo[c][m] \in Nat /\ todo[c][m] <= receives[m]
        BY <1>6 DEF TypeInv, Messages
      <4> QED
        BY <3>1, <4>1 DEF TypeInv, Messages
    <3>4. m[1] <= ledger
      BY <1>1, <3>3, MessageType DEF TypeInv, TypeOK, Past, Version
    <3> QED
      BY <2>1, <3>1, <3>2, <3>4 DEF Working
  <2> QED
    BY <2>2, <2>3
<1>9. ASSUME NEW p \in Process, Stamp(p) PROVE Working(c)'
  <2>1. doing' = doing /\ todo' = todo /\ seen' = seen /\ projected' = projected
    BY <1>9 DEF Stamp, workVars, saveVars
  <2>2. pc[p] = "stamp" /\ pc' = [pc EXCEPT ![p] = "put"]
    BY <1>9 DEF Stamp
  <2>3. pc'[c] = pc[c] \/ (pc[c] = "stamp" /\ pc'[c] = "put")
    BY <1>6, <2>2
  <2> QED
    BY <2>1, <2>3 DEF Working, TypeInv, Work
<1>10. ASSUME NEW p \in Process, Put(p) PROVE Working(c)'
  <2>1. doing' = doing /\ todo' = todo /\ pc[p] = "put" /\ projected' = Larger(projected, seen[p])
    BY <1>10 DEF Put, workVars
  <2>2. CASE c # p
    <3>1. Same(c)
      BY <1>6, <1>10, <2>2 DEF Put, Goto
    <3> QED
      BY <1>3, <2>1, <3>1
  <2>3. CASE c = p
    <3>1. pc'[c] = "delete"
      BY <1>6, <1>10, <2>3 DEF Put, Goto
    <3>2. doing[c] \in Message /\ todo[c][doing[c]] > 0 /\ doing[c][1] <= seen[c]
      BY <2>1, <2>3 DEF TypeInv, Work, Working
    <3>3. seen[c] <= projected'
      BY <1>1, <1>6, <2>1, <2>3 DEF Larger
    <3>4. doing[c][1] <= projected'
      BY <1>1, <1>6, <3>2, <3>3, MessageType
    <3> QED
      BY <2>1, <3>1, <3>2, <3>4 DEF Working
  <2> QED
    BY <2>2, <2>3
<1>11. ASSUME NEW d \in Consumer, Done(d) PROVE Working(c)'
  <2>1. c = d => pc'[c] = "idle"
    BY <1>6, <1>11 DEF Done, Goto
  <2>2. c # d => Same(c) /\ SameJob(c)
    BY <1>6, <1>11 DEF Done, Goto
  <2> QED
    BY <1>3, <1>4, <2>1, <2>2
<1>12. ASSUME NEW d \in Consumer, Crash(d) PROVE Working(c)'
  <2>1. c = d => pc'[c] = "idle"
    BY <1>6, <1>12 DEF Crash, Goto
  <2>2. c # d => Same(c) /\ SameJob(c)
    BY <1>6, <1>12 DEF Crash, Goto
  <2> QED
    BY <1>3, <1>4, <2>1, <2>2
<1>13. ASSUME NEW r \in Reader, FallBack(r) \/ SaveFails(r) PROVE Working(c)'
  <2>1. doing' = doing /\ todo' = todo /\ r # c
    BY <1>2, <1>13 DEF FallBack, SaveFails, workVars
  <2>2. Same(c)
    BY <1>6, <1>13, <2>1 DEF FallBack, ReadLedger, SaveFails, Goto
  <2> QED
    BY <1>3, <2>1, <2>2
<1>14. ASSUME \/ UNCHANGED vars \/ Change(TRUE) \/ Change(FALSE)
              \/ \E v \in 1 .. MaxVersion : GiveUp(v)
              \/ \E m \in Message : Publish(m) \/ VisibilityEnds(m) \/ Expires(m)
       PROVE  Working(c)'
  <2>1. UNCHANGED <<pc, seen, doing, todo>>
    BY <1>14 DEF vars, Change, GiveUp, Publish, VisibilityEnds, Expires, workVars
  <2> QED
    BY <1>3, <2>1
<1>15. ASSUME NEW d \in Consumer, DeleteMessage(d) \/ ProjectionFails(d) PROVE Done(d)
  BY <1>15 DEF DeleteMessage, ProjectionFails
<1> QED
  BY <1>2, <1>7, <1>8, <1>9, <1>10, <1>11, <1>12, <1>13, <1>14, <1>15 DEF Next, Consume, Process

\* A step that deletes a message is that of a consumer whose projection was finished.
LEMMA DeletedStep ==
  ASSUME TypeInv, Stamps, DeletedWasProjected, [Next]_vars
  PROVE  DeletedWasProjected'
<1> USE ProjectionAssumption
<1> SUFFICES ASSUME NEW m \in Message, queue'[m] = "deleted" PROVE projected' >= m[1]
  BY DEF DeletedWasProjected
<1>1. queue \in [Message -> {"none", "visible", "inflight", "deleted", "dead"}]
  BY DEF TypeInv, TypeOK
<1>2. projected \in Nat /\ projected' \in Nat /\ projected <= projected' /\ m[1] \in Nat
  <2>1. projected \in Nat
    BY DEF TypeInv, TypeOK, Version
  <2>2. projected' \in Nat
    BY TypeStep DEF TypeOK, Version
  <2>3. projected' >= projected
    BY VersionsGrow DEF TypeInv, Past
  <2> QED
    BY <2>1, <2>2, <2>3, MessageType
<1>3. CASE queue[m] = "deleted"
  BY <1>2, <1>3 DEF DeletedWasProjected
<1>4. ASSUME NEW c \in Consumer, DeleteMessage(c), queue[m] # "deleted"
      PROVE  m[1] <= projected
  <2>1. pc[c] = "delete" /\ doing[c] \in Message /\ doing[c][1] <= projected
    BY <1>4 DEF DeleteMessage, TypeInv, Work, Working
  <2>2. queue' = queue \/
          queue' = [queue EXCEPT ![doing[c]] = IF @ = "dead" THEN @ ELSE "deleted"]
    BY <1>4 DEF DeleteMessage
  <2>3. m = doing[c]
    BY <1>1, <1>4, <2>1, <2>2
  <2> QED
    BY <2>1, <2>3
<1>5. ASSUME \/ \E k \in Message : Publish(k) \/ VisibilityEnds(k) \/ Expires(k)
             \/ \E c \in Consumer : Receive(c)
      PROVE  queue[m] = "deleted"
  BY <1>1, <1>5 DEF Publish, VisibilityEnds, Expires, Receive
<1>6. ASSUME \/ UNCHANGED vars \/ Change(TRUE) \/ Change(FALSE)
             \/ \E v \in 1 .. MaxVersion : GiveUp(v)
             \/ \E p \in Process : Stamp(p) \/ Put(p)
             \/ \E c \in Consumer : ProcessMessage(c) \/ ProjectionFails(c) \/ Crash(c)
             \/ \E r \in Reader : FallBack(r) \/ SaveFails(r)
      PROVE  queue[m] = "deleted"
  <2>1. queue' = queue
    BY <1>6 DEF vars, Change, GiveUp, Stamp, Put, ProcessMessage, ReadLedger, ProjectionFails,
                Crash, FallBack, SaveFails, queueVars
  <2> QED
    BY <2>1
<1>7. CASE queue[m] # "deleted"
  <2>1. m[1] <= projected
    BY <1>4, <1>5, <1>6, <1>7, Zenon DEF Next, Consume, Process
  <2> QED
    BY <1>2, <2>1
<1> QED
  BY <1>3, <1>7

-----------------------------------------------------------------------------
(* Freshness *)

\* With texts in the order of the times, a write is taken exactly when its time is
\* later than the item's.
LEMMA TakenWhenLater ==
  ASSUME TextsInOrder, TypeOK, Stamps, NEW p \in Process, Saving(p), item # None
  PROVE  /\ MayReplace(p) => item.stamp < stamp[p]
         /\ ~MayReplace(p) => stamp[p] < item.stamp
<1> USE ProjectionAssumption
<1>1. item \in Item
  BY DEF TypeOK
<1>2. item.stamp \in Instant /\ stamp[p] \in Instant /\ stamp[p] # item.stamp
  BY <1>1 DEF Item, Stamps
<1> DEFINE t == item.stamp
           u == stamp[p]
<1>3. t \in Nat /\ u \in Nat
  BY <1>2
<1>4. \A i \in Nat : Text(i) \in Nat
  BY DEF Text
<1>5. Text(t) \in Nat /\ Text(u) \in Nat
  BY <1>3, <1>4
<1>6. t < u => Text(t) < Text(u)
  BY <1>2 DEF TextsInOrder
<1>7. u < t => Text(u) < Text(t)
  BY <1>2 DEF TextsInOrder
<1>8. MayReplace(p) <=> Text(t) <= Text(u)
  BY DEF MayReplace
<1>9. t # u
  BY <1>2
<1> HIDE DEF t, u
<1>10. (Text(t) <= Text(u) => t < u) /\ (~(Text(t) <= Text(u)) => u < t)
  BY <1>3, <1>5, <1>6, <1>7, <1>9
<1> QED
  BY <1>8, <1>10 DEF t, u

\* What a finished write makes of the item: it comes from this save, or a newer one
\* was there.
LEMMA WrittenInOrder ==
  ASSUME TextsInOrder, TypeOK, Stamps, ItemInOrder, NEW p \in Process, Saving(p), Written(p)
  PROVE  /\ item' # None /\ seen[p] <= item'.version
         /\ item # None => item.version <= item'.version
         /\ \/ item' = item
            \/ item'.version = seen[p] /\ item'.stamp = stamp[p]
<1> USE ProjectionAssumption
<1> DEFINE new == [version |-> seen[p], stamp |-> stamp[p]]
<1>1. seen[p] \in Nat
  BY DEF TypeOK, Version
<1>2. item # None => item.version \in Nat
  BY DEF TypeOK, Item, Version
<1>3. new.version = seen[p] /\ new.stamp = stamp[p]
  OBVIOUS
<1>4. CASE MayReplace(p)
  <2>1. item' = new /\ item' # None
    BY <1>4, WrittenType
  <2>2. item # None => item.version <= seen[p]
    BY <1>4, TakenWhenLater DEF ItemInOrder
  <2> HIDE DEF new
  <2> QED
    BY <1>1, <1>3, <2>1, <2>2
<1>5. CASE ~MayReplace(p)
  <2>1. item' = item /\ item # None
    BY <1>5, WrittenType DEF MayReplace
  <2>2. seen[p] <= item.version
    BY <1>5, <2>1, TakenWhenLater DEF ItemInOrder
  <2> QED
    BY <1>2, <2>1, <2>2
<1> QED
  BY <1>4, <1>5

\* The steps keep times and versions in order, until saves overlap.
LEMMA InOrderStep ==
  ASSUME TextsInOrder, TypeInv, Stamps, InOrder, [Next]_vars
  PROVE  InOrder'
<1> USE ProjectionAssumption
<1>1. /\ ledger \in Nat /\ \A p \in Process : seen[p] \in Nat /\ stamp[p] \in Nat
      /\ item # None => item.version \in Nat /\ item.stamp \in Nat
  BY SaveNumbers DEF TypeInv
<1>2. CASE UNCHANGED <<pc, seen, stamp, item, projected, overlapped>>
  BY <1>2 DEF InOrder, SavesInOrder, ItemInOrder, Saving
<1>3. ASSUME NEW p \in Process, ReadLedger(p), ~overlapped' PROVE SavesInOrder' /\ ItemInOrder'
  <2>1. SavesInOrder /\ ItemInOrder
    BY <1>3, ReadStep DEF InOrder, TypeInv
  <2>2. /\ pc'[p] = "stamp" /\ seen'[p] = ledger
        /\ \A q \in Process : q # p => pc'[q] = pc[q] /\ seen'[q] = seen[q]
        /\ UNCHANGED <<stamp, item>>
    BY <1>3, ReadStep DEF TypeInv
  <2>3. SavesInOrder'
    BY <1>1, <2>1, <2>2 DEF SavesInOrder, Saving, TypeInv, Past
  <2>4. ItemInOrder'
    BY <1>1, <2>1, <2>2 DEF ItemInOrder, Saving, TypeInv, Past
  <2> QED
    BY <2>3, <2>4
<1>4. ASSUME NEW p \in Process, Stamp(p), ~overlapped' PROVE SavesInOrder' /\ ItemInOrder'
  <2>1. PICK t \in Instant :
          /\ pc[p] = "stamp"
          /\ pc' = [pc EXCEPT ![p] = "put"] /\ stamp' = [stamp EXCEPT ![p] = t]
          /\ \A q \in Process : Saving(q) => stamp[q] < t
          /\ item # None => item.stamp < t
          /\ seen' = seen /\ item' = item
          /\ ~overlapped /\ \A q \in Process : pc[q] = "stamp" => seen[p] <= seen[q]
    BY <1>4, StampStep DEF TypeInv
  <2>2. /\ pc'[p] = "put" /\ stamp'[p] = t /\ t \in Nat
        /\ \A q \in Process : q # p => pc'[q] = pc[q] /\ stamp'[q] = stamp[q]
    BY <2>1 DEF TypeInv, TypeOK
  <2>3. SavesInOrder /\ ItemInOrder
    BY <2>1 DEF InOrder
  <2>4. SavesInOrder'
    BY <1>1, <2>1, <2>2, <2>3 DEF SavesInOrder, Saving
  <2>5. ItemInOrder'
    BY <1>1, <2>1, <2>2, <2>3 DEF ItemInOrder, Saving
  <2> QED
    BY <2>4, <2>5
<1>5. ASSUME NEW p \in Process, NEW l \in {"idle", "delete"}, Leaves(p, l),
             overlapped' = overlapped, ~overlapped'
      PROVE  SavesInOrder' /\ ItemInOrder'
  <2>1. SavesInOrder /\ ItemInOrder
    BY <1>5 DEF InOrder
  <2>2. /\ pc'[p] # "stamp" /\ pc'[p] # "put"
        /\ \A q \in Process : q # p =>
             pc'[q] = pc[q] /\ seen'[q] = seen[q] /\ stamp'[q] = stamp[q]
    BY <1>5, LeavesStep DEF TypeInv
  <2>3. SavesInOrder'
    BY <2>1, <2>2 DEF SavesInOrder, Saving
  <2>4. CASE item' = item
    <3>1. ASSUME NEW q \in Process, item' # None
          PROVE  /\ pc'[q] = "stamp" => item'.version <= seen'[q]
                 /\ pc'[q] = "put" /\ item'.stamp < stamp'[q] => item'.version <= seen'[q]
                 /\ pc'[q] = "put" /\ stamp'[q] < item'.stamp => seen'[q] <= item'.version
      <4>1. CASE q = p
        BY <2>2, <4>1
      <4>2. CASE q # p
        BY <2>1, <2>2, <2>4, <3>1, <4>2 DEF ItemInOrder, Saving
      <4> QED
        BY <4>1, <4>2
    <3> QED
      BY <2>3, <3>1 DEF ItemInOrder, Saving
  <2>5. CASE item' # item
    <3>1. Saving(p) /\ item'.version = seen[p] /\ item'.stamp = stamp[p]
      BY <1>5, <2>1, <2>5, WrittenInOrder DEF Leaves, saveVars, TypeInv
    <3> QED
      BY <2>1, <2>2, <3>1 DEF SavesInOrder, ItemInOrder, Saving
  <2> QED
    BY <2>3, <2>4, <2>5
<1> QED
  BY <1>2, <1>3, <1>4, <1>5, SavesOfAStep DEF InOrder

\* So the item comes to be as new as what was just projected.
LEMMA FreshStep ==
  ASSUME TextsInOrder, FreshInv, [Next]_vars
  PROVE  FreshUnlessOverlapped'
<1> USE ProjectionAssumption
<1> USE DEF FreshInv
<1>1. /\ projected \in Nat /\ \A p \in Process : seen[p] \in Nat
      /\ item # None => item.version \in Nat
  BY DEF TypeInv, TypeOK, Version, Item
<1>2. CASE UNCHANGED <<item, projected, overlapped>>
  BY <1>2 DEF FreshUnlessOverlapped
<1>3. ASSUME NEW p \in Process, ReadLedger(p) PROVE FreshUnlessOverlapped'
  BY <1>2, <1>3, ReadStep DEF TypeInv
<1>4. ASSUME NEW p \in Process, Stamp(p) PROVE FreshUnlessOverlapped'
  <2>1. PICK t \in Instant :
          item' = item /\ projected' = projected /\ (~overlapped' => ~overlapped)
    BY <1>4, StampStep DEF TypeInv
  <2> QED
    BY <2>1 DEF FreshUnlessOverlapped
<1>5. ASSUME NEW p \in Process, NEW l \in {"idle", "delete"}, Leaves(p, l),
             overlapped' = overlapped
      PROVE  FreshUnlessOverlapped'
  <2>1. CASE UNCHANGED <<item, projected>>
    BY <1>2, <1>5, <2>1
  <2>2. CASE /\ Saving(p) /\ Written(p)
             /\ projected' \in {projected, Larger(projected, seen[p])} /\ ~overlapped
    <3>1. /\ item' # None /\ seen[p] <= item'.version
          /\ item # None => item.version <= item'.version
          /\ item' = item \/ item'.version = seen[p]
      BY <2>2, WrittenInOrder DEF TypeInv, InOrder
    <3>2. item'.version \in Nat
      BY <1>1, <3>1
    <3>3. projected' \in {projected, seen[p]}
      BY <2>2 DEF Larger
    <3>4. projected > 0 => item # None /\ projected <= item.version
      BY <1>1, <2>2 DEF FreshUnlessOverlapped
    <3> QED
      BY <1>1, <3>1, <3>2, <3>3, <3>4 DEF FreshUnlessOverlapped
  <2> QED
    BY <1>5, <2>1, <2>2 DEF Leaves, saveVars, FreshUnlessOverlapped
<1> QED
  BY <1>2, <1>3, <1>4, <1>5, SavesOfAStep

-----------------------------------------------------------------------------
(* The theorems *)

LEMMA Started ==
  ASSUME Init
  PROVE  TypeInv /\ Stamps /\ InOrder /\ DeletedWasProjected /\ FreshUnlessOverlapped
<1> USE ProjectionAssumption
<1>1. TypeOK
  <2>1. 0 \in Version /\ 0 \in 0 .. MaxReceives /\ 0 \in 0 .. MaxFaults /\ 0 \in 0 .. MaxReads
    BY DEF Version
  <2>2. /\ ledger \in Version /\ announced \in Version /\ owed \subseteq 1 .. announced
        /\ item \in Item \cup {None} /\ projected \in Version
        /\ overlapped \in BOOLEAN /\ lost \in BOOLEAN
        /\ faults \in 0 .. MaxFaults /\ reads \in 0 .. MaxReads
    BY <2>1 DEF Init
  <2>3. /\ queue \in [Message -> {"none", "visible", "inflight", "deleted", "dead"}]
        /\ receives \in [Message -> 0 .. MaxReceives]
        /\ todo \in [Consumer -> [Message -> 0 .. MaxReceives]]
        /\ doing \in [Consumer -> Message \cup {None}]
    BY <2>1 DEF Init
  <2>4. /\ pc \in [Process -> {"idle", "stamp", "put", "delete"}]
        /\ seen \in [Process -> Version]
        /\ stamp \in [Process -> Instant \cup {0}]
    BY <2>1 DEF Init
  <2> QED
    BY <2>2, <2>3, <2>4 DEF TypeOK
<1>2. Messages /\ Work /\ Past
  BY DEF Init, Messages, Work, Working, Past, Process
<1>3. Stamps /\ InOrder
  BY DEF Init, Stamps, InOrder, SavesInOrder, ItemInOrder, Saving
<1>4. DeletedWasProjected /\ FreshUnlessOverlapped
  BY DEF Init, DeletedWasProjected, FreshUnlessOverlapped
<1> QED
  BY <1>1, <1>2, <1>3, <1>4 DEF TypeInv

\* The variables keep their types, whatever the queue, the replicas and DynamoDB do.
THEOREM ProjectionTypes == Spec => []TypeOK
<1>1. Init => TypeInv /\ Stamps
  BY Started
<1>2. TypeInv /\ Stamps /\ [Next]_vars => (TypeInv /\ Stamps)'
  BY TypeStep, MessagesStep, WorkStep, PastStep, StampsStep DEF TypeInv
<1>3. TypeInv => TypeOK
  BY DEF TypeInv
<1> QED
  BY <1>1, <1>2, <1>3, PTL DEF Spec

\* A message is deleted only after a projection that had read its posting was
\* finished, whichever consumers had it, in whatever order and however often.
THEOREM DeletedIsProjected == Spec => []DeletedWasProjected
<1> DEFINE I == TypeInv /\ Stamps /\ DeletedWasProjected
<1>1. Init => I
  BY Started
<1>2. I /\ [Next]_vars => I'
  BY TypeStep, MessagesStep, WorkStep, PastStep, StampsStep, DeletedStep DEF TypeInv
<1>3. I => DeletedWasProjected
  OBVIOUS
<1> QED
  BY <1>1, <1>2, <1>3, PTL DEF Spec

\* The conditional writes keep the item as new as any finished projection, whatever
\* order the saves arrive in, while none read before another and took its time after.
THEOREM ItemStaysFresh ==
  ASSUME TextsInOrder
  PROVE  Spec => []FreshUnlessOverlapped
<1>1. Init => FreshInv
  BY Started DEF FreshInv
<1>2. FreshInv /\ [Next]_vars => FreshInv'
  BY TypeStep, MessagesStep, WorkStep, PastStep, StampsStep, InOrderStep, FreshStep
  DEF FreshInv, TypeInv
<1>3. FreshInv => FreshUnlessOverlapped
  BY DEF FreshInv
<1> QED
  BY <1>1, <1>2, <1>3, PTL DEF Spec
=============================================================================
