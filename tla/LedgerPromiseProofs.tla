------------------------ MODULE LedgerPromiseProofs ------------------------
(***************************************************************************)
(* WalletLedger implements LedgerPromise: every request, served in many    *)
(* statements among others, takes effect in one step that the tables of    *)
(* that step allow.  What a session decided on before its commit is either *)
(* about rows that never change, or is protected by a row lock, or is      *)
(* compared again by the statement that writes.  Pledged says which.       *)
(*                                                                         *)
(* Then what depends on the requests that clients send.  The handlers do   *)
(* not hash all of a request: the wallet and the hold of the URL are left  *)
(* out.  If hashes tell requests apart all the same (HashesTell), no       *)
(* request is answered from the record of another one.  A capture locks    *)
(* the wallet of its hold before the sorted locks of its posting.  If it   *)
(* pays into an account of no wallet (SettlesOutside), no sessions wait    *)
(* for one another.                                                        *)
(***************************************************************************)
EXTENDS WalletLedgerProofs

-----------------------------------------------------------------------------
(* The definitions that LedgerPromise takes from Funds are those of the core. *)

LEMMA SameCardinality == \A S : Promise!Cardinality(S) = Cardinality(S)
BY DEF Promise!Cardinality, Cardinality

LEMMA SameEntries ==
  /\ \A from, to, n, h : Promise!TwoLeg(from, to, n, h) = TwoLeg(from, to, n, h)
  /\ \A id, t : Promise!Reverse(id, t) = Reverse(id, t)
  /\ \A t : Promise!WalletsOf(t) = WalletsOf(t)
  /\ \A t, a : Promise!Delta(t, a) = Delta(t, a)
  /\ \A t : Promise!ValidEntry(t) <=> ValidEntry(t)
<1>1. \A t : Promise!ValidEntry(t) <=> ValidEntry(t)
  BY SameCardinality DEF Promise!ValidEntry, ValidEntry, Promise!IsBalanced, IsBalanced,
     Promise!EntryUnits, EntryUnits, Promise!Unit, Unit
<1>2. \A t : Promise!WalletsOf(t) = WalletsOf(t)
  BY DEF Promise!WalletsOf, WalletsOf
<1> QED
  BY <1>1, <1>2 DEF Promise!TwoLeg, TwoLeg, Promise!Delta, Delta, Promise!Reverse, Reverse

LEMMA SameAvailable ==
  \A P, H, w, now : Promise!Available(P, H, w, now) = Available(P, H, w, now)
<1> SUFFICES ASSUME NEW P, NEW H, NEW w, NEW now
             PROVE Promise!Available(P, H, w, now) = Available(P, H, w, now)
  OBVIOUS
<1>1. /\ Promise!CreditUnits(P, w) = CreditUnits(P, w)
      /\ Promise!DebitUnits(P, w) = DebitUnits(P, w)
  BY DEF Promise!CreditUnits, CreditUnits, Promise!DebitUnits, DebitUnits, Promise!Unit, Unit
<1>2. Promise!HeldUnits(H, w, now) = HeldUnits(H, w, now)
  BY DEF Promise!HeldUnits, HeldUnits, Promise!ActiveHold, ActiveHold, Promise!Unit, Unit
<1> QED
  BY <1>1, <1>2, SameCardinality
     DEF Promise!Available, Available, Promise!LedgerBalance, LedgerBalance

-----------------------------------------------------------------------------
(* What a session has decided and still stands *)

\* The transaction d is the one that request c asks for, and what its use case
\* found out about it cannot change any more.
Accepted(c, d) ==
  /\ c.op = "post" =>
       /\ d = [dr |-> c.dr, cr |-> c.cr, reverses |-> None, captures |-> None]
       /\ ValidEntry(d)
  /\ c.op = "deposit" => d = TwoLeg(c.from, c.wallet, c.amount, None) /\ c.from # c.wallet
  /\ c.op \in {"withdraw", "transfer"} =>
       d = TwoLeg(c.wallet, c.to, c.amount, None) /\ c.to # c.wallet
  /\ c.op = "reverse" =>
       /\ posted[c.original] # None
       /\ d = Reverse(c.original, posted[c.original])
       /\ posted[c.original].reverses = None
       /\ c.original # c.txn
  /\ c.op = "capture" =>
       /\ Found(c.hold)
       /\ d = TwoLeg(holds[c.hold].wallet, c.settle, holds[c.hold].amount, c.hold)
       /\ holds[c.hold].wallet # c.settle

\* What session p relies on at its label, beyond Ready and Secured.
Pledged(p) ==
  /\ pc[p] \notin {"idle", "usecase"} /\ cmd[p].op \in PostingOp => Accepted(cmd[p], draft[p])
  /\ pc[p] \in {"funds", "create"} => SameKey(cmd[p]) = {}
  /\ pc[p] = "mark" => keys[cmd[p].key] = [hash |-> cmd[p].hash, txn |-> cmd[p].txn]
  /\ pc[p] = "update" /\ cmd[p].op = "expire" => holds[cmd[p].hold].expires <= clock

Pledges == \A p \in Session : Pledged(p)

PromiseInv == SolvencyInv /\ Pledges

\* The terms of a hold are never altered.
LEMMA TermsKept ==
  ASSUME TypeOK, Ready, [Next]_vars, NEW h \in HoldId, holds[h] # None
  PROVE  /\ holds'[h] # None
         /\ holds'[h].wallet = holds[h].wallet
         /\ holds'[h].amount = holds[h].amount
         /\ holds'[h].created = holds[h].created
         /\ holds'[h].expires = holds[h].expires
         /\ holds'[h].key = holds[h].key
         /\ holds'[h].hash = holds[h].hash
<1>1. holds[h] \in HoldRow /\ holds'[h] \in HoldRow
  BY TypeStep, StepKeepsHolds DEF TypeOK
<1> DEFINE row == [holds'[h] EXCEPT !.status = holds[h].status]
<1>2. row = holds[h] /\ holds'[h] # None
  BY StepKeepsHolds
<1>3. /\ row.wallet = holds'[h].wallet /\ row.amount = holds'[h].amount
      /\ row.created = holds'[h].created /\ row.expires = holds'[h].expires
      /\ row.key = holds'[h].key /\ row.hash = holds'[h].hash
  BY <1>1 DEF HoldRow
<1> QED
  BY <1>2, <1>3

\* Posted transactions and the terms of holds being final, so is what a use case
\* made of them.
LEMMA AcceptedLasts ==
  ASSUME TypeOK, Ready, [Next]_vars, NEW c \in Command, c.op \in PostingOp, NEW d,
         Accepted(c, d)
  PROVE  Accepted(c, d)'
<1>1. c.op = "reverse" => posted'[c.original] = posted[c.original]
  BY StepAppends, CommandFields DEF Accepted
<1>2. c.op = "capture" =>
        /\ Found(c.hold)'
        /\ holds'[c.hold].wallet = holds[c.hold].wallet
        /\ holds'[c.hold].amount = holds[c.hold].amount
  BY TermsKept, CommandFields DEF Accepted, Found
<1> QED
  BY <1>1, <1>2 DEF Accepted

-----------------------------------------------------------------------------
(* The steps keep the pledges *)

\* Session p goes on to label l, and what it relies on there it has just seen.
MovesOn(p, l) ==
  /\ UNCHANGED <<posted, keys, holds, clock>>
  /\ pc'[p] = l /\ cmd'[p] = cmd[p]
  /\ cmd[p].op \in PostingOp => Accepted(cmd[p], draft'[p])
  /\ l \in {"funds", "create"} => SameKey(cmd[p]) = {}
  /\ l = "mark" => keys[cmd[p].key] = [hash |-> cmd[p].hash, txn |-> cmd[p].txn]
  /\ l = "update" /\ cmd[p].op = "expire" => holds[cmd[p].hold].expires <= clock

LEMMA DraftMoves ==
  ASSUME TypeOK, NEW p \in Session, NEW t, NEW l \in {"lookup", "begin"}, Draft(p, t, l),
         Accepted(cmd[p], t)
  PROVE  MovesOn(p, l)
BY DEF TypeOK, Draft, Goto, db, MovesOn

\* The use cases draft the transaction that the request asks for.
LEMMA UseCaseMoves ==
  ASSUME TypeOK, Ready, NEW p \in Session,
         \/ PostTransaction(p) \/ DepositWallet(p) \/ WithdrawWallet(p)
         \/ TransferWallet(p) \/ ReverseTransaction(p) \/ CreateHold(p)
         \/ CaptureHold(p) \/ ReleaseHold(p) \/ ExpireHold(p)
  PROVE  (\E r : Answer(p, r)) \/ \E l : MovesOn(p, l)
<1> USE DEF At
<1>f. ASSUME NEW r, Fail(p, r) PROVE \E s : Answer(p, s)
  BY <1>f DEF Fail
<1>1. CASE PostTransaction(p)
  <2> DEFINE t == [dr |-> cmd[p].dr, cr |-> cmd[p].cr, reverses |-> None, captures |-> None]
  <2>1. Fail(p, "rejected") \/ (ValidEntry(t) /\ Draft(p, t, "lookup"))
    BY <1>1 DEF PostTransaction
  <2>2. ValidEntry(t) => Accepted(cmd[p], t)
    BY <1>1 DEF PostTransaction, Accepted
  <2> HIDE DEF t
  <2> QED
    BY <1>f, <2>1, <2>2, DraftMoves
<1>2. CASE DepositWallet(p)
  <2> DEFINE t == TwoLeg(cmd[p].from, cmd[p].wallet, cmd[p].amount, None)
  <2>1. Fail(p, "rejected") \/ (cmd[p].from # cmd[p].wallet /\ Draft(p, t, "lookup"))
    BY <1>2 DEF DepositWallet
  <2>2. cmd[p].from # cmd[p].wallet => Accepted(cmd[p], t)
    BY <1>2 DEF DepositWallet, Accepted
  <2> QED
    BY <1>f, <2>1, <2>2, DraftMoves
<1>3. CASE WithdrawWallet(p) \/ TransferWallet(p)
  <2> DEFINE t == TwoLeg(cmd[p].wallet, cmd[p].to, cmd[p].amount, None)
  <2>1. (\E r : Fail(p, r)) \/ (cmd[p].to # cmd[p].wallet /\ Draft(p, t, "lookup"))
    BY <1>3 DEF WithdrawWallet, TransferWallet, SpendFrom
  <2>2. cmd[p].to # cmd[p].wallet => Accepted(cmd[p], t)
    BY <1>3 DEF WithdrawWallet, TransferWallet, Accepted
  <2> QED
    BY <1>f, <2>1, <2>2, DraftMoves
<1>4. CASE ReverseTransaction(p)
  <2> DEFINE o == cmd[p].original
             t == Reverse(o, posted[o])
  <2>1. \/ Fail(p, "rejected")
        \/ /\ posted[o] # None /\ o # cmd[p].txn /\ posted[o].reverses = None
           /\ Draft(p, t, "lookup")
    BY <1>4 DEF ReverseTransaction
  <2>2. posted[o] # None /\ o # cmd[p].txn /\ posted[o].reverses = None => Accepted(cmd[p], t)
    BY <1>4 DEF ReverseTransaction, Accepted
  <2> QED
    BY <1>f, <2>1, <2>2, DraftMoves
<1>5. CASE CreateHold(p)
  <2>1. Fail(p, "rejected") \/ (Goto(p, "begin") /\ UNCHANGED <<db, locks, local>>)
    BY <1>5 DEF CreateHold
  <2>2. Goto(p, "begin") /\ UNCHANGED <<db, locks, local>> => MovesOn(p, "begin")
    BY <1>5 DEF CreateHold, Goto, db, TypeOK, MovesOn, PostingOp
  <2> QED
    BY <1>f, <2>1, <2>2
<1>6. CASE CaptureHold(p)
  <2> DEFINE h == cmd[p].hold
             t == TwoLeg(holds[h].wallet, cmd[p].settle, holds[h].amount, h)
  <2>1. \/ Fail(p, "rejected")
        \/ Found(h) /\ holds[h].wallet # cmd[p].settle /\ Draft(p, t, "begin")
    BY <1>6 DEF CaptureHold, Capturable
  <2>2. Found(h) /\ holds[h].wallet # cmd[p].settle => Accepted(cmd[p], t)
    BY <1>6 DEF CaptureHold, Accepted
  <2> QED
    BY <1>f, <2>1, <2>2, DraftMoves
<1>7. CASE ReleaseHold(p) \/ ExpireHold(p)
  <2>1. cmd[p].op \in {"release", "expire"}
    BY <1>7 DEF ReleaseHold, ExpireHold
  <2>2. \/ Fail(p, "rejected")
        \/ /\ holds[cmd[p].hold] # None
           /\ cmd[p].op = "expire" => clock >= holds[cmd[p].hold].expires
           /\ Goto(p, "update") /\ UNCHANGED <<db, locks, local>>
    BY <1>7 DEF ReleaseHold, ExpireHold, CloseHold, Found
  <2>3. ASSUME holds[cmd[p].hold] # None,
               cmd[p].op = "expire" => clock >= holds[cmd[p].hold].expires,
               Goto(p, "update"), UNCHANGED <<db, locks, local>>
        PROVE  MovesOn(p, "update")
    <3>1. cmd[p] \in Command
      BY <1>7 DEF ReleaseHold, ExpireHold, Ready, ReadyAt
    <3>2. holds[cmd[p].hold] \in HoldRow
      BY <2>1, <2>3, <3>1, CommandFields DEF TypeOK
    <3>3. cmd[p].op = "expire" => holds[cmd[p].hold].expires <= clock
      BY <2>3, <3>2 DEF HoldRow, TypeOK, Time
    <3> QED
      BY <2>1, <2>3, <3>3 DEF Goto, db, TypeOK, MovesOn, PostingOp
  <2> QED
    BY <1>f, <2>2, <2>3
<1> QED
  BY <1>1, <1>2, <1>3, <1>4, <1>5, <1>6, <1>7

\* The repositories leave the draft alone.
LEMMA RepositoryMoves ==
  ASSUME TypeOK, Ready, NEW p \in Session, Pledged(p),
         \/ BeginTx(p) \/ LockWalletByID(p) \/ LockWalletAccount(p)
         \/ LookupKey(p) \/ RecheckKey(p) \/ ValidateBalances(p)
         \/ LockHold(p) \/ FindHold(p) \/ CheckFunds(p)
  PROVE  (\E r : Answer(p, r)) \/ \E l : MovesOn(p, l)
<1>0. pc[p] \notin {"idle", "usecase"} /\ ReadyAt(pc[p], cmd[p], draft[p])
  BY DEF BeginTx, LockWalletByID, LockWalletAccount, LookupKey, RecheckKey,
         ValidateBalances, LockHold, FindHold, CheckFunds, Ready
<1>1. \/ \E r : Fail(p, r)
      \/ \E l \in {"begin", "wallet", "accounts", "hold", "find", "validate", "insert"} :
           Goto(p, l) /\ UNCHANGED <<db, draft>>
      \/ FindHold(p) /\ Goto(p, "funds") /\ UNCHANGED <<db, draft>>
      \/ CheckFunds(p) /\ Goto(p, "create") /\ UNCHANGED <<db, draft>>
      \/ RecheckKey(p) /\ Goto(p, "mark") /\ UNCHANGED <<db, draft>>
  BY DEF BeginTx, LockWalletByID, LockWalletAccount, LookupKey, RecheckKey,
         ValidateBalances, LockHold, FindHold, CheckFunds, Idempotency, local
<1>2. ASSUME NEW r, Fail(p, r) PROVE Answer(p, r)
  BY <1>2 DEF Fail
<1>3. ASSUME NEW l \in {"begin", "wallet", "accounts", "hold", "find", "validate", "insert"},
             Goto(p, l), UNCHANGED <<db, draft>>
      PROVE  MovesOn(p, l)
  BY <1>0, <1>3 DEF Goto, db, TypeOK, MovesOn, Pledged
<1>4. ASSUME FindHold(p), Goto(p, "funds"), UNCHANGED <<db, draft>>
      PROVE  MovesOn(p, "funds")
  <2>1. SameKey(cmd[p]) = {}
    BY <1>4 DEF FindHold, Goto, Fail, Answer, TypeOK
  <2> QED
    BY <1>0, <1>4, <2>1 DEF Goto, db, TypeOK, MovesOn, Pledged
<1>5. ASSUME CheckFunds(p), Goto(p, "create"), UNCHANGED <<db, draft>>
      PROVE  MovesOn(p, "create")
  BY <1>0, <1>5 DEF CheckFunds, Goto, db, TypeOK, MovesOn, Pledged
<1>6. ASSUME RecheckKey(p), Goto(p, "mark"), UNCHANGED <<db, draft>>
      PROVE  MovesOn(p, "mark")
  <2>1. keys[cmd[p].key] = [hash |-> cmd[p].hash, txn |-> cmd[p].txn]
    BY <1>6 DEF RecheckKey, Idempotency, Goto, Fail, Answer, TypeOK
  <2> QED
    BY <1>0, <1>6, <2>1 DEF Goto, db, TypeOK, MovesOn, Pledged
<1> QED
  BY <1>1, <1>2, <1>3, <1>4, <1>5, <1>6

\* Every step of a session answers, drafts or goes on.
Moves(p) ==
  \/ \E r : Answer(p, r)
  \/ \E t, l : Draft(p, t, l)
  \/ \E l : Goto(p, l) /\ UNCHANGED draft

LEMMA EveryStepMoves ==
  ASSUME NEW p \in Session, Run(p) \/ Acquire(p) \/ DeadlockVictim(p) \/ Abort(p)
  PROVE  Moves(p)
<1> USE DEF Fail, local, Moves
<1>1. ASSUME \/ PostTransaction(p) \/ DepositWallet(p) \/ WithdrawWallet(p)
             \/ TransferWallet(p) \/ ReverseTransaction(p) \/ CreateHold(p)
             \/ CaptureHold(p) \/ ReleaseHold(p) \/ ExpireHold(p)
      PROVE  Moves(p)
  BY <1>1 DEF PostTransaction, DepositWallet, WithdrawWallet, TransferWallet, SpendFrom,
       ReverseTransaction, CreateHold, CaptureHold, ReleaseHold, ExpireHold, CloseHold
<1>2. ASSUME BeginTx(p) \/ LockWalletByID(p) \/ LockWalletAccount(p) \/ ValidateBalances(p)
      PROVE  Moves(p)
  BY <1>2 DEF BeginTx, LockWalletByID, LockWalletAccount, ValidateBalances
<1>3. ASSUME LookupKey(p) \/ RecheckKey(p)
      PROVE  Moves(p)
  BY <1>3 DEF LookupKey, RecheckKey, Idempotency
<1>4. ASSUME LockHold(p) \/ FindHold(p) \/ CheckFunds(p)
      PROVE  Moves(p)
  BY <1>4 DEF LockHold, FindHold, CheckFunds
<1> QED
  BY <1>1, <1>2, <1>3, <1>4, WriteStepAnswers DEF Run, Acquire

\* A step of one session leaves the others where they are.
LEMMA OneSessionMoves ==
  ASSUME TypeOK, Ready, Pledges, [Next]_vars, NEW q \in Session
  PROVE  \/ pc'[q] = pc[q] /\ cmd'[q] = cmd[q] /\ draft'[q] = draft[q]
         \/ pc'[q] \in {"idle", "usecase"}
         \/ \E l : MovesOn(q, l)
<1>1. CASE UNCHANGED vars \/ Tick
  BY <1>1 DEF vars, Tick, local
<1>2. ASSUME NEW p \in Session, NEW c \in Command, Submit(p, c)
      PROVE  \/ pc'[q] = pc[q] /\ cmd'[q] = cmd[q] /\ draft'[q] = draft[q]
             \/ pc'[q] \in {"idle", "usecase"}
  BY <1>2 DEF Submit, TypeOK, local
<1>3. ASSUME NEW p \in Session, NEW r, Answer(p, r)
      PROVE  \/ pc'[q] = pc[q] /\ cmd'[q] = cmd[q] /\ draft'[q] = draft[q]
             \/ pc'[q] = "idle"
  BY <1>3 DEF Answer, TypeOK
<1>4. ASSUME NEW p \in Session, Run(p) \/ Acquire(p) \/ DeadlockVictim(p) \/ Abort(p)
      PROVE  (\E r : Answer(p, r)) \/ \E l : MovesOn(p, l)
  <2>1. Pledged(p)
    BY DEF Pledges
  <2> QED
    BY <1>4, <2>1, UseCaseMoves, RepositoryMoves, WriteStepAnswers DEF Run, Acquire
<1>5. ASSUME NEW p \in Session, Run(p) \/ Acquire(p) \/ DeadlockVictim(p) \/ Abort(p), p # q
      PROVE  \/ pc'[q] = pc[q] /\ cmd'[q] = cmd[q] /\ draft'[q] = draft[q]
             \/ pc'[q] = "idle"
  BY <1>3, <1>5, EveryStepMoves DEF Moves, Draft, Goto, TypeOK
<1> QED
  BY <1>1, <1>2, <1>3, <1>4, <1>5 DEF Next

LEMMA ClockGoesOn ==
  ASSUME TypeOK, [Next]_vars
  PROVE  clock <= clock'
<1>1. clock \in Int
  BY DEF TypeOK, Time
<1>2. CASE Tick
  BY <1>1, <1>2 DEF Tick
<1>3. ASSUME NEW p \in Session, Run(p) \/ Acquire(p) \/ DeadlockVictim(p) \/ Abort(p)
      PROVE  UNCHANGED clock
  BY <1>3, EveryStepMoves DEF Moves, Answer, Draft, Goto
<1> QED
  BY <1>1, <1>2, <1>3 DEF Next, Submit, vars

\* The holds a wallet has under a key only grow, and only by a session that has
\* the wallet's row.
LEMMA SameKeyKept ==
  ASSUME TypeOK, Ready, Locked, [Next]_vars, NEW q \in Session,
         pc[q] \in {"funds", "create"}, pc'[q] # "idle", SameKey(cmd[q]) = {}
  PROVE  \A h \in HoldId : holds'[h] # None =>
           holds'[h].wallet # cmd[q].wallet \/ holds'[h].key # cmd[q].key
<1> SUFFICES ASSUME NEW h \in HoldId, holds'[h] # None
             PROVE  holds'[h].wallet # cmd[q].wallet \/ holds'[h].key # cmd[q].key
  OBVIOUS
<1>1. CASE holds[h] # None
  <2>1. holds[h].wallet # cmd[q].wallet \/ holds[h].key # cmd[q].key
    BY <1>1 DEF SameKey
  <2> QED
    BY <1>1, <2>1, TermsKept
<1>2. CASE holds[h] = None
  <2>1. ~UNCHANGED db
    BY <1>2 DEF db
  <2>2. ~\E g \in HoldId : holds[g] # None /\ \E st : holds' = SetStatus(g, st)
    BY <1>2 DEF SetStatus, TypeOK
  <2>3. PICK p \in Session, g \in HoldId, row \in HoldRow :
          /\ pc[p] = "create" /\ pc'[p] = "idle" /\ row.wallet = cmd[p].wallet
          /\ holds[g] = None /\ holds' = [holds EXCEPT ![g] = row]
    BY <1>2, <2>1, <2>2, WritesOfAStep DEF TypeOK, AskedOf
  <2>4. holds'[h] = row
    BY <1>2, <2>3 DEF TypeOK
  <2>5. walletLock[cmd[p].wallet] = p /\ walletLock[cmd[q].wallet] = q
    BY <2>3 DEF Locked, Secured
  <2>6. p # q
    BY <2>3
  <2> QED
    BY <2>3, <2>4, <2>5, <2>6
<1> QED
  BY <1>1, <1>2

LEMMA PledgesStep ==
  ASSUME PromiseInv, [Next]_vars
  PROVE  Pledges'
<1> USE DEF PromiseInv, SolvencyInv
<1> SUFFICES ASSUME NEW q \in Session PROVE Pledged(q)'
  BY DEF Pledges
<1>1. Pledged(q) /\ ReadyAt(pc[q], cmd[q], draft[q])
  BY DEF Pledges, Ready
<1>2. CASE pc'[q] \in {"idle", "usecase"}
  BY <1>2 DEF Pledged
<1>3. CASE /\ pc'[q] = pc[q] /\ cmd'[q] = cmd[q] /\ draft'[q] = draft[q]
           /\ pc[q] \notin {"idle", "usecase"}
  <2>1. cmd[q] \in Command
    BY <1>1, <1>3 DEF ReadyAt
  <2>2. cmd[q].op \in PostingOp => Accepted(cmd[q], draft[q])'
    <3>1. cmd[q].op \in PostingOp => Accepted(cmd[q], draft[q])
      BY <1>1, <1>3 DEF Pledged
    <3> DEFINE c == cmd[q]
               d == draft[q]
    <3>2. ASSUME NEW x, NEW y, x = cmd[q], y = draft[q], x.op \in PostingOp
          PROVE  Accepted(x, y)'
      BY <2>1, <3>1, <3>2, AcceptedLasts
    <3> QED
      BY <1>3, <3>2 DEF Accepted
  <2>3. pc[q] \in {"funds", "create"} => SameKey(cmd[q])' = {}
    <3>1. pc[q] \in {"funds", "create"} =>
            \A h \in HoldId : holds'[h] # None =>
              holds'[h].wallet # cmd[q].wallet \/ holds'[h].key # cmd[q].key
      BY <1>1, <1>3, SameKeyKept DEF Pledged
    <3> QED
      BY <1>3, <3>1 DEF SameKey
  <2>4. pc[q] = "mark" => keys'[cmd[q].key] = [hash |-> cmd[q].hash, txn |-> cmd[q].txn]
    <3> SUFFICES ASSUME pc[q] = "mark"
                 PROVE  keys'[cmd[q].key] = [hash |-> cmd[q].hash, txn |-> cmd[q].txn]
      OBVIOUS
    <3>1. cmd[q].key \in Key /\ [hash |-> cmd[q].hash, txn |-> cmd[q].txn] \in KeyRow
      BY <1>1, <2>1, CommandFields DEF ReadyAt, PostingOp, KeyRow
    <3>2. keys[cmd[q].key] = [hash |-> cmd[q].hash, txn |-> cmd[q].txn]
      BY <1>1 DEF Pledged
    <3> QED
      BY <3>1, <3>2, StepAppends, NoneAssumption
  <2>5. pc[q] = "update" /\ cmd[q].op = "expire" => holds'[cmd[q].hold].expires <= clock'
    <3> SUFFICES ASSUME pc[q] = "update", cmd[q].op = "expire"
                 PROVE  holds'[cmd[q].hold].expires <= clock'
      OBVIOUS
    <3>1. cmd[q].hold \in HoldId /\ holds[cmd[q].hold] # None
      BY <1>1, <2>1, CommandFields DEF ReadyAt
    <3>2. holds[cmd[q].hold].expires <= clock /\ holds[cmd[q].hold] \in HoldRow
      BY <1>1, <3>1 DEF Pledged, TypeOK
    <3>3. holds'[cmd[q].hold].expires = holds[cmd[q].hold].expires
      BY <3>1, TermsKept
    <3>4. clock <= clock'
      BY ClockGoesOn
    <3>5. clock \in Int /\ clock' \in Int /\ holds[cmd[q].hold].expires \in Int
      BY <3>2, TypeStep DEF TypeOK, Time, HoldRow
    <3> QED
      BY <3>2, <3>3, <3>4, <3>5
  <2> QED
    BY <1>3, <2>2, <2>3, <2>4, <2>5 DEF Pledged
<1>4. ASSUME NEW l, MovesOn(q, l)
      PROVE  Pledged(q)'
  BY <1>4 DEF MovesOn, Pledged, Accepted, Found, SameKey
<1> QED
  BY <1>2, <1>3, <1>4, OneSessionMoves DEF Pledges

-----------------------------------------------------------------------------
(* Every step is a step of the promise, or none *)

\* The transaction that LedgerPromise would record is the accepted one, and legal.
LEMMA AcceptedEntry ==
  ASSUME NEW c \in Command, c.op \in PostingOp, NEW d, Accepted(c, d)
  PROVE  /\ Promise!Entry(c) = d
         /\ c.op # "capture" => Promise!Legal(c)
         /\ c.op = "capture" /\ holds[c.hold].status = "authorized" => Promise!Legal(c)
         /\ c.op = "reverse" => d.reverses = c.original
<1>1. Promise!Entry(c) = d
  BY SameEntries DEF Accepted, PostingOp, Promise!Entry
<1>2. c.op = "reverse" => d.reverses = c.original
  BY DEF Accepted, Reverse
<1> QED
  BY <1>1, <1>2, SameEntries DEF Accepted, Found, PostingOp, Promise!Legal

\* The rows of a checked transaction under a new identifier and key.
LEMMA InsertPromised ==
  ASSUME PromiseInv, NEW p \in Session, pc[p] = "insert",
         ~DuplicateTransaction(p), keys[cmd[p].key] = None,
         WriteTransaction(p), UNCHANGED clock
  PROVE  /\ cmd[p] \in Command /\ cmd[p].op \in PostingOp
         /\ Promise!Fresh(cmd[p]) /\ Promise!Record(cmd[p])
         /\ Promise!Covered(Promise!Entry(cmd[p]))
         /\ cmd[p].op # "capture" => Promise!Legal(cmd[p])
         /\ cmd[p].op = "capture" /\ StillAuthorized(cmd[p].hold) => Promise!Legal(cmd[p])
<1> USE DEF PromiseInv, SolvencyInv
<1>1. ReadyAt("insert", cmd[p], draft[p]) /\ Pledged(p)
  BY DEF Ready, Pledges
<1>2. cmd[p] \in Command /\ cmd[p].op \in PostingOp /\ Accepted(cmd[p], draft[p])
  BY <1>1 DEF ReadyAt, Pledged
<1>3. /\ Promise!Entry(cmd[p]) = draft[p]
      /\ cmd[p].op # "capture" => Promise!Legal(cmd[p])
      /\ cmd[p].op = "capture" /\ holds[cmd[p].hold].status = "authorized" => Promise!Legal(cmd[p])
      /\ cmd[p].op = "reverse" => draft[p].reverses = cmd[p].original
  BY <1>2, AcceptedEntry
<1>4. Promise!Fresh(cmd[p])
  <2>1. cmd[p].op = "reverse" =>
          \A t \in TxnId : posted[t] # None => posted[t].reverses # cmd[p].original
    <3>1. cmd[p].op = "reverse" => cmd[p].original # None
      BY <1>2, CommandFields, NoneAssumption
    <3> QED
      BY <1>3, <3>1 DEF DuplicateTransaction
  <2> QED
    BY <2>1 DEF DuplicateTransaction, Promise!Fresh
<1>5. Promise!Record(cmd[p])
  BY <1>3, SameEntries DEF WriteTransaction, OutboxEvents, Promise!Record
<1>6. Promise!Covered(draft[p])
  <2>1. Affordable(draft[p], clock)
    BY DEF ChecksStayValid
  <2> QED
    BY <2>1, SameEntries, SameAvailable DEF Affordable, Promise!Covered
<1> QED
  BY <1>2, <1>3, <1>4, <1>5, <1>6 DEF StillAuthorized

LEMMA PromisedStep ==
  ASSUME PromiseInv, [Next]_vars
  PROVE  [Promise!Next]_(Promise!vars)
<1> USE DEF PromiseInv, SolvencyInv
<1>0. UNCHANGED <<clock, db>> => UNCHANGED Promise!vars
  BY DEF db, Promise!vars
<1>1. CASE UNCHANGED vars
  BY <1>0, <1>1 DEF vars, db
<1>2. CASE Tick
  <2>1. clock' \in (clock + 1) .. MaxTime
    BY <1>2, BoundAssumption DEF Tick, TypeOK, Time
  <2> QED
    BY <1>2, <2>1 DEF Tick, db, Promise!Tick, Promise!Next
<1>3. ASSUME NEW p \in Session, NEW c \in Command, Submit(p, c)
      PROVE  UNCHANGED Promise!vars
  BY <1>0, <1>3 DEF Submit
<1>4. ASSUME NEW p \in Session, Run(p) \/ Acquire(p) \/ DeadlockVictim(p) \/ Abort(p)
      PROVE  UNCHANGED clock
  BY <1>4, EveryStepMoves DEF Moves, Answer, Draft, Goto
<1>5. ASSUME NEW p \in Session, Reads(p)
      PROVE  UNCHANGED Promise!vars
  BY <1>0, <1>4, <1>5, ReadsWriteNothing DEF Reads, Run, Acquire
<1>6. ASSUME NEW p \in Session, InsertTransaction(p)
      PROVE  UNCHANGED Promise!vars \/ (Promise!Post(cmd[p]) /\ cmd[p] \in Command)
  <2>1. CASE \E r : Fail(p, r)
    BY <1>0, <1>4, <1>6, <2>1 DEF Fail, Run
  <2>2. CASE /\ ~DuplicateTransaction(p) /\ keys[cmd[p].key] = None
             /\ WriteTransaction(p) /\ UNCHANGED holds
    <3>1. pc[p] = "insert" /\ cmd[p].op # "capture" /\ UNCHANGED clock
      BY <1>4, <1>6 DEF InsertTransaction, At, Run
    <3> QED
      BY <2>2, <3>1, InsertPromised DEF Promise!Post, Promise!PostingOp, PostingOp
  <2> QED
    BY <1>6, <2>1, <2>2 DEF InsertTransaction
<1>7. ASSUME NEW p \in Session, InsertCapture(p)
      PROVE  UNCHANGED Promise!vars \/ (Promise!Capture(cmd[p]) /\ cmd[p] \in Command)
  <2>1. CASE \E r : Fail(p, r)
    BY <1>0, <1>4, <1>7, <2>1 DEF Fail, Run
  <2>2. CASE /\ ~DuplicateTransaction(p) /\ keys[cmd[p].key] = None
             /\ StillAuthorized(cmd[p].hold)
             /\ WriteTransaction(p) /\ holds' = SetStatus(cmd[p].hold, "captured")
    <3>1. pc[p] = "insert" /\ cmd[p].op = "capture" /\ UNCHANGED clock
      BY <1>4, <1>7 DEF InsertCapture, At, Run
    <3>2. holds[cmd[p].hold] # None
      BY <3>1 DEF Ready, ReadyAt
    <3>3. Promise!EndHold(cmd[p].hold, "captured")
      BY <2>2, <3>2 DEF StillAuthorized, SetStatus, Promise!EndHold
    <3> QED
      BY <2>2, <3>1, <3>3, InsertPromised DEF Promise!Capture
  <2> QED
    BY <1>7, <2>1, <2>2 DEF InsertCapture
<1>8. ASSUME NEW p \in Session, MarkCaptured(p)
      PROVE  UNCHANGED Promise!vars \/ (Promise!MarkCaptured(cmd[p]) /\ cmd[p] \in Command)
  <2>1. CASE \E r : Fail(p, r)
    BY <1>0, <1>4, <1>8, <2>1 DEF Fail, Run
  <2>2. CASE /\ StillAuthorized(cmd[p].hold)
             /\ holds' = SetStatus(cmd[p].hold, "captured")
             /\ UNCHANGED <<posted, keys, outbox>>
    <3>1. pc[p] = "mark" /\ UNCHANGED clock
      BY <1>4, <1>8 DEF MarkCaptured, Run
    <3>2. /\ cmd[p] \in Command /\ cmd[p].op = "capture" /\ holds[cmd[p].hold] # None
          /\ keys[cmd[p].key] = [hash |-> cmd[p].hash, txn |-> cmd[p].txn]
      BY <3>1 DEF Ready, ReadyAt, Pledges, Pledged
    <3> QED
      BY <2>2, <3>1, <3>2
         DEF StillAuthorized, SetStatus, Promise!EndHold, Promise!MarkCaptured
  <2> QED
    BY <1>8, <2>1, <2>2 DEF MarkCaptured
<1>9. ASSUME NEW p \in Session, CreateWalletHold(p)
      PROVE  UNCHANGED Promise!vars \/ (Promise!Authorize(cmd[p]) /\ cmd[p] \in Command)
  <2> DEFINE c == cmd[p]
             row(created) ==
               [wallet |-> c.wallet, amount |-> c.amount, created |-> created,
                expires |-> c.expires, status |-> "authorized", key |-> c.key, hash |-> c.hash]
  <2>1. CASE \E r : Fail(p, r)
    BY <1>0, <1>4, <1>9, <2>1 DEF Fail, Run
  <2>2. CASE /\ holds[c.hold] = None
             /\ holds' = [holds EXCEPT ![c.hold] = row(began[p])]
             /\ UNCHANGED <<posted, keys, outbox>>
    <3>1. pc[p] = "create" /\ UNCHANGED clock
      BY <1>4, <1>9 DEF CreateWalletHold, Run
    <3>2. c \in Command /\ c.op = "authorize" /\ SameKey(c) = {}
      BY <3>1 DEF Ready, ReadyAt, Pledges, Pledged
    <3>3. \A h \in HoldId : holds[h] # None => holds[h].wallet # c.wallet \/ holds[h].key # c.key
      BY <3>2 DEF SameKey
    <3>4. began[p] \in 0 .. clock
      BY DEF Locked, Secured, TypeOK, Time
    <3>5. Promise!Available(posted, holds, c.wallet, clock) >= c.amount
      BY <3>1, SameAvailable DEF ChecksStayValid
    <3>6. \E created \in 0 .. clock : holds' = [holds EXCEPT ![c.hold] = row(created)]
      BY <2>2, <3>4
    <3> QED
      BY <2>2, <3>1, <3>2, <3>3, <3>5, <3>6 DEF Promise!Authorize
  <2> QED
    BY <1>9, <2>1, <2>2 DEF CreateWalletHold
<1>10. ASSUME NEW p \in Session, UpdateStatus(p)
       PROVE  \/ UNCHANGED Promise!vars
              \/ Promise!Release(cmd[p]) /\ cmd[p] \in Command
              \/ Promise!Expire(cmd[p]) /\ cmd[p] \in Command
  <2> DEFINE st == IF cmd[p].op = "release" THEN "released" ELSE "expired"
  <2>1. CASE \E r : Fail(p, r)
    BY <1>0, <1>4, <1>10, <2>1 DEF Fail, Acquire
  <2>2. CASE /\ StillAuthorized(cmd[p].hold)
             /\ holds' = SetStatus(cmd[p].hold, st)
             /\ UNCHANGED <<posted, keys, outbox>>
    <3>1. pc[p] = "update" /\ UNCHANGED clock
      BY <1>4, <1>10 DEF UpdateStatus, Acquire
    <3>2. /\ cmd[p] \in Command /\ cmd[p].op \in {"release", "expire"}
          /\ holds[cmd[p].hold] # None
          /\ cmd[p].op = "expire" => holds[cmd[p].hold].expires <= clock
      BY <3>1 DEF Ready, ReadyAt, Pledges, Pledged
    <3>3. Promise!EndHold(cmd[p].hold, st)
      BY <2>2, <3>2 DEF StillAuthorized, SetStatus, Promise!EndHold
    <3> QED
      BY <2>2, <3>1, <3>2, <3>3 DEF Promise!Release, Promise!Expire
  <2> QED
    BY <1>10, <2>1, <2>2 DEF UpdateStatus
<1> QED
  BY <1>1, <1>2, <1>3, <1>5, <1>6, <1>7, <1>8, <1>9, <1>10
     DEF Next, Run, Acquire, Reads, Promise!Next

\* Requests served at the same time, each in many statements, with failures, row
\* locks, deadlocks and replays, have the effect of requests that take place one at
\* a time, each allowed by the tables it finds.
THEOREM KeepsThePromise == Spec => KeepsPromise
<1>1. Init => PromiseInv /\ Promise!Init
  BY SolvencyInit DEF Init, PromiseInv, Pledges, Pledged, Promise!Init
<1>2. PromiseInv /\ [Next]_vars => PromiseInv'
  BY SolvencyStep, PledgesStep DEF PromiseInv
<1>3. PromiseInv /\ [Next]_vars => [Promise!Next]_(Promise!vars)
  BY PromisedStep
<1> QED
  BY <1>1, <1>2, <1>3, PTL DEF Spec, KeepsPromise, Promise!Spec

-----------------------------------------------------------------------------
(* What the posted entries are *)

\* The units of one posting are as many as its amount.
LEMMA OnePosting ==
  ASSUME NEW a \in Account, NEW n \in Unit
  PROVE  Cardinality(EntryUnits([x \in Account |-> IF x = a THEN n ELSE 0])) = n
<1> DEFINE units == EntryUnits([x \in Account |-> IF x = a THEN n ELSE 0])
<1>1. units = {a} \X (1 .. n)
  BY BoundAssumption DEF EntryUnits, Unit
<1>2. n \in Nat
  BY BoundAssumption DEF Unit
<1>3. Cardinality({a} \X (1 .. n)) = n
  BY <1>2, BlockOfUnits
<1> QED
  BY <1>1, <1>3

LEMMA AcceptedBalances ==
  ASSUME TypeOK, EntriesBalanced, NEW c \in Command, c.op \in PostingOp, NEW d, Accepted(c, d)
  PROVE  IsBalanced(d)
<1>1. ASSUME NEW from \in Account, NEW to \in Account, NEW n \in Unit, NEW h
      PROVE  IsBalanced(TwoLeg(from, to, n, h))
  BY OnePosting DEF TwoLeg, IsBalanced
<1>2. CASE c.op = "post"
  BY <1>2 DEF Accepted, ValidEntry
<1>3. CASE c.op \in {"deposit", "withdraw", "transfer"}
  BY <1>1, <1>3, CommandFields, WalletAssumption DEF Accepted
<1>4. CASE c.op = "reverse"
  <2>1. IsBalanced(posted[c.original])
    BY <1>4, CommandFields DEF Accepted, EntriesBalanced
  <2> QED
    BY <1>4, <2>1 DEF Accepted, Reverse, IsBalanced
<1>5. CASE c.op = "capture"
  <2>1. holds[c.hold] \in HoldRow
    BY <1>5, CommandFields DEF Accepted, Found, TypeOK
  <2>2. holds[c.hold].wallet \in Account /\ holds[c.hold].amount \in Unit
    BY <2>1, WalletAssumption DEF HoldRow
  <2> QED
    BY <1>1, <1>5, <2>2, CommandFields DEF Accepted
<1> QED
  BY <1>2, <1>3, <1>4, <1>5 DEF PostingOp

\* No entry, direct, two-legged or reversed, makes or destroys money.
THEOREM BalancedEntries == Spec => []EntriesBalanced
<1>1. Init => PromiseInv /\ EntriesBalanced
  BY SolvencyInit DEF Init, PromiseInv, Pledges, Pledged, EntriesBalanced
<1>2. ASSUME PromiseInv, EntriesBalanced, [Next]_vars
      PROVE  EntriesBalanced'
  <2> USE DEF PromiseInv, SolvencyInv
  <2>1. CASE UNCHANGED posted
    BY <1>2, <2>1 DEF EntriesBalanced
  <2>2. ASSUME NEW p \in Session, pc[p] = "insert", WriteTransaction(p)
        PROVE  EntriesBalanced'
    <3>1. /\ cmd[p] \in Command /\ cmd[p].op \in PostingOp
          /\ Accepted(cmd[p], draft[p]) /\ cmd[p].txn \in TxnId
      BY <1>2, <2>2, CommandFields DEF Ready, ReadyAt, Pledges, Pledged
    <3>2. IsBalanced(draft[p])
      BY <1>2, <3>1, AcceptedBalances
    <3>3. \A t \in TxnId : posted'[t] = IF t = cmd[p].txn THEN draft[p] ELSE posted[t]
      BY <1>2, <2>2 DEF WriteTransaction, TypeOK
    <3> QED
      BY <1>2, <3>2, <3>3 DEF EntriesBalanced
  <2> QED
    BY <1>2, <2>1, <2>2, WritesOfAStep DEF db
<1>3. PromiseInv /\ [Next]_vars => PromiseInv'
  BY SolvencyStep, PledgesStep DEF PromiseInv
<1> QED
  BY <1>1, <1>2, <1>3, PTL DEF Spec

\* Two reversals of one transaction may both have found it not reversed; only one
\* is posted, and it undoes what stands in the ledger.
THEOREM CancellingReversals == Spec => []ReversalsCancel
<1>1. Init => PromiseInv /\ ReversalsCancel
  BY SolvencyInit DEF Init, PromiseInv, Pledges, Pledged, ReversalsCancel
<1>2. ASSUME PromiseInv, ReversalsCancel, [Next]_vars
      PROVE  ReversalsCancel'
  <2> USE DEF PromiseInv, SolvencyInv
  <2>1. CASE UNCHANGED posted
    BY <1>2, <2>1 DEF ReversalsCancel, Delta
  <2>2. ASSUME NEW p \in Session, pc[p] = "insert", ~DuplicateTransaction(p), WriteTransaction(p)
        PROVE  ReversalsCancel'
    <3> DEFINE n == cmd[p].txn
               d == draft[p]
    <3>1. /\ cmd[p] \in Command /\ cmd[p].op \in PostingOp
          /\ Accepted(cmd[p], d) /\ n \in TxnId /\ d \in Transaction
      BY <1>2, <2>2, CommandFields DEF Ready, ReadyAt, Pledges, Pledged
    <3>2. posted[n] = None
      BY <2>2 DEF DuplicateTransaction
    <3>3. \A t \in TxnId : posted'[t] = IF t = n THEN d ELSE posted[t]
      BY <1>2, <2>2 DEF WriteTransaction, TypeOK
    <3>4. d.reverses # None => cmd[p].op = "reverse"
      BY <3>1 DEF Accepted, TwoLeg, PostingOp
    <3>5. d.reverses # None =>
            /\ d.reverses \in TxnId /\ d.reverses # n
            /\ posted[d.reverses] # None /\ posted[d.reverses].reverses = None
            /\ d = Reverse(d.reverses, posted[d.reverses])
            /\ \A u \in TxnId : posted[u] # None => posted[u].reverses # d.reverses
      <4>1. d.reverses # None => d.reverses = cmd[p].original
        BY <3>1, <3>4 DEF Accepted, Reverse
      <4> QED
        BY <2>2, <3>1, <3>4, <4>1, CommandFields DEF Accepted, DuplicateTransaction
    <3> HIDE DEF n, d
    <3> SUFFICES ASSUME NEW t \in TxnId, posted'[t] # None, posted'[t].reverses # None
                 PROVE  LET o == posted'[t].reverses
                        IN  /\ posted'[o] # None
                            /\ posted'[o].reverses = None
                            /\ \A a \in Account : Delta(posted'[t], a) + Delta(posted'[o], a) = 0
                            /\ \A u \in TxnId : posted'[u] # None /\ posted'[u].reverses = o => u = t
      BY DEF ReversalsCancel, Delta
    <3> DEFINE o == posted'[t].reverses
    <3>6. CASE t = n
      <4>1. posted'[t] = d /\ o = d.reverses
        BY <3>3, <3>6
      <4>2. posted'[o] = posted[o] /\ posted[o] \in Transaction
        BY <1>2, <3>3, <3>5, <4>1 DEF TypeOK
      <4>3. \A a \in Account : Delta(d, a) + Delta(posted[o], a) = 0
        <5>1. d = Reverse(o, posted[o])
          BY <3>5, <4>1
        <5>2. d.cr = posted[o].dr /\ d.dr = posted[o].cr
          BY <5>1 DEF Reverse
        <5> QED
          BY <4>2, <5>2 DEF Delta, Transaction, Amounts
      <4> QED
        BY <3>2, <3>3, <3>5, <3>6, <4>1, <4>2, <4>3
    <3>7. CASE t # n
      <4>1. posted'[t] = posted[t]
        BY <3>3, <3>7
      <4>2. /\ posted[o] # None /\ posted[o].reverses = None
            /\ \A a \in Account : Delta(posted[t], a) + Delta(posted[o], a) = 0
            /\ \A u \in TxnId : posted[u] # None /\ posted[u].reverses = o => u = t
        BY <1>2, <4>1 DEF ReversalsCancel
      <4>3. o \in TxnId
        BY <1>2, <4>1 DEF TypeOK, Transaction
      <4>4. posted'[o] = posted[o]
        BY <3>2, <3>3, <4>2, <4>3
      <4>5. d.reverses # o
        BY <3>5, <4>1
      <4> QED
        BY <3>3, <4>1, <4>2, <4>4, <4>5
    <3> QED
      BY <3>6, <3>7
  <2> QED
    BY <1>2, <2>1, <2>2, WritesOfAStep DEF db
<1>3. PromiseInv /\ [Next]_vars => PromiseInv'
  BY SolvencyStep, PledgesStep DEF PromiseInv
<1> QED
  BY <1>1, <1>2, <1>3, PTL DEF Spec

-----------------------------------------------------------------------------
(* One hold per key *)

\* Two holds of a wallet never have one idempotency key.
OneHoldPerKey ==
  \A g, h \in HoldId :
    /\ holds[g] # None /\ holds[h] # None
    /\ holds[g].wallet = holds[h].wallet /\ holds[g].key = holds[h].key
    => g = h

LEMMA OneHoldStep ==
  ASSUME PromiseInv, OneHoldPerKey, [Next]_vars
  PROVE  OneHoldPerKey'
<1> USE DEF PromiseInv, SolvencyInv
<1>1. ASSUME \A h \in HoldId : holds'[h] # None => holds[h] # None
      PROVE  OneHoldPerKey'
  BY <1>1, TermsKept DEF OneHoldPerKey
<1>2. CASE UNCHANGED holds
  BY <1>2 DEF OneHoldPerKey
<1>3. ASSUME NEW h \in HoldId, NEW st, holds' = SetStatus(h, st), holds[h] # None
      PROVE  OneHoldPerKey'
  BY <1>1, <1>3 DEF SetStatus, TypeOK
<1>4. ASSUME NEW p \in Session, NEW h \in HoldId, NEW row \in HoldRow,
             pc[p] = "create", AskedOf(p, h, row), holds' = [holds EXCEPT ![h] = row]
      PROVE  OneHoldPerKey'
  <2>1. SameKey(cmd[p]) = {}
    BY <1>4 DEF Pledges, Pledged
  <2>2. \A g \in HoldId : holds[g] # None =>
          holds[g].wallet # row.wallet \/ holds[g].key # row.key
    BY <1>4, <2>1 DEF SameKey, AskedOf
  <2>3. holds'[h] = row /\ \A g \in HoldId : g # h => holds'[g] = holds[g]
    BY <1>4 DEF TypeOK
  <2> QED
    BY <2>2, <2>3 DEF OneHoldPerKey
<1> QED
  BY <1>2, <1>3, <1>4, WritesOfAStep DEF db

\* Authorizations that repeat a key, at the same time or later, reserve once: the
\* wallet's row serialises them and the later one finds the hold of the first.
THEOREM HoldsPerKey == Spec => []OneHoldPerKey
<1>1. Init => PromiseInv /\ OneHoldPerKey
  BY SolvencyInit DEF Init, PromiseInv, Pledges, Pledged, OneHoldPerKey
<1>2. PromiseInv /\ OneHoldPerKey /\ [Next]_vars => (PromiseInv /\ OneHoldPerKey)'
  BY SolvencyStep, PledgesStep, OneHoldStep DEF PromiseInv
<1> QED
  BY <1>1, <1>2, PTL DEF Spec

-----------------------------------------------------------------------------
(* Where rows come from *)

\* Request c is posted.
PostedFor(c) ==
  /\ c \in Command /\ c.op \in PostingOp
  /\ posted[c.txn] # None
  /\ Accepted(c, posted[c.txn])

KeyOrigins ==
  \A k \in Key : keys[k] # None =>
    \E c \in Command :
      /\ PostedFor(c)
      /\ c.key = k /\ keys[k] = [hash |-> c.hash, txn |-> c.txn]

HoldOrigins ==
  \A h \in HoldId : holds[h] # None =>
    \E c \in Command :
      /\ c.op = "authorize"
      /\ holds[h].wallet = c.wallet /\ holds[h].amount = c.amount
      /\ holds[h].key = c.key /\ holds[h].hash = c.hash

Origins == KeyOrigins /\ HoldOrigins

LEMMA PostedForLasts ==
  ASSUME TypeOK, Ready, [Next]_vars, NEW c, PostedFor(c)
  PROVE  PostedFor(c)'
<1>1. c \in Command /\ c.op \in PostingOp /\ c.txn \in TxnId
  BY CommandFields DEF PostedFor
<1>2. posted'[c.txn] = posted[c.txn] /\ posted[c.txn] # None
  BY <1>1, StepAppends DEF PostedFor
<1>3. Accepted(c, posted[c.txn])
  BY DEF PostedFor
<1>4. ASSUME NEW d, d = posted[c.txn] PROVE Accepted(c, d)'
  BY <1>1, <1>3, <1>4, AcceptedLasts
<1>5. PICK d : d = posted[c.txn]
  OBVIOUS
<1> QED
  BY <1>1, <1>2, <1>4, <1>5 DEF PostedFor, Accepted

LEMMA OriginsStep ==
  ASSUME PromiseInv, Origins, [Next]_vars
  PROVE  Origins'
<1> USE DEF PromiseInv, SolvencyInv
<1>1. ASSUME NEW k \in Key, keys'[k] # None
      PROVE  \E c \in Command :
               PostedFor(c)' /\ c.key = k /\ keys'[k] = [hash |-> c.hash, txn |-> c.txn]
  <2>1. CASE keys[k] # None
    <3>1. keys'[k] = keys[k]
      BY <2>1, StepAppends
    <3>2. PICK c \in Command :
            PostedFor(c) /\ c.key = k /\ keys[k] = [hash |-> c.hash, txn |-> c.txn]
      BY <2>1 DEF Origins, KeyOrigins
    <3> QED
      BY <3>1, <3>2, PostedForLasts
  <2>2. CASE keys[k] = None
    <3>1. ~UNCHANGED keys
      BY <1>1, <2>2
    <3>2. PICK p \in Session :
            /\ pc[p] = "insert" /\ cmd[p] \in Command /\ cmd[p].op \in PostingOp
            /\ draft[p] \in Transaction
            /\ WriteTransaction(p)
      BY <3>1, WritesOfAStep DEF db
    <3> DEFINE c == cmd[p]
    <3>3. /\ c.txn \in TxnId /\ c.key \in Key
          /\ posted'[c.txn] = draft[p] /\ draft[p] # None
          /\ c.key = k /\ keys'[k] = [hash |-> c.hash, txn |-> c.txn]
      BY <1>1, <2>2, <3>2, CommandFields, NoneAssumption DEF WriteTransaction, TypeOK
    <3>4. Accepted(c, draft[p])
      BY <3>2 DEF Pledges, Pledged
    <3>5. ASSUME NEW x, NEW y, x = c, y = draft[p] PROVE Accepted(x, y)'
      BY <3>2, <3>4, <3>5, AcceptedLasts
    <3>6. PICK x \in Command : x = c
      BY <3>2
    <3>7. PostedFor(x)'
      BY <3>2, <3>3, <3>5, <3>6 DEF PostedFor, Accepted
    <3> QED
      BY <3>3, <3>6, <3>7
  <2> QED
    BY <2>1, <2>2
<1>2. ASSUME NEW h \in HoldId, holds'[h] # None
      PROVE  \E c \in Command :
               /\ c.op = "authorize"
               /\ holds'[h].wallet = c.wallet /\ holds'[h].amount = c.amount
               /\ holds'[h].key = c.key /\ holds'[h].hash = c.hash
  <2>1. CASE holds[h] # None
    <3>1. holds'[h] \in HoldRow /\ holds[h] \in HoldRow
      BY <1>2, <2>1, TypeStep DEF TypeOK
    <3>2. [holds'[h] EXCEPT !.status = holds[h].status] = holds[h]
      BY <2>1, StepKeepsHolds
    <3>3. /\ holds'[h].wallet = holds[h].wallet /\ holds'[h].amount = holds[h].amount
          /\ holds'[h].key = holds[h].key /\ holds'[h].hash = holds[h].hash
      BY <3>1, <3>2 DEF HoldRow
    <3> QED
      BY <2>1, <3>3 DEF Origins, HoldOrigins
  <2>2. CASE holds[h] = None
    <3>1. UNCHANGED Promise!vars \/ Promise!Next
      BY PromisedStep
    <3>2. PICK c \in Command, created \in 0 .. clock :
            /\ c.op = "authorize"
            /\ holds' = [holds EXCEPT ![c.hold] =
                 [wallet |-> c.wallet, amount |-> c.amount, created |-> created,
                  expires |-> c.expires, status |-> "authorized", key |-> c.key, hash |-> c.hash]]
      BY <1>2, <2>2, <3>1
         DEF Promise!vars, Promise!Next, Promise!Tick, Promise!Post, Promise!Capture,
             Promise!MarkCaptured, Promise!Release, Promise!Expire, Promise!EndHold,
             Promise!Authorize, TypeOK
    <3>3. c.hold = h /\ c.hold \in HoldId
      BY <1>2, <2>2, <3>2, CommandFields DEF TypeOK
    <3>4. holds'[h] =
            [wallet |-> c.wallet, amount |-> c.amount, created |-> created,
             expires |-> c.expires, status |-> "authorized", key |-> c.key, hash |-> c.hash]
      BY <3>2, <3>3 DEF TypeOK
    <3> QED
      BY <3>2, <3>4
  <2> QED
    BY <2>1, <2>2
<1> QED
  BY <1>1, <1>2 DEF Origins, KeyOrigins, HoldOrigins

\* A record found under its own key, hash and transaction is of the request itself.
LEMMA RecordIsOwn ==
  ASSUME HashesTell, Origins, NEW c \in Command, c.op \in PostingOp,
         keys[c.key] = [hash |-> c.hash, txn |-> c.txn]
  PROVE  PostedFor(c)
<1>1. c.key \in Key /\ [hash |-> c.hash, txn |-> c.txn] \in KeyRow
  BY CommandFields DEF KeyRow
<1>2. keys[c.key] # None
  BY <1>1, NoneAssumption
<1>3. PICK d \in Command :
        /\ PostedFor(d)
        /\ d.key = c.key /\ keys[c.key] = [hash |-> d.hash, txn |-> d.txn]
  BY <1>1, <1>2 DEF Origins, KeyOrigins
<1>4. d.hash = c.hash /\ d.txn = c.txn
  BY <1>3
<1> QED
  BY <1>3, <1>4 DEF HashesTell, PostedFor

-----------------------------------------------------------------------------
(* What captures pay for *)

Paid(h) ==
  IF holds[h] # None /\ holds[h].status = "captured"
  THEN \E t \in TxnId : CapturesOf(h) = {t}
  ELSE CapturesOf(h) = {}

LEMMA PaidStep ==
  ASSUME HashesTell, PromiseInv, Origins, \A h \in HoldId : Paid(h), [Next]_vars
  PROVE  \A h \in HoldId : Paid(h)'
<1> USE DEF PromiseInv, SolvencyInv
<1>1. UNCHANGED Promise!vars \/ Promise!Next
  BY PromisedStep
<1>2. ASSUME UNCHANGED <<posted, holds>> PROVE \A h \in HoldId : Paid(h)'
  BY <1>2 DEF Paid, CapturesOf
<1>3. ASSUME NEW c \in Command, Promise!Post(c) PROVE \A h \in HoldId : Paid(h)'
  <2>1. /\ posted' = [posted EXCEPT ![c.txn] = Promise!Entry(c)]
        /\ posted[c.txn] = None /\ UNCHANGED holds
        /\ c.op \in PostingOp \ {"capture"}
    BY <1>3 DEF Promise!Post, Promise!Fresh, Promise!Record, Promise!PostingOp, PostingOp
  <2>2. Promise!Entry(c).captures = None
    BY <2>1, SameEntries DEF Promise!Entry, TwoLeg, Reverse, PostingOp
  <2>3. \A h \in HoldId : CapturesOf(h)' = CapturesOf(h)
    BY <2>1, <2>2, CommandFields, NoneAssumption DEF CapturesOf, TypeOK
  <2> QED
    BY <2>1, <2>3 DEF Paid
<1>4. ASSUME NEW c \in Command, Promise!Capture(c) PROVE \A h \in HoldId : Paid(h)'
  <2> DEFINE g == c.hold
             e == TwoLeg(holds[g].wallet, c.settle, holds[g].amount, g)
  <2>1. /\ c.op = "capture" /\ posted[c.txn] = None
        /\ posted' = [posted EXCEPT ![c.txn] = Promise!Entry(c)]
        /\ holds[g] # None /\ holds[g].status = "authorized"
        /\ holds' = [holds EXCEPT ![g].status = "captured"]
    BY <1>4 DEF Promise!Capture, Promise!Fresh, Promise!Record, Promise!EndHold
  <2>2. Promise!Entry(c) = e
    BY <2>1, SameEntries DEF Promise!Entry
  <2>3. c.txn \in TxnId /\ g \in HoldId /\ c.settle \in Account
    BY <2>1, CommandFields DEF PostingOp
  <2>4. holds[g] \in HoldRow
    BY <2>1, <2>3 DEF TypeOK
  <2>5. e \in Transaction /\ e # None /\ e.captures = g
    <3>1. e \in Transaction
      BY <2>3, <2>4, TwoLegType, WalletAssumption DEF HoldRow
    <3> QED
      BY <3>1, NoneAssumption DEF TwoLeg
  <2>6. CapturesOf(g) = {}
    BY <2>1, <2>3 DEF Paid
  <2> HIDE DEF e
  <2>7. \A h \in HoldId : CapturesOf(h)' = IF h = g THEN {c.txn} ELSE CapturesOf(h)
    BY <2>1, <2>2, <2>3, <2>5, <2>6 DEF CapturesOf, TypeOK
  <2>8. /\ holds'[g] = [holds[g] EXCEPT !.status = "captured"]
        /\ \A h \in HoldId \ {g} : holds'[h] = holds[h]
    BY <2>1, <2>3 DEF TypeOK
  <2>9. holds'[g].status = "captured" /\ holds'[g] # None
    <3>1. holds'[g] \in HoldRow /\ holds'[g].status = "captured"
      BY <2>4, <2>8 DEF HoldRow, HoldStatus
    <3> QED
      BY <3>1, NoneAssumption
  <2> QED
    BY <2>3, <2>7, <2>8, <2>9 DEF Paid
<1>5. ASSUME NEW c \in Command, Promise!MarkCaptured(c) PROVE FALSE
  <2>1. /\ c.op = "capture" /\ keys[c.key] = [hash |-> c.hash, txn |-> c.txn]
        /\ holds[c.hold] # None /\ holds[c.hold].status = "authorized"
    BY <1>5 DEF Promise!MarkCaptured, Promise!EndHold
  <2>2. PostedFor(c) /\ c.hold \in HoldId /\ c.txn \in TxnId
    BY <2>1, RecordIsOwn, CommandFields DEF PostingOp
  <2>3. c.txn \in CapturesOf(c.hold)
    BY <2>1, <2>2 DEF PostedFor, Accepted, TwoLeg, CapturesOf
  <2> QED
    BY <2>1, <2>2, <2>3 DEF Paid
<1>6. ASSUME NEW g \in HoldId, UNCHANGED posted,
             holds[g] = None \/ holds[g].status = "authorized",
             \A h \in HoldId \ {g} : holds'[h] = holds[h],
             holds'[g].status \in {"authorized", "released", "expired"}
      PROVE  \A h \in HoldId : Paid(h)'
  BY <1>6 DEF Paid, CapturesOf
<1>7. ASSUME NEW c \in Command, Promise!Authorize(c) PROVE \A h \in HoldId : Paid(h)'
  <2>1. /\ holds[c.hold] = None /\ c.hold \in HoldId /\ UNCHANGED posted
    BY <1>7, CommandFields DEF Promise!Authorize
  <2>2. PICK created :
          holds' = [holds EXCEPT ![c.hold] =
            [wallet |-> c.wallet, amount |-> c.amount, created |-> created,
             expires |-> c.expires, status |-> "authorized", key |-> c.key, hash |-> c.hash]]
    BY <1>7 DEF Promise!Authorize
  <2>3. /\ holds'[c.hold].status = "authorized"
        /\ \A h \in HoldId \ {c.hold} : holds'[h] = holds[h]
    BY <2>1, <2>2 DEF TypeOK
  <2> QED
    BY <1>6, <2>1, <2>3
<1>8. ASSUME NEW c \in Command, Promise!Release(c) \/ Promise!Expire(c)
      PROVE  \A h \in HoldId : Paid(h)'
  <2>1. PICK st \in {"released", "expired"} :
          /\ holds[c.hold] # None /\ holds[c.hold].status = "authorized"
          /\ holds' = [holds EXCEPT ![c.hold].status = st]
    BY <1>8 DEF Promise!Release, Promise!Expire, Promise!EndHold
  <2>2. c.hold \in HoldId /\ UNCHANGED posted
    BY <1>8, CommandFields DEF Promise!Release, Promise!Expire
  <2>3. /\ holds'[c.hold] = [holds[c.hold] EXCEPT !.status = st]
        /\ holds[c.hold] \in HoldRow
        /\ \A h \in HoldId \ {c.hold} : holds'[h] = holds[h]
    BY <2>1, <2>2 DEF TypeOK
  <2>4. holds'[c.hold].status = st
    BY <2>3 DEF HoldRow
  <2> QED
    BY <1>6, <2>1, <2>2, <2>3, <2>4
<1> QED
  BY <1>1, <1>2, <1>3, <1>4, <1>5, <1>7, <1>8
     DEF Promise!Next, Promise!Tick, Promise!vars

\* If hashes tell requests apart, a hold is captured exactly when one transaction has
\* paid for it, whatever captures, releases, expiries and repetitions race.
THEOREM CapturesPaid ==
  ASSUME HashesTell
  PROVE  Spec => []CapturedOncePaid
<1> DEFINE AllPaid == \A h \in HoldId : Paid(h)
<1>1. Init => PromiseInv /\ Origins /\ AllPaid
  <2>1. Init => PromiseInv
    BY SolvencyInit DEF Init, PromiseInv, Pledges, Pledged
  <2>2. Init => Origins /\ AllPaid
    BY DEF Init, Origins, KeyOrigins, HoldOrigins, Paid, CapturesOf
  <2> QED
    BY <2>1, <2>2
<1>2. PromiseInv /\ Origins /\ AllPaid /\ [Next]_vars => (PromiseInv /\ Origins /\ AllPaid)'
  BY SolvencyStep, PledgesStep, OriginsStep, PaidStep DEF PromiseInv
<1>3. AllPaid => CapturedOncePaid
  BY FS_EmptySet, FS_Singleton DEF Paid, CapturedOncePaid
<1> QED
  BY <1>1, <1>2, <1>3, PTL DEF Spec
-----------------------------------------------------------------------------
(* What clients are told *)

\* Request c has taken effect, as its answer says.
Settled(c) ==
  /\ Promised(c)
  /\ c.op \in {"capture", "release", "expire"} => holds[c.hold] # None

\* What has taken effect stays.
LEMMA SettledLasts ==
  ASSUME TypeOK, Ready, [Next]_vars, NEW c \in Command, Settled(c)
  PROVE  Settled(c)'
<1>1. CASE c.op \in PostingOp
  <2>1. c.txn \in TxnId
    BY <1>1, CommandFields
  <2>2. posted[c.txn] # None
    <3>1. ASSUME NEW from \in Account, NEW to \in Account, NEW n \in Unit
          PROVE  TwoLeg(from, to, n, None) # None
      BY TwoLegType, NoneAssumption
    <3> QED
      BY <1>1, <3>1, CommandFields, WalletAssumption DEF Settled, Promised, PostingOp
  <2>3. posted'[c.txn] = posted[c.txn]
    BY <2>1, <2>2, StepAppends
  <2>4. c.op = "capture" => holds'[c.hold] = holds[c.hold]
    BY StepKeepsHolds, CommandFields DEF Settled, Promised
  <2> QED
    BY <1>1, <2>3, <2>4 DEF Settled, Promised, PostingOp
<1>2. CASE c.op = "authorize"
  <2>1. PICK h \in HoldId : /\ holds[h] # None /\ holds[h].wallet = c.wallet
                            /\ holds[h].key = c.key /\ holds[h].amount = c.amount
    BY <1>2 DEF Settled, Promised, SameKey
  <2>2. /\ holds'[h] # None /\ holds'[h].wallet = c.wallet
        /\ holds'[h].key = c.key /\ holds'[h].amount = c.amount
    BY <2>1, TermsKept
  <2> QED
    BY <1>2, <2>2 DEF Settled, Promised, SameKey
<1>3. CASE c.op \in {"release", "expire"}
  <2>1. holds[c.hold] # None /\ holds[c.hold].status # "authorized" /\ c.hold \in HoldId
    BY <1>3, CommandFields DEF Settled, Promised
  <2>2. holds'[c.hold] = holds[c.hold]
    BY <2>1, StepKeepsHolds
  <2> QED
    BY <1>3, <2>2 DEF Settled, Promised
<1> QED
  BY <1>1, <1>2, <1>3, CommandAssumption
     DEF PostingOp, PostCommand, DepositCommand, WithdrawCommand, TransferCommand,
         ReverseCommand, AuthorizeCommand, CaptureCommand, ReleaseCommand, ExpireCommand

\* A posted request has taken effect, a capture when its hold says so too.
LEMMA PostedSettles ==
  ASSUME NEW c, PostedFor(c),
         c.op = "capture" => holds[c.hold].status = "captured"
  PROVE  Settled(c)
<1>1. CASE c.op = "post"
  BY <1>1 DEF PostedFor, Accepted, Settled, Promised, PostingOp
<1>2. CASE c.op \in {"deposit", "withdraw", "transfer"}
  BY <1>2 DEF PostedFor, Accepted, Settled, Promised, PostingOp
<1>3. CASE c.op = "reverse"
  BY <1>3 DEF PostedFor, Accepted, Settled, Promised, Reverse
<1>4. CASE c.op = "capture"
  <2>1. /\ holds[c.hold] # None
        /\ posted[c.txn] = TwoLeg(holds[c.hold].wallet, c.settle, holds[c.hold].amount, c.hold)
    BY <1>4 DEF PostedFor, Accepted, Found
  <2>2. posted[c.txn].captures = c.hold
    BY <2>1 DEF TwoLeg
  <2> QED
    BY <1>4, <2>1, <2>2 DEF PostedFor, Settled, Promised
<1> QED
  BY <1>1, <1>2, <1>3, <1>4 DEF PostedFor, PostingOp

\* The steps that may answer with success.
MaySucceed(p) ==
  \/ LookupKey(p) \/ RecheckKey(p) \/ InsertTransaction(p)
  \/ LockHold(p) \/ InsertCapture(p) \/ MarkCaptured(p)
  \/ FindHold(p) \/ CreateWalletHold(p) \/ UpdateStatus(p)

LEMMA OnlyTheseSucceed ==
  ASSUME TypeOK, NEW p \in Session, Run(p) \/ Acquire(p) \/ DeadlockVictim(p) \/ Abort(p),
         pc'[p] = "idle", reply'[p] = "ok"
  PROVE  MaySucceed(p)
<1> USE DEF TypeOK, Fail, Answer, Goto, Draft
<1>1. ~ (\/ PostTransaction(p) \/ DepositWallet(p) \/ WithdrawWallet(p)
         \/ TransferWallet(p) \/ ReverseTransaction(p) \/ CreateHold(p)
         \/ CaptureHold(p) \/ ReleaseHold(p) \/ ExpireHold(p))
  BY DEF PostTransaction, DepositWallet, WithdrawWallet, TransferWallet, SpendFrom,
       ReverseTransaction, CreateHold, CaptureHold, ReleaseHold, ExpireHold, CloseHold
<1>2. ~ (BeginTx(p) \/ LockWalletByID(p) \/ LockWalletAccount(p) \/ ValidateBalances(p) \/ CheckFunds(p))
  BY DEF BeginTx, LockWalletByID, LockWalletAccount, ValidateBalances, CheckFunds
<1>3. ~ (DeadlockVictim(p) \/ Abort(p))
  BY DEF DeadlockVictim, Abort
<1> QED
  BY <1>1, <1>2, <1>3 DEF Run, Acquire, MaySucceed

\* A request that is answered with success has taken effect by then.
LEMMA SuccessSettles ==
  ASSUME HashesTell, PromiseInv, Origins, [Next]_vars,
         NEW p \in Session, MaySucceed(p), pc'[p] = "idle", reply'[p] = "ok",
         NEW c \in Command, c = cmd[p]
  PROVE  Settled(c)'
<1> USE DEF PromiseInv, SolvencyInv
<1>0. ReadyAt(pc[p], c, draft[p]) /\ Pledged(p)
  BY DEF Ready, Pledges
<1>1. ASSUME Settled(c) PROVE Settled(c)'
  BY <1>1, SettledLasts
<1>2. ASSUME c.op \in PostingOp, Idempotency(c) = "replayed",
             c.op = "capture" => holds[c.hold].status = "captured"
      PROVE  Settled(c)'
  <2>1. PostedFor(c)
    BY <1>2, RecordIsOwn DEF Idempotency
  <2> QED
    BY <1>1, <1>2, <2>1, PostedSettles
<1>3. CASE LookupKey(p) \/ RecheckKey(p)
  <2>1. pc[p] \in {"lookup", "accounts"} /\ c.op \in PostingOp
    BY <1>0, <1>3 DEF LookupKey, RecheckKey, ReadyAt
  <2>2. Idempotency(c) = "replayed" /\ c.op # "capture"
    BY <1>0, <1>3, <2>1
       DEF LookupKey, RecheckKey, ReadyAt, Idempotency, Fail, Answer, Goto, TypeOK
  <2> QED
    BY <1>2, <2>1, <2>2
<1>4. CASE LockHold(p)
  <2>1. c.op = "capture" /\ c.op \in PostingOp
    BY <1>0, <1>4 DEF LockHold, ReadyAt, PostingOp
  <2>2. Idempotency(c) = "replayed" /\ holds[c.hold].status = "captured"
    BY <1>4 DEF LockHold, Idempotency, Fail, Answer, Goto, TypeOK
  <2> QED
    BY <1>2, <2>1, <2>2
<1>5. CASE InsertTransaction(p)
  <2>1. pc[p] = "insert" /\ c.op \in PostingOp \ {"capture"}
    BY <1>5 DEF InsertTransaction, At
  <2>2. CASE Idempotency(c) = "replayed"
    BY <1>2, <2>1, <2>2
  <2>3. CASE Idempotency(c) # "replayed"
    <3>1. WriteTransaction(p) /\ UNCHANGED holds
      BY <1>5, <2>3 DEF InsertTransaction, Fail, Answer, TypeOK
    <3>2. posted'[c.txn] = draft[p] /\ draft[p] # None /\ Accepted(c, draft[p])
      <4>1. c.txn \in TxnId /\ draft[p] \in Transaction /\ Accepted(c, draft[p])
        BY <1>0, <2>1, CommandFields DEF ReadyAt, Pledged
      <4> QED
        BY <3>1, <4>1, NoneAssumption DEF WriteTransaction, TypeOK
    <3>3. CASE c.op \in {"post", "deposit", "withdraw", "transfer"}
      <4>1. CASE c.op = "post"
        BY <3>2, <4>1 DEF Settled, Promised, Accepted
      <4>2. CASE c.op = "deposit"
        BY <3>2, <4>2 DEF Settled, Promised, Accepted
      <4>3. CASE c.op \in {"withdraw", "transfer"}
        BY <3>2, <4>3 DEF Settled, Promised, Accepted
      <4> QED
        BY <3>3, <4>1, <4>2, <4>3
    <3>4. CASE c.op = "reverse"
      BY <2>1, <3>2, <3>4 DEF Settled, Promised, Accepted, Reverse
    <3> QED
      BY <2>1, <3>3, <3>4 DEF PostingOp
  <2> QED
    BY <2>2, <2>3
<1>6. CASE InsertCapture(p)
  <2>1. pc[p] = "insert" /\ c.op = "capture" /\ c.op \in PostingOp
    BY <1>6 DEF InsertCapture, At, PostingOp
  <2>2. WriteTransaction(p) /\ holds' = SetStatus(c.hold, "captured")
    BY <1>6 DEF InsertCapture, Fail, Answer, TypeOK
  <2>3. posted'[c.txn] = draft[p] /\ draft[p] # None /\ Accepted(c, draft[p])
    <3>1. c.txn \in TxnId /\ draft[p] \in Transaction /\ Accepted(c, draft[p])
      BY <1>0, <2>1, CommandFields DEF ReadyAt, Pledged
    <3> QED
      BY <2>2, <3>1, NoneAssumption DEF WriteTransaction, TypeOK
  <2>4. holds[c.hold] # None /\ c.hold \in HoldId
    BY <1>0, <2>1, CommandFields DEF ReadyAt
  <2>5. holds'[c.hold] # None
    BY <2>4, StepKeepsHolds
  <2>6. holds'[c.hold].status = "captured"
    BY <2>2, <2>4 DEF SetStatus, TypeOK, HoldRow
  <2> QED
    BY <2>1, <2>3, <2>5, <2>6 DEF Settled, Promised, Accepted, TwoLeg
<1>7. CASE MarkCaptured(p)
  <2>1. pc[p] = "mark" /\ c.op = "capture" /\ c.op \in PostingOp
    BY <1>0, <1>7 DEF MarkCaptured, ReadyAt, PostingOp
  <2>2. holds' = SetStatus(c.hold, "captured") /\ UNCHANGED posted
    BY <1>7 DEF MarkCaptured, Fail, Answer, TypeOK
  <2>3. PostedFor(c)
    BY <1>0, <2>1, RecordIsOwn DEF Pledged
  <2>4. holds[c.hold] # None /\ c.hold \in HoldId
    BY <1>0, <2>1, CommandFields DEF ReadyAt
  <2>5. holds'[c.hold] # None
    BY <2>4, StepKeepsHolds
  <2>6. holds'[c.hold].status = "captured"
    BY <2>2, <2>4 DEF SetStatus, TypeOK, HoldRow
  <2> QED
    BY <2>1, <2>2, <2>3, <2>5, <2>6 DEF Settled, Promised, PostedFor, Accepted, TwoLeg
<1>8. CASE FindHold(p)
  <2>1. c.op = "authorize"
    BY <1>0, <1>8 DEF FindHold, ReadyAt
  <2>2. PICK h \in SameKey(c) : holds[h].hash = c.hash
    BY <1>8 DEF FindHold, Fail, Answer, Goto, TypeOK
  <2>3. PICK d \in Command :
          /\ d.op = "authorize"
          /\ holds[h].wallet = d.wallet /\ holds[h].amount = d.amount
          /\ holds[h].key = d.key /\ holds[h].hash = d.hash
    BY <2>2 DEF SameKey, Origins, HoldOrigins
  <2>4. holds[h].amount = c.amount
    BY <2>1, <2>2, <2>3 DEF SameKey, HashesTell
  <2> QED
    BY <1>1, <2>1, <2>2, <2>4 DEF Settled, Promised
<1>9. CASE CreateWalletHold(p)
  <2>1. c.op = "authorize" /\ c.hold \in HoldId
    BY <1>0, <1>9, CommandFields DEF CreateWalletHold, ReadyAt
  <2>2. holds' = [holds EXCEPT ![c.hold] =
                   [wallet |-> c.wallet, amount |-> c.amount, created |-> began[p],
                    expires |-> c.expires, status |-> "authorized",
                    key |-> c.key, hash |-> c.hash]]
    BY <1>9 DEF CreateWalletHold, Fail, Answer, TypeOK
  <2>3. holds'[c.hold] =
          [wallet |-> c.wallet, amount |-> c.amount, created |-> began[p],
           expires |-> c.expires, status |-> "authorized", key |-> c.key, hash |-> c.hash]
    BY <2>1, <2>2 DEF TypeOK
  <2>4. holds'[c.hold] # None
    <3>1. holds'[c.hold] \in HoldRow
      BY <2>1, <2>3, CommandFields DEF TypeOK, HoldRow, HoldStatus
    <3> QED
      BY <3>1, NoneAssumption
  <2> QED
    BY <2>1, <2>3, <2>4 DEF Settled, Promised, SameKey
<1>10. CASE UpdateStatus(p)
  <2>1. c.op \in {"release", "expire"} /\ holds[c.hold] # None /\ c.hold \in HoldId
    BY <1>0, <1>10, CommandFields DEF UpdateStatus, ReadyAt
  <2>2. holds' = SetStatus(c.hold, IF c.op = "release" THEN "released" ELSE "expired")
    BY <1>10 DEF UpdateStatus, Fail, Answer, TypeOK
  <2>3. holds'[c.hold] # None
    BY <2>1, StepKeepsHolds
  <2>4. holds'[c.hold].status = IF c.op = "release" THEN "released" ELSE "expired"
    BY <2>1, <2>2 DEF SetStatus, TypeOK, HoldRow
  <2> QED
    BY <2>1, <2>3, <2>4 DEF Settled, Promised
<1> QED
  BY <1>3, <1>4, <1>5, <1>6, <1>7, <1>8, <1>9, <1>10 DEF MaySucceed

Answered ==
  \A p \in Session : pc[p] = "idle" /\ reply[p] = "ok" =>
    cmd[p] \in Command /\ Settled(cmd[p])

LEMMA AnsweredStep ==
  ASSUME HashesTell, PromiseInv, Origins, Answered, [Next]_vars
  PROVE  Answered'
<1> USE DEF PromiseInv, SolvencyInv
<1> SUFFICES ASSUME NEW p \in Session, pc'[p] = "idle", reply'[p] = "ok"
             PROVE  cmd'[p] \in Command /\ Settled(cmd[p])'
  BY DEF Answered
<1>1. CASE pc[p] = "idle" /\ reply[p] = "ok" /\ cmd'[p] = cmd[p]
  <2>1. PICK c \in Command : c = cmd[p]
    BY <1>1 DEF Answered
  <2>2. Settled(c)
    BY <1>1, <2>1 DEF Answered
  <2>3. Settled(c)'
    BY <2>2, SettledLasts
  <2> QED
    BY <1>1, <2>1, <2>3 DEF Settled, Promised, SameKey
<1>2. CASE (Run(p) \/ Acquire(p) \/ DeadlockVictim(p) \/ Abort(p)) /\ pc[p] # "idle"
  <2>1. MaySucceed(p)
    BY <1>2, OnlyTheseSucceed
  <2>2. PICK c \in Command : c = cmd[p]
    BY <1>2 DEF Ready, ReadyAt
  <2>3. Settled(c)'
    BY <2>1, <2>2, SuccessSettles
  <2>4. cmd'[p] = cmd[p]
    BY <1>2, EveryStepMoves DEF Moves, Answer, Draft, Goto
  <2> QED
    BY <2>2, <2>3, <2>4 DEF Settled, Promised, SameKey
<1>3. ASSUME NEW q \in Session, Run(q) \/ Acquire(q) \/ DeadlockVictim(q) \/ Abort(q)
      PROVE  IF q = p THEN pc[p] # "idle" ELSE pc'[p] = pc[p] /\ reply'[p] = reply[p] /\ cmd'[p] = cmd[p]
  <2>1. CASE q = p
    <3>1. DeadlockVictim(p) => pc[p] # "idle"
      BY SessionAssumption DEF DeadlockVictim, Deadlocked, Blocker
    <3>2. Run(p) \/ Acquire(p) \/ Abort(p) => pc[p] # "idle"
      BY DEF Run, Acquire, PostTransaction, DepositWallet, WithdrawWallet, TransferWallet,
           ReverseTransaction, CreateHold, CaptureHold, ReleaseHold, ExpireHold, At,
           BeginTx, LookupKey, RecheckKey, ValidateBalances, InsertTransaction, InsertCapture,
           MarkCaptured, FindHold, CheckFunds, CreateWalletHold, LockWalletByID,
           LockWalletAccount, LockHold, UpdateStatus, Abort
    <3> QED
      BY <1>3, <2>1, <3>1, <3>2
  <2>2. CASE q # p
    BY <1>3, <2>2, EveryStepMoves DEF Moves, Answer, Draft, Goto, TypeOK
  <2> QED
    BY <2>1, <2>2
<1>4. ASSUME NEW q \in Session, NEW c \in Command, Submit(q, c)
      PROVE  p # q /\ pc'[p] = pc[p] /\ reply'[p] = reply[p] /\ cmd'[p] = cmd[p]
  BY <1>4 DEF Submit, TypeOK
<1>5. CASE UNCHANGED vars \/ Tick
  BY <1>1, <1>5 DEF vars, Tick
<1> QED
  BY <1>1, <1>2, <1>3, <1>4, <1>5 DEF Next

\* If hashes tell requests apart, whoever is answered with success, the first time or
\* from the record, finds in the database what was asked for, now and later.
THEOREM AnswersLast ==
  ASSUME HashesTell
  PROVE  Spec => []AnswersAreDurable
<1>1. Init => PromiseInv /\ Origins /\ Answered
  <2>1. Init => PromiseInv
    BY SolvencyInit DEF Init, PromiseInv, Pledges, Pledged
  <2>2. Init => Origins /\ Answered
    BY DEF Init, Origins, KeyOrigins, HoldOrigins, Answered
  <2> QED
    BY <2>1, <2>2
<1>2. PromiseInv /\ Origins /\ Answered /\ [Next]_vars => (PromiseInv /\ Origins /\ Answered)'
  BY SolvencyStep, PledgesStep, OriginsStep, AnsweredStep DEF PromiseInv
<1>3. Answered => AnswersAreDurable
  BY DEF Answered, Settled, AnswersAreDurable
<1> QED
  BY <1>1, <1>2, <1>3, PTL DEF Spec
-----------------------------------------------------------------------------
(* Who waits for whom *)

\* What a session owns when it waits: nothing before its first lock, the wallet of
\* its hold in a capture, and otherwise wallets that come before those it still needs.
InOrder(p) ==
  /\ pc[p] \in {"idle", "usecase", "lookup", "begin", "wallet", "update"} =>
       \A w \in Wallet : walletLock[w] # p
  /\ \A h \in HoldId : holdLock[h] = p =>
       pc[p] \in {"accounts", "validate", "insert", "mark"} /\ cmd[p].op = "capture"
  /\ pc[p] \in {"hold", "accounts"} /\ cmd[p].op = "capture" =>
       walletLock[holds[cmd[p].hold].wallet] = p
  /\ pc[p] = "accounts" /\ cmd[p].op # "capture" =>
       \A w \in Wallet : walletLock[w] = p => \A v \in Pending(p) : w < v

LocksInOrder == \A p \in Session : InOrder(p)

\* A step that takes no lock and does not end the request.
GoesOn(p) ==
  /\ UNCHANGED locks /\ cmd'[p] = cmd[p]
  /\ \/ /\ pc[p] \in {"usecase", "lookup", "begin"}
        /\ pc'[p] \in {"lookup", "begin", "wallet", "accounts", "update"}
        /\ cmd[p].op = "capture" => pc'[p] # "accounts"
     \/ pc[p] \in {"accounts", "validate"} /\ pc'[p] \in {"validate", "insert", "mark"}
     \/ pc[p] \in {"find", "funds"} /\ pc'[p] \in {"funds", "create"}

LEMMA LocksOfAStep ==
  ASSUME TypeOK, Ready, NEW p \in Session, Run(p) \/ Acquire(p) \/ DeadlockVictim(p) \/ Abort(p)
  PROVE  \/ \E r : Answer(p, r)
         \/ GoesOn(p)
         \/ LockWalletByID(p) \/ LockWalletAccount(p) \/ LockHold(p)
<1> USE DEF Fail, TypeOK, GoesOn
<1>0. ReadyAt(pc[p], cmd[p], draft[p])
  BY DEF Ready
<1>1. ASSUME \/ PostTransaction(p) \/ DepositWallet(p) \/ WithdrawWallet(p)
             \/ TransferWallet(p) \/ ReverseTransaction(p) \/ CreateHold(p)
             \/ CaptureHold(p) \/ ReleaseHold(p) \/ ExpireHold(p)
      PROVE  (\E r : Answer(p, r)) \/ GoesOn(p)
  BY <1>1 DEF PostTransaction, DepositWallet, WithdrawWallet, TransferWallet, SpendFrom,
       ReverseTransaction, CreateHold, CaptureHold, ReleaseHold, ExpireHold, CloseHold,
       At, Draft, Goto
<1>2. ASSUME BeginTx(p) \/ ValidateBalances(p) \/ CheckFunds(p)
      PROVE  (\E r : Answer(p, r)) \/ GoesOn(p)
  BY <1>2 DEF BeginTx, ValidateBalances, CheckFunds, Goto
<1>3. ASSUME LookupKey(p) \/ RecheckKey(p) \/ FindHold(p)
      PROVE  (\E r : Answer(p, r)) \/ GoesOn(p)
  BY <1>3 DEF LookupKey, RecheckKey, FindHold, Goto, Idempotency
<1>4. ASSUME \/ InsertTransaction(p) \/ InsertCapture(p) \/ MarkCaptured(p)
             \/ CreateWalletHold(p) \/ UpdateStatus(p) \/ DeadlockVictim(p) \/ Abort(p)
      PROVE  \E r : Answer(p, r)
  BY <1>4, WriteStepAnswers
<1> QED
  BY <1>1, <1>2, <1>3, <1>4 DEF Run, Acquire

\* A step takes and gives back the locks of its own session only.
LEMMA OthersKeepLocks ==
  ASSUME TypeOK, Ready, NEW p \in Session, Run(p) \/ Acquire(p) \/ DeadlockVictim(p) \/ Abort(p),
         NEW q \in Session, q # p
  PROVE  /\ \A w \in Wallet : walletLock'[w] = q <=> walletLock[w] = q
         /\ \A h \in HoldId : holdLock'[h] = q <=> holdLock[h] = q
<1>1. CASE \E r : Answer(p, r)
  BY <1>1, SessionAssumption DEF Answer, Unlock, TypeOK
<1>2. CASE GoesOn(p)
  BY <1>2 DEF GoesOn, locks
<1>3. CASE LockWalletByID(p)
  BY <1>3, WalletToLockType, SessionAssumption DEF LockWalletByID, TypeOK
<1>4. CASE LockWalletAccount(p)
  BY <1>4, NextToLockType, SessionAssumption DEF LockWalletAccount, TypeOK
<1>5. CASE LockHold(p)
  <2>1. (\E r : Answer(p, r)) \/ (UNCHANGED walletLock /\ holdLock[cmd[p].hold] = None
                                  /\ holdLock' = [holdLock EXCEPT ![cmd[p].hold] = p])
    BY <1>5 DEF LockHold, Fail
  <2> QED
    BY <1>1, <2>1, SessionAssumption DEF TypeOK
<1> QED
  BY <1>1, <1>2, <1>3, <1>4, <1>5, LocksOfAStep

LEMMA InOrderStep ==
  ASSUME PromiseInv, LocksInOrder, [Next]_vars
  PROVE  LocksInOrder'
<1> USE DEF PromiseInv, SolvencyInv
<1> SUFFICES ASSUME NEW q \in Session PROVE InOrder(q)'
  BY DEF LocksInOrder
<1>0. InOrder(q) /\ ReadyAt(pc[q], cmd[q], draft[q])
  BY DEF LocksInOrder, Ready
<1>1. pc[q] \in {"hold", "accounts"} /\ cmd[q].op = "capture" =>
        holds'[cmd[q].hold].wallet = holds[cmd[q].hold].wallet
  BY <1>0, TermsKept, CommandFields DEF ReadyAt
<1>2. ASSUME pc'[q] = pc[q], cmd'[q] = cmd[q], draft'[q] = draft[q],
             \A w \in Wallet : walletLock'[w] = q <=> walletLock[w] = q,
             \A h \in HoldId : holdLock'[h] = q <=> holdLock[h] = q
      PROVE  InOrder(q)'
  <2>1. Pending(q)' = Pending(q)
    BY <1>2 DEF Pending, WalletsOf
  <2>2. pc[q] \in {"hold", "accounts"} /\ cmd[q].op = "capture" =>
          holds[cmd[q].hold].wallet \in Wallet
    BY <1>0, CommandFields DEF ReadyAt, TypeOK, HoldRow
  <2> QED
    BY <1>0, <1>1, <1>2, <2>1, <2>2 DEF InOrder
<1>3. CASE UNCHANGED vars \/ Tick
  BY <1>2, <1>3 DEF vars, Tick, locks, local
<1>4. ASSUME NEW p \in Session, NEW c \in Command, Submit(p, c)
      PROVE  InOrder(q)'
  <2>1. CASE p # q
    BY <1>2, <1>4, <2>1 DEF Submit, TypeOK, locks, local
  <2>2. CASE p = q
    BY <1>0, <1>4, <2>2 DEF Submit, InOrder, TypeOK, locks
  <2> QED
    BY <2>1, <2>2
<1>5. ASSUME NEW p \in Session, p # q, Run(p) \/ Acquire(p) \/ DeadlockVictim(p) \/ Abort(p)
      PROVE  InOrder(q)'
  BY <1>2, <1>5, OthersKeepLocks, EveryStepMoves DEF Moves, Answer, Draft, Goto, TypeOK
<1>6. ASSUME NEW r, Answer(q, r) PROVE InOrder(q)'
  BY <1>6, SessionAssumption DEF Answer, Unlock, InOrder, TypeOK
<1>7. CASE GoesOn(q)
  BY <1>0, <1>7 DEF GoesOn, InOrder, locks
<1>8. CASE LockWalletByID(q)
  <2>1. pc[q] = "wallet" /\ WalletToLock(q) \in Wallet
    BY <1>8, WalletToLockType DEF LockWalletByID
  <2>2. /\ walletLock' = [walletLock EXCEPT ![WalletToLock(q)] = q]
        /\ pc'[q] \in {"find", "hold"} /\ cmd' = cmd /\ holdLock' = holdLock /\ holds' = holds
    BY <1>8 DEF LockWalletByID, Goto, TypeOK, db
  <2>3. cmd[q].op = "capture" => WalletToLock(q) = holds[cmd[q].hold].wallet
    BY DEF WalletToLock
  <2>4. cmd[q].op = "capture" => walletLock'[holds'[cmd[q].hold].wallet] = q
    BY <2>1, <2>2, <2>3 DEF TypeOK
  <2> QED
    BY <1>0, <2>1, <2>2, <2>4 DEF InOrder
<1>9. CASE LockWalletAccount(q)
  <2> DEFINE n == NextToLock(q)
  <2>1. /\ n \in Pending(q) /\ n \in Wallet
        /\ \A v \in Pending(q) : n <= v
        /\ Pending(q) \subseteq Wallet /\ Wallet \subseteq Nat
    BY <1>9, NextToLockType, WalletAssumption, AccountAssumption
       DEF LockWalletAccount, Pending, WalletsOf
  <2>2. /\ walletLock' = [walletLock EXCEPT ![n] = q]
        /\ pc[q] = "accounts" /\ pc'[q] = "accounts"
        /\ cmd' = cmd /\ holdLock' = holdLock /\ holds' = holds /\ draft' = draft
    BY <1>9 DEF LockWalletAccount, Goto, TypeOK, db, local
  <2> HIDE DEF n
  <2>3. \A w \in Wallet : walletLock'[w] = q <=> w = n \/ walletLock[w] = q
    BY <2>1, <2>2 DEF TypeOK
  <2>4. Pending(q)' = Pending(q) \ {n}
    <3>1. Pending(q)' = {w \in WalletsOf(draft[q]) : walletLock'[w] # q}
      BY <2>2 DEF Pending, WalletsOf
    <3>2. WalletsOf(draft[q]) \subseteq Wallet
      BY DEF WalletsOf
    <3> QED
      BY <2>3, <3>1, <3>2 DEF Pending
  <2>5. cmd[q].op # "capture" =>
          \A w \in Wallet : walletLock'[w] = q => \A v \in Pending(q)' : w < v
    <3>1. \A v \in Pending(q) \ {n} : n < v
      BY <2>1
    <3> QED
      BY <1>0, <2>2, <2>3, <2>4, <3>1 DEF InOrder
  <2>6. cmd[q].op = "capture" => walletLock'[holds[cmd[q].hold].wallet] = q
    <3>1. cmd[q].op = "capture" => holds[cmd[q].hold].wallet \in Wallet
      BY <1>0, <2>2, CommandFields DEF ReadyAt, TypeOK, HoldRow
    <3> QED
      BY <1>0, <2>2, <2>3, <3>1 DEF InOrder
  <2> QED
    BY <1>0, <2>2, <2>5, <2>6 DEF InOrder
<1>10. CASE LockHold(q)
  <2>1. (\E r : Answer(q, r)) \/
          /\ pc[q] = "hold" /\ pc'[q] = "accounts" /\ cmd' = cmd
          /\ UNCHANGED <<walletLock, holds>>
    BY <1>10 DEF LockHold, Fail, Goto, TypeOK, db
  <2>2. pc[q] = "hold" => cmd[q].op = "capture"
    BY <1>0 DEF ReadyAt
  <2> QED
    BY <1>0, <1>6, <2>1, <2>2 DEF InOrder
<1> QED
  BY <1>3, <1>4, <1>5, <1>6, <1>7, <1>8, <1>9, <1>10, LocksOfAStep DEF Next

\* A capture that has its hold has every wallet it needs.
LEMMA CaptureHasItsWallets ==
  ASSUME SettlesOutside, PromiseInv, LocksInOrder, NEW p \in Session,
         pc[p] = "accounts", cmd[p].op = "capture"
  PROVE  Pending(p) = {}
<1> USE DEF PromiseInv, SolvencyInv
<1> DEFINE c == cmd[p]
           h == holds[cmd[p].hold]
<1>1. /\ c \in Command /\ c.settle \notin Wallet /\ walletLock[h.wallet] = p
      /\ draft[p] = TwoLeg(h.wallet, c.settle, h.amount, c.hold)
  BY DEF Ready, ReadyAt, SettlesOutside, LocksInOrder, InOrder, Pledges, Pledged,
         Accepted, PostingOp
<1>2. ASSUME NEW w \in WalletsOf(draft[p]) PROVE w = h.wallet
  <2>1. w \in Account /\ w \in Wallet
    BY WalletAssumption DEF WalletsOf
  <2>2. w # h.wallet => draft[p].dr[w] = 0 /\ draft[p].cr[w] = 0
    BY <1>1, <2>1 DEF TwoLeg
  <2> QED
    BY <2>2 DEF WalletsOf
<1> QED
  BY <1>1, <1>2 DEF Pending

LEMMA OrderPreventsDeadlock ==
  ASSUME SettlesOutside, PromiseInv, LocksInOrder
  PROVE  NoDeadlock
<1> USE DEF PromiseInv, SolvencyInv
<1> SUFFICES ASSUME NEW S \in SUBSET Session, Deadlocked(S) PROVE FALSE
  BY DEF NoDeadlock
<1>1. /\ S # {} /\ IsFiniteSet(S)
      /\ \A p \in S : Blocker(p) \in S /\ Blocker(p) # None
  BY SessionAssumption, FS_Subset DEF Deadlocked
<1>2. ASSUME NEW p \in S
      PROVE  \/ pc[p] = "wallet"
             \/ pc[p] \in {"hold", "update"}
             \/ pc[p] = "accounts" /\ Pending(p) # {} /\ cmd[p].op # "capture"
  BY <1>1, CaptureHasItsWallets DEF Blocker
<1>3. ASSUME NEW p \in S PROVE pc[p] \notin {"hold", "update"}
  <2> SUFFICES ASSUME pc[p] \in {"hold", "update"} PROVE FALSE
    OBVIOUS
  <2>1. cmd[p].hold \in HoldId
    BY CommandFields DEF Ready, ReadyAt
  <2>2. PICK q \in S : holdLock[cmd[p].hold] = q
    BY <1>1 DEF Blocker
  <2>3. pc[q] \in {"accounts", "validate", "insert", "mark"} /\ cmd[q].op = "capture"
    BY <2>1, <2>2 DEF LocksInOrder, InOrder
  <2> QED
    BY <1>2, <2>3
<1> DEFINE Wanted(p) == IF pc[p] = "wallet" THEN WalletToLock(p) ELSE NextToLock(p)
           f == [p \in S |-> Wanted(p)]
<1>4. ASSUME NEW p \in S PROVE Wanted(p) \in Wallet /\ walletLock[Wanted(p)] \in S
  BY <1>1, <1>2, <1>3, WalletToLockType, NextToLockType DEF Blocker
<1>5. ASSUME NEW p \in S PROVE \E q \in S : Wanted(p) < Wanted(q)
  <2>1. PICK q \in S : walletLock[Wanted(p)] = q /\ Wanted(p) \in Wallet
    BY <1>4
  <2>2. pc[q] # "wallet"
    BY <2>1 DEF LocksInOrder, InOrder
  <2>3. pc[q] = "accounts" /\ Pending(q) # {} /\ cmd[q].op # "capture"
    BY <1>2, <1>3, <2>2
  <2>4. Wanted(q) \in Pending(q)
    BY <2>3, NextToLockType
  <2>5. Wanted(p) < Wanted(q)
    BY <2>1, <2>3, <2>4 DEF LocksInOrder, InOrder
  <2> QED
    BY <2>5
<1>6. /\ \A p \in S : f[p] \in Nat
      /\ \A p \in S : \E q \in S : f[p] < f[q]
  BY <1>4, <1>5, WalletAssumption, AccountAssumption
<1> HIDE DEF f
<1> QED
  BY <1>1, <1>6, NoEndlessRise

\* If no capture pays into a wallet, the sorted locks of postings and the one wallet
\* that authorizations and captures take first never make sessions wait in a cycle.
THEOREM NobodyWaitsInACycle ==
  ASSUME SettlesOutside
  PROVE  Spec => []NoDeadlock
<1>1. Init => PromiseInv /\ LocksInOrder
  <2>1. Init => PromiseInv
    BY SolvencyInit DEF Init, PromiseInv, Pledges, Pledged
  <2>2. Init => LocksInOrder
    BY SessionAssumption DEF Init, LocksInOrder, InOrder
  <2> QED
    BY <2>1, <2>2
<1>2. PromiseInv /\ LocksInOrder /\ [Next]_vars => (PromiseInv /\ LocksInOrder)'
  BY SolvencyStep, PledgesStep, InOrderStep DEF PromiseInv
<1>3. PromiseInv /\ LocksInOrder => NoDeadlock
  BY OrderPreventsDeadlock
<1> QED
  BY <1>1, <1>2, <1>3, PTL DEF Spec

-----------------------------------------------------------------------------
(* What repetitions are answered *)

\* A capture that has locked its hold keeps it, still authorized, to its end.
HasItsHold(p) ==
  pc[p] \in {"accounts", "validate", "insert", "mark"} /\ cmd[p].op = "capture" =>
    holdLock[cmd[p].hold] = p /\ StillAuthorized(cmd[p].hold)

\* What passed the second look-up is not in the database, or touches no wallet.
NotYetThere(p) ==
  pc[p] \in {"validate", "insert"} /\ Recorded(cmd[p]) =>
    WalletsOf(posted[cmd[p].txn]) = {}

RetryInv ==
  /\ PromiseInv /\ Origins
  /\ \A h \in HoldId : Paid(h)
  /\ \A p \in Session : HasItsHold(p) /\ NotYetThere(p)

\* Where a session's own step takes it: to its answer, or on with the rows as they are.
LEMMA OwnStep ==
  ASSUME TypeOK, Ready, Pledges,
         NEW p \in Session, Run(p) \/ Acquire(p) \/ DeadlockVictim(p) \/ Abort(p)
  PROVE  (\E r : Answer(p, r)) \/ \E l : MovesOn(p, l)
<1>1. Pledged(p)
  BY DEF Pledges
<1> QED
  BY <1>1, UseCaseMoves, RepositoryMoves, WriteStepAnswers DEF Run, Acquire

\* Nobody ends the hold of another session's capture.
LEMMA LockedHoldStays ==
  ASSUME TypeOK, Ready, \A q \in Session : HasItsHold(q),
         NEW p \in Session, Run(p) \/ Acquire(p) \/ DeadlockVictim(p) \/ Abort(p),
         NEW q \in Session, q # p, NEW h \in HoldId, holdLock[h] = q, holds[h] # None
  PROVE  holds'[h] = holds[h]
<1>0. ReadyAt(pc[p], cmd[p], draft[p]) /\ HasItsHold(p)
  BY DEF Ready
<1>1. CASE Reads(p)
  BY <1>1, ReadsWriteNothing DEF db
<1>2. CASE InsertTransaction(p)
  BY <1>2 DEF InsertTransaction, Fail, db
<1>3. CASE InsertCapture(p) \/ MarkCaptured(p)
  <2>1. cmd[p].hold # h
    BY <1>0, <1>3 DEF InsertCapture, MarkCaptured, At, HasItsHold, ReadyAt
  <2>2. UNCHANGED holds \/ holds' = SetStatus(cmd[p].hold, "captured")
    BY <1>3 DEF InsertCapture, MarkCaptured, Fail, db
  <2> QED
    BY <2>1, <2>2 DEF SetStatus, TypeOK
<1>4. CASE UpdateStatus(p)
  <2>1. cmd[p].hold # h
    BY <1>4, SessionAssumption DEF UpdateStatus
  <2>2. UNCHANGED holds \/ \E s : holds' = SetStatus(cmd[p].hold, s)
    BY <1>4 DEF UpdateStatus, Fail, db
  <2> QED
    BY <2>1, <2>2 DEF SetStatus, TypeOK
<1>5. CASE CreateWalletHold(p)
  BY <1>5 DEF CreateWalletHold, Fail, db, TypeOK
<1> QED
  BY <1>1, <1>2, <1>3, <1>4, <1>5 DEF Run, Acquire, Reads

LEMMA HasItsHoldStep ==
  ASSUME PromiseInv, \A p \in Session : HasItsHold(p), [Next]_vars, NEW q \in Session
  PROVE  HasItsHold(q)'
<1> USE DEF PromiseInv, SolvencyInv
<1>0. /\ HasItsHold(q) /\ ReadyAt(pc[q], cmd[q], draft[q])
      /\ pc[q] \in {"accounts", "validate", "insert", "mark"} /\ cmd[q].op = "capture" =>
           cmd[q].hold \in HoldId /\ holds[cmd[q].hold] # None
  BY CommandFields DEF Ready, ReadyAt
<1>1. CASE UNCHANGED vars \/ Tick
  BY <1>0, <1>1 DEF vars, Tick, db, locks, HasItsHold, StillAuthorized
<1>2. ASSUME NEW p \in Session, NEW c \in Command, Submit(p, c)
      PROVE  HasItsHold(q)'
  BY <1>0, <1>2 DEF Submit, db, locks, HasItsHold, StillAuthorized, TypeOK
<1>3. ASSUME NEW p \in Session, p # q, Run(p) \/ Acquire(p) \/ DeadlockVictim(p) \/ Abort(p)
      PROVE  HasItsHold(q)'
  <2>1. pc'[q] = pc[q] /\ cmd'[q] = cmd[q]
    BY <1>3, EveryStepMoves DEF Moves, Answer, Draft, Goto, TypeOK
  <2>2. \A h \in HoldId : holdLock'[h] = q <=> holdLock[h] = q
    BY <1>3, OthersKeepLocks
  <2>3. \A h \in HoldId : holdLock[h] = q /\ holds[h] # None => holds'[h] = holds[h]
    BY <1>3, LockedHoldStays
  <2> QED
    BY <1>0, <2>1, <2>2, <2>3 DEF HasItsHold, StillAuthorized
<1>4. CASE Run(q) \/ Acquire(q) \/ DeadlockVictim(q) \/ Abort(q)
  <2>1. ASSUME NEW r, Answer(q, r) PROVE HasItsHold(q)'
    BY <2>1 DEF Answer, HasItsHold, TypeOK
  <2>2. ASSUME NEW l, MovesOn(q, l), GoesOn(q) \/ LockWalletByID(q) \/ LockWalletAccount(q)
        PROVE  HasItsHold(q)'
    BY <1>0, <2>2 DEF MovesOn, GoesOn, LockWalletByID, LockWalletAccount, Goto, locks, HasItsHold,
         StillAuthorized, TypeOK
  <2>3. ASSUME NEW l, MovesOn(q, l), LockHold(q)
        PROVE  HasItsHold(q)'
    <3>1. cmd[q].hold \in HoldId /\ pc[q] = "hold"
      BY <1>0, <2>3, CommandFields DEF LockHold, ReadyAt
    <3>2. \/ \E r : Answer(q, r)
          \/ /\ holds[cmd[q].hold].status = "authorized"
             /\ holdLock' = [holdLock EXCEPT ![cmd[q].hold] = q]
      BY <2>3 DEF LockHold, Fail
    <3> QED
      BY <2>1, <2>3, <3>1, <3>2 DEF MovesOn, HasItsHold, StillAuthorized, TypeOK
  <2> QED
    BY <1>4, <2>1, <2>2, <2>3, OwnStep, LocksOfAStep
<1> QED
  BY <1>1, <1>2, <1>3, <1>4 DEF Next

\* A request has one entry.
LEMMA OneEntry ==
  ASSUME NEW c \in Command, c.op \in PostingOp, NEW d, NEW e, Accepted(c, d), Accepted(c, e)
  PROVE  d = e
BY DEF Accepted, PostingOp

\* What is recorded under a request's key, hash and transaction is that request.
LEMMA RecordedIsPosted ==
  ASSUME HashesTell, Origins, NEW c \in Command, Recorded(c)
  PROVE  PostedFor(c) /\ keys[c.key] = [hash |-> c.hash, txn |-> c.txn]
<1>1. c.op \in PostingOp /\ keys[c.key] = [hash |-> c.hash, txn |-> c.txn]
  BY DEF Recorded, Idempotency
<1> QED
  BY <1>1, RecordIsOwn

LEMMA NotYetThereStep ==
  ASSUME HashesTell, RetryInv, [Next]_vars, NEW q \in Session
  PROVE  NotYetThere(q)'
<1> USE DEF RetryInv, PromiseInv, SolvencyInv
<1> SUFFICES ASSUME pc'[q] \in {"validate", "insert"}, Recorded(cmd[q])'
             PROVE  WalletsOf(posted[cmd[q].txn])' = {}
  BY DEF NotYetThere
<1>1. ASSUME pc[q] \in {"validate", "insert"}, cmd'[q] = cmd[q], Recorded(cmd[q])
      PROVE  WalletsOf(posted[cmd[q].txn])' = {}
  <2>1. PICK c \in Command : c = cmd[q]
    BY <1>1 DEF Ready, ReadyAt
  <2>2. PostedFor(c) /\ c.txn \in TxnId
    BY <1>1, <2>1, RecordedIsPosted, CommandFields DEF PostedFor
  <2>3. posted'[c.txn] = posted[c.txn]
    BY <2>2, StepAppends DEF PostedFor
  <2>4. WalletsOf(posted[c.txn]) = {}
    BY <1>1, <2>1 DEF NotYetThere
  <2> QED
    BY <1>1, <2>1, <2>3, <2>4 DEF WalletsOf
<1>2. ASSUME pc'[q] = pc[q], cmd'[q] = cmd[q], ~Recorded(cmd[q])
      PROVE  WalletsOf(posted[cmd[q].txn])' = {}
  <2>1. PICK c \in Command : c = cmd[q]
    BY <1>2 DEF Ready, ReadyAt
  <2>2. /\ c.op \in PostingOp /\ c.key \in Key
        /\ keys[c.key] # [hash |-> c.hash, txn |-> c.txn]
        /\ keys'[c.key] = [hash |-> c.hash, txn |-> c.txn]
        /\ keys'[c.key] # None
    <3>1. c.op \in PostingOp /\ c.key \in Key /\ [hash |-> c.hash, txn |-> c.txn] \in KeyRow
      BY <1>2, <2>1, CommandFields DEF Recorded, KeyRow
    <3> QED
      BY <1>2, <2>1, <3>1, NoneAssumption DEF Recorded, Idempotency
  <2>3. PICK p \in Session :
          /\ pc[p] = "insert" /\ pc'[p] = "idle"
          /\ cmd[p] \in Command /\ cmd[p].op \in PostingOp
          /\ WriteTransaction(p)
    BY <2>2, WritesOfAStep DEF db
  <2>4. /\ cmd[p].txn \in TxnId /\ cmd[p].key \in Key
        /\ posted'[cmd[p].txn] = draft[p]
        /\ \A k \in Key : keys'[k] = IF k = cmd[p].key
                                     THEN [hash |-> cmd[p].hash, txn |-> cmd[p].txn]
                                     ELSE keys[k]
    BY <2>3, CommandFields DEF WriteTransaction, TypeOK
  <2>5. cmd[p] = c
    <3>1. c.key = cmd[p].key /\ [hash |-> cmd[p].hash, txn |-> cmd[p].txn] = [hash |-> c.hash, txn |-> c.txn]
      BY <2>2, <2>4
    <3>2. cmd[p].hash = c.hash /\ cmd[p].txn = c.txn
      BY <3>1
    <3> QED
      BY <2>2, <2>3, <3>1, <3>2 DEF HashesTell
  <2>6. Accepted(c, draft[p]) /\ Accepted(c, draft[q])
    BY <1>2, <2>1, <2>2, <2>3, <2>5 DEF Pledges, Pledged
  <2>7. draft[p] = draft[q]
    BY <2>2, <2>6, OneEntry
  <2>8. \A w \in WalletsOf(draft[p]) : walletLock[w] = p /\ walletLock[w] = q
    BY <1>2, <2>3, <2>7 DEF Locked, Secured
  <2>9. p # q
    BY <2>3
  <2>10. WalletsOf(draft[p]) = {}
    BY <2>8, <2>9
  <2> QED
    BY <1>2, <2>1, <2>4, <2>5, <2>10 DEF WalletsOf
<1>3. ASSUME pc'[q] = pc[q], cmd'[q] = cmd[q]
      PROVE  WalletsOf(posted[cmd[q].txn])' = {}
  BY <1>1, <1>2, <1>3
<1>4. CASE UNCHANGED vars \/ Tick
  BY <1>3, <1>4 DEF vars, Tick
<1>5. ASSUME NEW p \in Session, NEW c \in Command, Submit(p, c)
      PROVE  WalletsOf(posted[cmd[q].txn])' = {}
  BY <1>3, <1>5 DEF Submit, TypeOK
<1>6. ASSUME NEW p \in Session, p # q, Run(p) \/ Acquire(p) \/ DeadlockVictim(p) \/ Abort(p)
      PROVE  WalletsOf(posted[cmd[q].txn])' = {}
  BY <1>3, <1>6, EveryStepMoves DEF Moves, Answer, Draft, Goto, TypeOK
<1>7. CASE Run(q) \/ Acquire(q) \/ DeadlockVictim(q) \/ Abort(q)
  <2>1. ~ \E r : Answer(q, r)
    BY DEF Answer, TypeOK
  <2>2. UNCHANGED <<posted, keys>> /\ cmd'[q] = cmd[q] /\ Recorded(cmd[q])
    BY <1>7, <2>1, OwnStep DEF MovesOn, Recorded, Idempotency
  <2>3. pc[q] = "validate" \/ ~Recorded(cmd[q])
    <3>1. GoesOn(q)
      BY <1>7, <2>1, LocksOfAStep DEF LockWalletByID, LockWalletAccount, LockHold, Fail, Goto, TypeOK
    <3>2. pc[q] \in {"accounts", "validate"}
      BY <3>1 DEF GoesOn
    <3>3. pc[q] = "accounts" => RecheckKey(q)
      BY <1>7, <2>1, <3>1 DEF Run, Acquire, PostTransaction, DepositWallet, WithdrawWallet,
           TransferWallet, ReverseTransaction, CreateHold, CaptureHold, ReleaseHold, ExpireHold, At,
           BeginTx, LookupKey, ValidateBalances, InsertTransaction, InsertCapture, MarkCaptured,
           FindHold, CheckFunds, CreateWalletHold, LockWalletByID, LockWalletAccount, LockHold,
           UpdateStatus, DeadlockVictim, Abort, Fail, Goto, TypeOK
    <3> QED
      BY <2>1, <3>2, <3>3 DEF RecheckKey, Fail, Goto, Recorded, TypeOK
  <2> QED
    BY <1>1, <2>2, <2>3
<1> QED
  BY <1>4, <1>5, <1>6, <1>7 DEF Next

\* A posted request passes the checks of its use case, but for the balance that
\* withdrawals and transfers read there.
LEMMA UseCaseRepeats ==
  ASSUME TypeOK, NEW p \in Session, PostedFor(cmd[p]),
         cmd[p].op = "capture" => holds[cmd[p].hold].status = "captured",
         \/ PostTransaction(p) \/ DepositWallet(p) \/ WithdrawWallet(p)
         \/ TransferWallet(p) \/ ReverseTransaction(p) \/ CreateHold(p)
         \/ CaptureHold(p) \/ ReleaseHold(p) \/ ExpireHold(p),
         pc'[p] = "idle"
  PROVE  At(p, "usecase", {"withdraw", "transfer"}) /\ reply'[p] = "insufficient"
<1> USE DEF TypeOK, At
<1>1. ASSUME NEW t, NEW l \in {"lookup", "begin"}, Draft(p, t, l) PROVE FALSE
  BY <1>1 DEF Draft, Goto
<1>2. CASE PostTransaction(p)
  <2> DEFINE t == [dr |-> cmd[p].dr, cr |-> cmd[p].cr, reverses |-> None, captures |-> None]
  <2>1. ValidEntry(t)
    BY <1>2 DEF PostTransaction, PostedFor, Accepted
  <2> QED
    BY <1>1, <1>2, <2>1 DEF PostTransaction
<1>3. CASE DepositWallet(p)
  BY <1>1, <1>3 DEF DepositWallet, PostedFor, Accepted
<1>4. CASE WithdrawWallet(p) \/ TransferWallet(p)
  BY <1>1, <1>4 DEF WithdrawWallet, TransferWallet, SpendFrom, Fail, Answer, PostedFor, Accepted
<1>5. CASE ReverseTransaction(p)
  BY <1>1, <1>5 DEF ReverseTransaction, PostedFor, Accepted
<1>6. CASE CaptureHold(p)
  BY <1>1, <1>6 DEF CaptureHold, Capturable, PostedFor, Accepted
<1>7. ~ (CreateHold(p) \/ ReleaseHold(p) \/ ExpireHold(p))
  BY DEF CreateHold, ReleaseHold, ExpireHold, PostedFor, PostingOp
<1> QED
  BY <1>2, <1>3, <1>4, <1>5, <1>6, <1>7

\* A posted capture has closed its hold.
LEMMA PostedCaptureClosed ==
  ASSUME TypeOK, \A h \in HoldId : Paid(h), NEW c, PostedFor(c), c.op = "capture"
  PROVE  holds[c.hold].status = "captured"
<1>1. c.hold \in HoldId /\ c.txn \in TxnId
  BY CommandFields DEF PostedFor
<1>2. c.txn \in CapturesOf(c.hold)
  BY <1>1 DEF PostedFor, Accepted, TwoLeg, CapturesOf
<1> QED
  BY <1>1, <1>2 DEF Paid

LEMMA RetryStep ==
  ASSUME HashesTell, RetryInv, NEW p \in Session,
         Run(p) \/ Acquire(p) \/ DeadlockVictim(p) \/ Abort(p),
         pc[p] # "idle", pc'[p] = "idle",
         Recorded(cmd[p]), WalletsOf(posted[cmd[p].txn]) # {}
  PROVE  \/ reply'[p] \in {"ok", "aborted", "deadlock"}
         \/ At(p, "usecase", {"withdraw", "transfer"}) /\ reply'[p] = "insufficient"
<1> USE DEF RetryInv, PromiseInv, SolvencyInv
<1>1. ReadyAt(pc[p], cmd[p], draft[p]) /\ cmd[p] \in Command
  BY DEF Ready, ReadyAt
<1>2. /\ PostedFor(cmd[p])
      /\ cmd[p].op \in PostingOp /\ Idempotency(cmd[p]) = "replayed"
  BY <1>1, RecordedIsPosted DEF Recorded
<1>3. cmd[p].op = "capture" => holds[cmd[p].hold].status = "captured"
  BY <1>2, PostedCaptureClosed
<1>4. pc[p] \notin {"validate", "insert"}
  BY DEF NotYetThere
<1>5. pc[p] # "mark"
  BY <1>1, <1>3 DEF ReadyAt, HasItsHold, StillAuthorized
<1>6. pc[p] \notin {"find", "funds", "create", "update"}
  BY <1>1, <1>2 DEF ReadyAt, PostingOp
<1>7. CASE \/ PostTransaction(p) \/ DepositWallet(p) \/ WithdrawWallet(p)
           \/ TransferWallet(p) \/ ReverseTransaction(p) \/ CreateHold(p)
           \/ CaptureHold(p) \/ ReleaseHold(p) \/ ExpireHold(p)
  BY <1>2, <1>3, <1>7, UseCaseRepeats
<1>8. CASE BeginTx(p) \/ LockWalletByID(p) \/ LockWalletAccount(p)
  BY <1>8 DEF BeginTx, LockWalletByID, LockWalletAccount, Goto, TypeOK
<1>9. CASE LookupKey(p) \/ RecheckKey(p)
  BY <1>2, <1>9 DEF LookupKey, RecheckKey, Fail, Answer, Goto, TypeOK
<1>10. CASE LockHold(p)
  <2>1. cmd[p].op = "capture"
    BY <1>1, <1>10 DEF LockHold, ReadyAt
  <2> QED
    BY <1>2, <1>3, <1>10, <2>1 DEF LockHold, Fail, Answer, TypeOK
<1>11. CASE DeadlockVictim(p) \/ Abort(p)
  BY <1>11 DEF DeadlockVictim, Abort, Fail, Answer, TypeOK
<1>12. ~ (\/ ValidateBalances(p) \/ InsertTransaction(p) \/ InsertCapture(p) \/ MarkCaptured(p)
          \/ FindHold(p) \/ CheckFunds(p) \/ CreateWalletHold(p) \/ UpdateStatus(p))
  BY <1>4, <1>5, <1>6 DEF ValidateBalances, InsertTransaction, InsertCapture, MarkCaptured, At,
       FindHold, CheckFunds, CreateWalletHold, UpdateStatus
<1> QED
  BY <1>7, <1>8, <1>9, <1>10, <1>11, <1>12 DEF Run, Acquire

\* If hashes tell requests apart, whoever repeats a recorded request that touches a
\* wallet is answered with success, however the two interleave, unless the
\* connection fails, or a withdrawal or transfer finds the money spent before it
\* looks up its key.
THEOREM RepetitionsSucceed ==
  ASSUME HashesTell
  PROVE  Spec => RetriesReplayed
<1>1. Init => RetryInv
  <2>1. Init => PromiseInv
    BY SolvencyInit DEF Init, PromiseInv, Pledges, Pledged
  <2>2. Init => /\ Origins
                /\ \A h \in HoldId : Paid(h)
                /\ \A p \in Session : HasItsHold(p) /\ NotYetThere(p)
    BY DEF Init, Origins, KeyOrigins, HoldOrigins, Paid, CapturesOf, HasItsHold, NotYetThere
  <2> QED
    BY <2>1, <2>2 DEF RetryInv
<1>2. RetryInv /\ [Next]_vars => RetryInv'
  BY SolvencyStep, PledgesStep, OriginsStep, PaidStep, HasItsHoldStep, NotYetThereStep
     DEF PromiseInv, RetryInv
<1>3. ASSUME RetryInv, [Next]_vars
      PROVE  [\A p \in Session :
                /\ pc[p] # "idle" /\ pc'[p] = "idle"
                /\ Recorded(cmd[p]) /\ WalletsOf(posted[cmd[p].txn]) # {}
                => \/ reply'[p] \in {"ok", "aborted", "deadlock"}
                   \/ At(p, "usecase", {"withdraw", "transfer"}) /\ reply'[p] = "insufficient"]_vars
  <2>1. SUFFICES ASSUME NEW p \in Session, pc[p] # "idle", pc'[p] = "idle",
                        Recorded(cmd[p]), WalletsOf(posted[cmd[p].txn]) # {}
                 PROVE  \/ reply'[p] \in {"ok", "aborted", "deadlock"}
                        \/ At(p, "usecase", {"withdraw", "transfer"}) /\ reply'[p] = "insufficient"
    OBVIOUS
  <2>2. TypeOK
    BY <1>3 DEF RetryInv, PromiseInv, SolvencyInv
  <2>3. ~ (UNCHANGED vars \/ Tick \/ \E q \in Session, c \in Command : Submit(q, c))
    BY <2>1, <2>2 DEF vars, Tick, Submit, TypeOK
  <2>4. ASSUME NEW q \in Session, q # p, Run(q) \/ Acquire(q) \/ DeadlockVictim(q) \/ Abort(q)
        PROVE  FALSE
    BY <2>1, <2>2, <2>4, EveryStepMoves DEF Moves, Answer, Draft, Goto, TypeOK
  <2> QED
    BY <1>3, <2>1, <2>3, <2>4, RetryStep DEF Next
<1> QED
  BY <1>1, <1>2, <1>3, PTL DEF Spec, RetriesReplayed
=============================================================================
