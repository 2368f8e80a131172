---------------------------- MODULE LedgerPromise ----------------------------
(***************************************************************************)
(* What the core promises of its database: each request takes effect in    *)
(* one step or not at all, and takes effect only when the tables, as they  *)
(* are in that very step, allow it.  There are no sessions, no locks, no   *)
(* snapshots and no waiting here; WalletLedger shows that all of these     *)
(* together amount to this.                                                *)
(***************************************************************************)
EXTENDS Requests

VARIABLES
  clock,
  posted,      \* transactions
  keys,        \* idempotency_keys
  holds,       \* wallet_holds
  outbox       \* outbox_events

vars == <<clock, posted, keys, holds, outbox>>

Init ==
  /\ clock = 0
  /\ posted = [t \in TxnId |-> None]
  /\ keys = [k \in Key |-> None]
  /\ holds = [h \in HoldId |-> None]
  /\ outbox = {}

-----------------------------------------------------------------------------
(* The ledger transaction a request asks for *)

Entry(c) ==
  CASE c.op = "post"    -> [dr |-> c.dr, cr |-> c.cr, reverses |-> None, captures |-> None]
    [] c.op = "deposit" -> TwoLeg(c.from, c.wallet, c.amount, None)
    [] c.op \in {"withdraw", "transfer"} -> TwoLeg(c.wallet, c.to, c.amount, None)
    [] c.op = "reverse" -> Reverse(c.original, posted[c.original])
    [] c.op = "capture" -> TwoLeg(holds[c.hold].wallet, c.settle, holds[c.hold].amount, c.hold)

\* It moves money between different accounts, undoes a posting that is no
\* reversal itself, or pays for a hold that nobody has ended.
Legal(c) ==
  CASE c.op = "post"    -> ValidEntry(Entry(c))
    [] c.op = "deposit" -> c.from # c.wallet
    [] c.op \in {"withdraw", "transfer"} -> c.to # c.wallet
    [] c.op = "reverse" ->
         /\ c.original # c.txn
         /\ posted[c.original] # None
         /\ posted[c.original].reverses = None
    [] c.op = "capture" ->
         /\ holds[c.hold] # None
         /\ holds[c.hold].status = "authorized"
         /\ holds[c.hold].wallet # c.settle

\* Neither its identifier, nor its key, nor what it reverses was used before.
Fresh(c) ==
  /\ posted[c.txn] = None
  /\ keys[c.key] = None
  /\ c.op = "reverse" =>
       \A t \in TxnId : posted[t] # None => posted[t].reverses # c.original

\* Every wallet it touches can pay for it now.
Covered(d) ==
  \A w \in WalletsOf(d) : Available(posted, holds, w, clock) + Delta(d, w) >= 0

Record(c) ==
  /\ posted' = [posted EXCEPT ![c.txn] = Entry(c)]
  /\ keys' = [keys EXCEPT ![c.key] = [hash |-> c.hash, txn |-> c.txn]]
  /\ outbox' = outbox \cup {c.txn} \X WalletsOf(Entry(c))
  /\ UNCHANGED clock

-----------------------------------------------------------------------------
Post(c) ==
  /\ c.op \in PostingOp \ {"capture"}
  /\ Fresh(c) /\ Legal(c)
  /\ Record(c)
  /\ Covered(Entry(c))
  /\ UNCHANGED holds

EndHold(h, status) ==
  /\ holds[h] # None /\ holds[h].status = "authorized"
  /\ holds' = [holds EXCEPT ![h].status = status]

Capture(c) ==
  /\ c.op = "capture"
  /\ Fresh(c) /\ Legal(c)
  /\ Record(c)
  /\ Covered(Entry(c))
  /\ EndHold(c.hold, "captured")

\* A capture whose key was recorded by another request ends its hold unpaid.
MarkCaptured(c) ==
  /\ c.op = "capture"
  /\ keys[c.key] = [hash |-> c.hash, txn |-> c.txn]
  /\ EndHold(c.hold, "captured")
  /\ UNCHANGED <<clock, posted, keys, outbox>>

\* A wallet reserves what it can pay, once for each of its keys.
Authorize(c) ==
  /\ c.op = "authorize"
  /\ holds[c.hold] = None
  /\ \A h \in HoldId : holds[h] # None => holds[h].wallet # c.wallet \/ holds[h].key # c.key
  /\ \E created \in 0 .. clock :
       holds' = [holds EXCEPT ![c.hold] =
         [wallet |-> c.wallet, amount |-> c.amount, created |-> created,
          expires |-> c.expires, status |-> "authorized", key |-> c.key, hash |-> c.hash]]
  /\ Available(posted, holds, c.wallet, clock) >= c.amount
  /\ UNCHANGED <<clock, posted, keys, outbox>>

Release(c) ==
  /\ c.op = "release"
  /\ EndHold(c.hold, "released")
  /\ UNCHANGED <<clock, posted, keys, outbox>>

Expire(c) ==
  /\ c.op = "expire"
  /\ EndHold(c.hold, "expired")
  /\ holds[c.hold].expires <= clock
  /\ UNCHANGED <<clock, posted, keys, outbox>>

Tick ==
  /\ clock' \in (clock + 1) .. MaxTime
  /\ UNCHANGED <<posted, keys, holds, outbox>>

Next ==
  \/ Tick
  \/ \E c \in Command :
       \/ Post(c) \/ Capture(c) \/ MarkCaptured(c)
       \/ Authorize(c) \/ Release(c) \/ Expire(c)

Spec == Init /\ [][Next]_vars
=============================================================================
