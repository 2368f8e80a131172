-------------------------- MODULE MCHoldExpiration --------------------------
(***************************************************************************)
(* A small instance of HoldExpiration: holds on wallet 1, one of which is  *)
(* captured into account 9.                                                *)
(***************************************************************************)
EXTENDS HoldExpiration

ByName == [h \in HoldId |-> CASE h = "h1" -> 1 [] h = "h2" -> 2 [] h = "h3" -> 3]

Hold(hold, key, expires) ==
  [op |-> "authorize", key |-> key, hash |-> "x", hold |-> hold, wallet |-> 1,
   amount |-> 1, expires |-> expires]

Clients ==
  {[op |-> "deposit", key |-> "k1", hash |-> "x", txn |-> "t1", from |-> 9,
    wallet |-> 1, amount |-> 3],
   Hold("h1", "k1", 1), Hold("h2", "k2", 2), Hold("h3", "k3", 1),
   [op |-> "capture", key |-> "k2", hash |-> "x", txn |-> "t2", hold |-> "h2", settle |-> 9]}

Served == Clients \cup {ExpiryOf(h) : h \in HoldId}
=============================================================================
