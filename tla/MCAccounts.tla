----------------------------- MODULE MCAccounts -----------------------------
(***************************************************************************)
(* A small instance of Accounts: a credit and two debits of account 1 that *)
(* the credit covers one at a time, and a credit of account 2.             *)
(***************************************************************************)
EXTENDS Accounts, TLC

Sessions == Permutations(Session)

Postings ==
  {[id |-> 2, account |-> 1, amount |-> 1], [id |-> 1, account |-> 1, amount |-> -1],
   [id |-> 3, account |-> 1, amount |-> -1], [id |-> 4, account |-> 2, amount |-> 1]}
=============================================================================
