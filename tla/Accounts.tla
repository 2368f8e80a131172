------------------------------ MODULE Accounts ------------------------------
(***************************************************************************)
(* Accounts and wallets that come into being while postings run, and the   *)
(* listing of an account's entries page by page.                           *)
(*                                                                         *)
(* A posting here is what one transaction does to one account: locks on    *)
(* several wallets, keys and holds are in WalletLedger, which has all its  *)
(* wallets from the start.  Names, owners and currencies are left out.     *)
(***************************************************************************)
EXTENDS Integers, FiniteSets

CONSTANTS
  AccountId, Code, WalletId,
  Posting,      \* what the transactions of clients do: PostingRequest
  Session,      \* transactions posted at the same time
  Client,       \* who lists entries
  Limit,        \* entries on a page
  MaxTime,
  None

PostingRequest == [id : Nat, account : AccountId, amount : Int \ {0}]

\* A row of the postings table; `created' is when its transaction began.
Entry == [id : Nat, account : AccountId, amount : Int \ {0}, created : 0 .. MaxTime]

ASSUME AccountsAssumption ==
  /\ Posting \subseteq PostingRequest /\ IsFiniteSet(Posting)
  /\ Limit \in Nat \ {0} /\ MaxTime \in Nat
  /\ None \notin AccountId \cup Code \cup WalletId \cup PostingRequest \cup Entry

VARIABLES
  clock,
  account,     \* the code of each account that exists
  wallet,      \* the ledger account of each wallet that exists
  entries,     \* committed postings
  pc,          \* where each session is
  job,         \* its posting
  began,       \* when its transaction began
  guard,       \* the wallet row it has FOR UPDATE
  walk,        \* the listing of each client
  sound        \* history: wallets created on accounts without debts

rows == <<account, wallet, entries, sound>>
vars == <<clock, account, wallet, entries, pc, job, began, guard, walk, sound>>

\* The pages before the last, the last, and what there was at the first.
NoWalk == [account |-> None, cursor |-> None, shown |-> {}, page |-> {}, expected |-> {}]

TypeOK ==
  /\ clock \in 0 .. MaxTime
  /\ account \in [AccountId -> Code \cup {None}]
  /\ wallet \in [WalletId -> AccountId \cup {None}]
  /\ entries \subseteq Entry
  /\ \A d, e \in entries : d.id = e.id => d = e
  /\ pc \in [Session -> {"idle", "lock", "validate", "insert"}]
  /\ job \in [Session -> Posting \cup {None}]
  /\ began \in [Session -> 0 .. MaxTime]
  /\ guard \in [Session -> WalletId \cup {None}]
  /\ walk \in [Client -> [account : AccountId \cup {None}, cursor : entries \cup {None},
                          shown : SUBSET entries, page : SUBSET entries,
                          expected : SUBSET entries]]
  /\ sound \subseteq {w \in WalletId : wallet[w] # None}

Init ==
  /\ clock = 0
  /\ account = [a \in AccountId |-> None]
  /\ wallet = [w \in WalletId |-> None]
  /\ entries = {} /\ sound = {}
  /\ pc = [p \in Session |-> "idle"]
  /\ job = [p \in Session |-> None]
  /\ began = [p \in Session |-> 0]
  /\ guard = [p \in Session |-> None]
  /\ walk = [c \in Client |-> NoWalk]

-----------------------------------------------------------------------------
(* Master data *)

EntriesOf(a) == {e \in entries : e.account = a}

\* Totals are counted in minor units: a credit of n is n units, a debit of n is -n.
CreditUnits(a) == UNION {{e} \X (1 .. e.amount) : e \in EntriesOf(a)}
DebitUnits(a)  == UNION {{e} \X (1 .. -e.amount) : e \in EntriesOf(a)}

Balance(a) == Cardinality(CreditUnits(a)) - Cardinality(DebitUnits(a))

CreateAccount(a, code) ==
  /\ account[a] = None
  /\ \A b \in AccountId : account[b] # code
  /\ account' = [account EXCEPT ![a] = code]
  /\ UNCHANGED <<clock, wallet, entries, sound, pc, job, began, guard, walk>>

\* A debit that has looked for a wallet of the account and found none.
Unguarded(a) ==
  \E p \in Session :
    pc[p] = "insert" /\ guard[p] = None /\ job[p].account = a /\ job[p].amount < 0

\* The account may have any history; only that it exists and has no other wallet
\* is asked for.
CreateWallet(w, a) ==
  /\ wallet[w] = None
  /\ account[a] # None
  /\ \A v \in WalletId : wallet[v] # a
  /\ wallet' = [wallet EXCEPT ![w] = a]
  /\ sound' = IF Balance(a) >= 0 /\ ~Unguarded(a) THEN sound \cup {w} ELSE sound
  /\ UNCHANGED <<clock, account, entries, pc, job, began, guard, walk>>

-----------------------------------------------------------------------------
(* TransactionRepository.Post, as far as one account is concerned *)

Goto(p, label) == pc' = [pc EXCEPT ![p] = label]

BeginTx(p, j) ==
  /\ pc[p] = "idle"
  /\ Goto(p, "lock")
  /\ job' = [job EXCEPT ![p] = j]
  /\ began' = [began EXCEPT ![p] = clock]
  /\ UNCHANGED <<clock, rows, guard, walk>>

\* Commit or rollback.
EndTx(p) ==
  /\ Goto(p, "idle")
  /\ job' = [job EXCEPT ![p] = None]
  /\ began' = [began EXCEPT ![p] = 0]
  /\ guard' = [guard EXCEPT ![p] = None]
  /\ UNCHANGED <<clock, account, wallet, sound, walk>>

WalletsOn(a) == {w \in WalletId : wallet[w] = a}

\* Mutant of LockWallet: the wallet is read without FOR UPDATE.
ReadWallet(p) ==
  /\ pc[p] = "lock"
  /\ LET found == WalletsOn(job[p].account)
     IN  IF found = {}
         THEN Goto(p, "insert") /\ UNCHANGED guard
         ELSE /\ guard' = [guard EXCEPT ![p] = CHOOSE w \in found : TRUE]
              /\ Goto(p, "validate")
  /\ UNCHANGED <<clock, rows, job, began, walk>>

\* LockWalletByLedgerAccountID: an account without a wallet is not looked at again.
LockWallet(p) ==
  /\ pc[p] = "lock"
  /\ LET found == WalletsOn(job[p].account)
     IN  IF found = {}
         THEN Goto(p, "insert") /\ UNCHANGED guard
         ELSE /\ \A q \in Session : guard[q] \notin found
              /\ guard' = [guard EXCEPT ![p] = CHOOSE w \in found : TRUE]
              /\ Goto(p, "validate")
  /\ UNCHANGED <<clock, rows, job, began, walk>>

ValidateBalance(p) ==
  /\ pc[p] = "validate"
  /\ IF Balance(job[p].account) + job[p].amount >= 0
     THEN Goto(p, "insert") /\ UNCHANGED <<clock, rows, job, began, guard, walk>>
     ELSE EndTx(p) /\ UNCHANGED entries

\* Mutant of CreatePosting: the identifier of a posting need not be new.
CreatePostingAgain(p) ==
  /\ pc[p] = "insert"
  /\ EndTx(p)
  /\ LET j == job[p]
     IN  entries' =
           IF account[j.account] = None
           THEN entries
           ELSE entries \cup
                  {[id |-> j.id, account |-> j.account, amount |-> j.amount, created |-> began[p]]}

CreatePosting(p) ==
  /\ pc[p] = "insert"
  /\ EndTx(p)
  /\ LET j == job[p]
     IN  entries' =
           IF account[j.account] = None \/ \E e \in entries : e.id = j.id
           THEN entries
           ELSE entries \cup
                  {[id |-> j.id, account |-> j.account, amount |-> j.amount, created |-> began[p]]}

Abort(p) == pc[p] # "idle" /\ EndTx(p) /\ UNCHANGED entries

-----------------------------------------------------------------------------
(* GET /accounts/{accountID}/entries *)

\* ORDER BY created_at DESC, id DESC
Newer(d, e) == d.created > e.created \/ (d.created = e.created /\ d.id > e.id)

\* Mutant of After: the entry of the cursor is on the next page again.
FromCursor(cursor, e) == cursor = None \/ ~Newer(e, cursor)

\* ListAccountEntriesFirst, or the condition of ListAccountEntriesAfter.
After(cursor, e) == cursor = None \/ Newer(cursor, e)

\* The first entries, in this order, of those that are left.
ListEntries(a, cursor, limit) ==
  LET rest == {e \in EntriesOf(a) : After(cursor, e)}
  IN  {e \in rest : Cardinality({d \in rest : Newer(d, e)}) < limit}

\* The last entry of a page.
Oldest(E) == CHOOSE e \in E : \A d \in E : d = e \/ Newer(d, e)

\* Mutant of Page: the entry that tells of a next page becomes its cursor.
PageSkipping(a, cursor) ==
  LET found == ListEntries(a, cursor, Limit + 1)
  IN  IF Cardinality(found) <= Limit
      THEN [items |-> found, next |-> None]
      ELSE [items |-> found \ {Oldest(found)}, next |-> Oldest(found)]

\* ListAccountEntriesUseCase asks for one entry more than the page has.
Page(a, cursor) ==
  LET found == ListEntries(a, cursor, Limit + 1)
      items == found \ {Oldest(found)}
  IN  IF Cardinality(found) <= Limit
      THEN [items |-> found, next |-> None]
      ELSE [items |-> items, next |-> Oldest(items)]

Show(c, a, cursor, shown, expected) ==
  LET page == Page(a, cursor)
  IN  /\ walk' = [walk EXCEPT ![c] =
           [account |-> a, cursor |-> page.next, shown |-> shown, page |-> page.items,
            expected |-> expected]]
      /\ UNCHANGED <<clock, rows, pc, job, began, guard>>

FirstPage(c, a) == Show(c, a, None, {}, EntriesOf(a))

NextPage(c) ==
  LET w == walk[c]
  IN  /\ w.cursor # None
      /\ Show(c, w.account, w.cursor, w.shown \cup w.page, w.expected)

-----------------------------------------------------------------------------
Tick ==
  /\ clock < MaxTime
  /\ clock' = clock + 1
  /\ UNCHANGED <<rows, pc, job, began, guard, walk>>

Next ==
  \/ Tick
  \/ \E a \in AccountId, code \in Code : CreateAccount(a, code)
  \/ \E w \in WalletId, a \in AccountId : CreateWallet(w, a)
  \/ \E p \in Session :
       \/ \E j \in Posting : BeginTx(p, j)
       \/ LockWallet(p) \/ ValidateBalance(p) \/ CreatePosting(p) \/ Abort(p)
  \/ \E c \in Client : NextPage(c) \/ \E a \in AccountId : FirstPage(c, a)

Spec == Init /\ [][Next]_vars

-----------------------------------------------------------------------------
\* A client who follows the cursors to the last page has seen every entry there was
\* when the first page was read, though postings that began earlier, later or at
\* the same time committed between the pages.
WalksComplete ==
  \A c \in Client :
    walk[c].account # None /\ walk[c].cursor = None =>
      walk[c].expected \subseteq walk[c].shown \cup walk[c].page

\* A walk shows the newest entries first and none of them twice: those of each page
\* are older than all it has shown before.
WalksDescend ==
  \A c \in Client : \A d \in walk[c].shown, e \in walk[c].page : Newer(d, e)

\* A wallet created on an account that owed nothing, and had no debit under way that
\* had looked for a wallet in vain, is never overdrawn.  Nothing in the code asks for
\* this state of the account.
SoundWallets == \A w \in sound : Balance(wallet[w]) >= 0
=============================================================================
