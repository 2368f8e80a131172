--------------------------- MODULE AccountsProofs ---------------------------
(***************************************************************************)
(* What holds of accounts, their wallets and the listing of their entries, *)
(* for any accounts, postings, sessions and clients and any size of page:  *)
(* types, that a walk over the pages is complete and never goes back, and  *)
(* that a wallet which starts without debts stays without.                 *)
(***************************************************************************)
EXTENDS Accounts, Counting

-----------------------------------------------------------------------------
(* The inductive invariants *)

\* A walk stands at the oldest entry it has shown, and what it has still to show of
\* the entries there were is older.
Walking(c) ==
  /\ walk[c].expected \cup walk[c].shown \cup walk[c].page \subseteq EntriesOf(walk[c].account)
  /\ walk[c].cursor # None =>
       /\ \A e \in walk[c].shown \cup walk[c].page :
            e = walk[c].cursor \/ Newer(e, walk[c].cursor)
       /\ \A e \in walk[c].expected :
            e \in walk[c].shown \cup walk[c].page \/ Newer(walk[c].cursor, e)

\* A session has a posting, and from its look at the wallets on it has the row of the
\* wallet it found, if there was one.
Posts(p) ==
  /\ pc[p] # "idle" => job[p] \in Posting
  /\ pc[p] = "validate" => guard[p] # None
  /\ guard[p] # None =>
       pc[p] \in {"validate", "insert"} /\ wallet[guard[p]] = job[p].account

TypeInv ==
  /\ TypeOK
  /\ IsFiniteSet(entries)
  /\ \A p \in Session : Posts(p)
  /\ \A c \in Client : walk[c].cursor # None => walk[c].account # None

WalksInv ==
  /\ TypeInv /\ WalksComplete /\ WalksDescend
  /\ \A c \in Client : Walking(c)

\* An account has one wallet at most, and one session at most has its row.
Alone ==
  /\ \A v, w \in WalletId : wallet[v] = wallet[w] /\ wallet[v] # None => v = w
  /\ \A p, q \in Session : guard[p] = guard[q] /\ guard[p] # None => p = q

\* What is about to be inserted on the account of a sound wallet is a credit, or was
\* checked against a balance that is still there.
Payable ==
  \A w \in sound : \A p \in Session :
    pc[p] = "insert" /\ job[p].account = wallet[w] =>
      IF guard[p] = None
      THEN job[p].amount > 0
      ELSE Balance(wallet[w]) + job[p].amount >= 0

\* Every total is finite.
Counted == \A a \in AccountId : IsFiniteSet(CreditUnits(a)) /\ IsFiniteSet(DebitUnits(a))

SoundInv == TypeInv /\ Alone /\ Payable /\ Counted /\ SoundWallets

-----------------------------------------------------------------------------
(* The order of entries, and pages *)

\* The order of a listing is strict, and total among entries with identifiers of their
\* own.
LEMMA NewerIsOrder ==
  ASSUME NEW d \in Entry, NEW e \in Entry, NEW f \in Entry
  PROVE  /\ ~Newer(d, d)
         /\ Newer(d, e) /\ Newer(e, f) => Newer(d, f)
         /\ d.id # e.id => Newer(d, e) \/ Newer(e, d)
<1>1. /\ d.id \in Nat /\ e.id \in Nat /\ f.id \in Nat
      /\ d.created \in Nat /\ e.created \in Nat /\ f.created \in Nat
  BY AccountsAssumption DEF Entry
<1> QED
  BY <1>1 DEF Newer

\* A page has an oldest entry.
LEMMA OldestType ==
  ASSUME TypeOK, NEW E, E \subseteq entries, E # {}
  PROVE  /\ Oldest(E) \in E
         /\ \A d \in E : d = Oldest(E) \/ Newer(d, Oldest(E))
<1> DEFINE Times == {e.created : e \in E}
<1>1. \A e \in E : e \in Entry /\ e.created \in Nat /\ e.id \in Nat
  BY AccountsAssumption DEF TypeOK, Entry
<1>2. PICK t \in Times : \A u \in Times : t <= u
  <2>1. Times \subseteq Nat /\ Times # {}
    BY <1>1
  <2> HIDE DEF Times
  <2> QED
    BY <2>1, LeastNatural
<1> DEFINE Ids == {e.id : e \in {d \in E : d.created = t}}
<1>3. PICK i \in Ids : \A j \in Ids : i <= j
  <2>1. Ids \subseteq Nat /\ Ids # {}
    BY <1>1, <1>2
  <2> HIDE DEF Ids
  <2> QED
    BY <2>1, LeastNatural
<1>4. PICK e \in E : e.created = t /\ e.id = i
  BY <1>3
<1>5. ASSUME NEW d \in E PROVE d = e \/ Newer(d, e)
  <2>1. t <= d.created /\ (d.created = t => i <= d.id)
    BY <1>2, <1>3
  <2>2. d.id = e.id => d = e
    BY DEF TypeOK
  <2> QED
    BY <1>1, <1>4, <2>1, <2>2 DEF Newer
<1> QED
  BY <1>5 DEF Oldest

\* What follows a cursor in the listing of an account.
Rest(a, cursor) == {e \in EntriesOf(a) : After(cursor, e)}

\* A page is the newest part of what follows the cursor, and all of it when it has no
\* next page; otherwise its cursor is its oldest entry.
LEMMA PageType ==
  ASSUME TypeOK, IsFiniteSet(entries), NEW a, NEW cursor
  PROVE  LET page == Page(a, cursor)
         IN  /\ page.items \subseteq Rest(a, cursor)
             /\ page.next = None => page.items = Rest(a, cursor)
             /\ page.next # None =>
                  /\ page.next \in page.items
                  /\ \A e \in page.items : e = page.next \/ Newer(e, page.next)
                  /\ \A e \in Rest(a, cursor) \ page.items : Newer(page.next, e)
<1> DEFINE S == Rest(a, cursor)
           R == {x \in S \X S : Newer(x[1], x[2])}
           found == ListEntries(a, cursor, Limit + 1)
           items == found \ {Oldest(found)}
<1>1. Limit \in Nat /\ Limit > 0 /\ Limit + 1 \in Nat
  BY AccountsAssumption
<1>2. S \subseteq entries /\ S \subseteq Entry /\ IsFiniteSet(S)
  <2>1. S \subseteq entries
    BY DEF Rest, EntriesOf
  <2> HIDE DEF S
  <2> QED
    BY <2>1, FS_Subset DEF TypeOK
<1>3. \A x, y \in S : <<x, y>> \in R <=> Newer(x, y)
  OBVIOUS
<1>4. \A x \in S : <<x, x>> \notin R
  BY <1>2, <1>3, NewerIsOrder
<1>5. \A x, y \in S : x = y \/ <<x, y>> \in R \/ <<y, x>> \in R
  <2>1. \A x, y \in S : x.id = y.id => x = y
    BY <1>2 DEF TypeOK
  <2> QED
    BY <1>2, <1>3, <2>1, NewerIsOrder
<1>6. \A x, y, z \in S : <<x, y>> \in R /\ <<y, z>> \in R => <<x, z>> \in R
  BY <1>2, <1>3, NewerIsOrder
<1>7. found = FirstOf(S, R, Limit + 1)
  <2>1. ASSUME NEW e \in S PROVE {d \in S : Newer(d, e)} = BeforeIn(S, R, e)
    BY <2>1 DEF BeforeIn
  <2>2. found = {e \in S : Cardinality({d \in S : Newer(d, e)}) < Limit + 1}
    BY DEF ListEntries, Rest
  <2> HIDE DEF S, R, found
  <2>3. \A e : e \in found <=> e \in FirstOf(S, R, Limit + 1)
    BY <2>1, <2>2, Zenon DEF FirstOf
  <2> QED
    BY <2>3
<1> HIDE DEF R
<1>8. found \subseteq S /\ IsFiniteSet(found) /\ Cardinality(found) \in Nat
  <2>1. found \subseteq S
    BY <1>7 DEF FirstOf
  <2> HIDE DEF found, S
  <2> QED
    BY <1>2, <2>1, FS_Subset, FS_CardinalityType
<1>9. ASSUME NEW e \in S, e \notin found, NEW d \in found PROVE Newer(d, e)
  <2>1. <<d, e>> \in R
    <3> HIDE DEF S, found
    <3> QED
      BY <1>1, <1>2, <1>5, <1>6, <1>7, <1>9, FirstComeFirst
  <2> QED
    BY <1>3, <1>8, <1>9, <2>1
<1>10. CASE Cardinality(found) <= Limit
  <2>1. Cardinality(FirstOf(S, R, Limit + 1)) < Limit + 1
    BY <1>1, <1>7, <1>8, <1>10
  <2>2. found = S
    <3> HIDE DEF S, found
    <3> QED
      BY <1>1, <1>2, <1>4, <1>6, <1>7, <2>1, FirstAreAll
  <2>3. Page(a, cursor) = [items |-> found, next |-> None]
    BY <1>10 DEF Page
  <2> HIDE DEF S, found
  <2> QED
    BY <2>2, <2>3 DEF S
<1>11. CASE ~(Cardinality(found) <= Limit)
  <2>1. Page(a, cursor) = [items |-> items, next |-> Oldest(items)]
    BY <1>11 DEF Page
  <2> HIDE DEF S, found
  <2>2. found # {} /\ items # {}
    <3>1. Cardinality({}) = 0 /\ \A x : Cardinality({x}) = 1
      BY FS_EmptySet, FS_Singleton
    <3>2. Cardinality(found) # 0 /\ Cardinality(found) # 1
      BY <1>1, <1>8, <1>11
    <3> QED
      BY <3>1, <3>2
  <2>3. items \subseteq found
    OBVIOUS
  <2>4. /\ Oldest(found) \in found
        /\ \A d \in found : d = Oldest(found) \/ Newer(d, Oldest(found))
    BY <1>2, <1>8, <2>2, OldestType
  <2>5. /\ Oldest(items) \in items
        /\ \A d \in items : d = Oldest(items) \/ Newer(d, Oldest(items))
    <3> HIDE DEF items
    <3> QED
      BY <1>2, <1>8, <2>2, <2>3, OldestType
  <2>6. \A e \in S \ items : Newer(Oldest(items), e)
    BY <1>9, <2>4, <2>5
  <2>7. Oldest(items) # None
    BY <1>2, <1>8, <2>3, <2>5, AccountsAssumption
  <2> HIDE DEF items
  <2> QED
    BY <1>8, <2>1, <2>3, <2>5, <2>6, <2>7 DEF S
<1> QED
  BY <1>10, <1>11

-----------------------------------------------------------------------------
(* Entries and types *)

\* A posting is inserted as it was requested, under a new identifier, or not at all.
LEMMA CreatePostingType ==
  ASSUME TypeInv, NEW p \in Session, CreatePosting(p)
  PROVE  /\ EndTx(p) /\ pc[p] = "insert"
         /\ \/ entries' = entries
            \/ \E e \in Entry :
                 /\ entries' = entries \cup {e}
                 /\ \A d \in entries : d.id # e.id
                 /\ e.account = job[p].account /\ e.amount = job[p].amount
<1> DEFINE j == job[p]
           e == [id |-> j.id, account |-> j.account, amount |-> j.amount, created |-> began[p]]
<1>1. EndTx(p) /\ pc[p] = "insert"
  BY DEF CreatePosting
<1>2. j \in PostingRequest /\ began[p] \in 0 .. MaxTime
  BY <1>1, AccountsAssumption DEF TypeInv, TypeOK, Posts
<1>3. e \in Entry /\ e.id = j.id /\ e.account = j.account /\ e.amount = j.amount
  BY <1>2 DEF Entry, PostingRequest
<1>4. \/ entries' = entries
      \/ entries' = entries \cup {e} /\ \A d \in entries : d.id # j.id
  BY DEF CreatePosting
<1> HIDE DEF e, j
<1> QED
  BY <1>1, <1>3, <1>4 DEF j

\* Entries are only ever added, one at a time.
LEMMA EntriesGrow ==
  ASSUME TypeInv, [Next]_vars
  PROVE  /\ entries \subseteq entries' /\ entries' \subseteq Entry
         /\ IsFiniteSet(entries')
         /\ \A d, e \in entries' : d.id = e.id => d = e
         /\ entries' = entries \/ \E p \in Session : CreatePosting(p)
<1>1. CASE entries' = entries
  BY <1>1 DEF TypeInv, TypeOK
<1>2. ASSUME NEW p \in Session, CreatePosting(p)
      PROVE  /\ entries \subseteq entries' /\ entries' \subseteq Entry
             /\ IsFiniteSet(entries')
             /\ \A d, e \in entries' : d.id = e.id => d = e
  <2>1. PICK e \in Entry : entries' = entries \/
                            (entries' = entries \cup {e} /\ \A d \in entries : d.id # e.id)
    <3>1. CASE entries' = entries
      <4>1. job[p] \in PostingRequest /\ began[p] \in 0 .. MaxTime
        BY <1>2, AccountsAssumption DEF TypeInv, TypeOK, Posts, CreatePosting
      <4>2. [id |-> job[p].id, account |-> job[p].account, amount |-> job[p].amount,
             created |-> began[p]] \in Entry
        BY <4>1 DEF Entry, PostingRequest
      <4> QED
        BY <3>1, <4>2
    <3> QED
      BY <1>2, <3>1, CreatePostingType
  <2>2. CASE entries' = entries \cup {e} /\ \A d \in entries : d.id # e.id
    <3>1. IsFiniteSet(entries')
      BY <2>2, FS_AddElement DEF TypeInv
    <3> QED
      BY <2>2, <3>1 DEF TypeInv, TypeOK
  <2> QED
    BY <1>1, <2>1, <2>2 DEF TypeInv, TypeOK
<1>3. ASSUME NEW p \in Session,
             (\E j \in Posting : BeginTx(p, j)) \/ LockWallet(p) \/ ValidateBalance(p) \/ Abort(p)
      PROVE  entries' = entries
  BY <1>3 DEF BeginTx, LockWallet, ValidateBalance, Abort, rows
<1>4. ASSUME \/ UNCHANGED vars \/ Tick
             \/ \E a \in AccountId, code \in Code : CreateAccount(a, code)
             \/ \E w \in WalletId, a \in AccountId : CreateWallet(w, a)
             \/ \E c \in Client : NextPage(c) \/ \E a \in AccountId : FirstPage(c, a)
      PROVE  entries' = entries
  BY <1>4 DEF vars, Tick, CreateAccount, CreateWallet, NextPage, FirstPage, Show, rows
<1> QED
  BY <1>1, <1>2, <1>3, <1>4 DEF Next

\* What a client is shown is in the database.
LEMMA ShowType ==
  ASSUME TypeInv, NEW c \in Client, NEW a \in AccountId, NEW cursor,
         NEW shown \in SUBSET entries, NEW expected \in SUBSET entries,
         Show(c, a, cursor, shown, expected)
  PROVE  TypeOK'
<1> DEFINE page == Page(a, cursor)
           Walk == [account : AccountId \cup {None}, cursor : entries \cup {None},
                    shown : SUBSET entries, page : SUBSET entries, expected : SUBSET entries]
           w == [account |-> a, cursor |-> page.next, shown |-> shown, page |-> page.items,
                 expected |-> expected]
<1>1. page.items \subseteq entries /\ page.next \in entries \cup {None}
  <2>1. /\ page.items \subseteq Rest(a, cursor)
        /\ page.next # None => page.next \in page.items
    BY PageType DEF TypeInv
  <2> HIDE DEF page
  <2> QED
    BY <2>1 DEF Rest, EntriesOf
<1>2. walk' = [walk EXCEPT ![c] = w] /\ UNCHANGED <<clock, rows, pc, job, began, guard>>
  BY DEF Show
<1> HIDE DEF page
<1>3. w \in Walk
  BY <1>1
<1> HIDE DEF w
<1>4. walk' \in [Client -> Walk]
  BY <1>2, <1>3 DEF TypeInv, TypeOK
<1> QED
  BY <1>2, <1>4 DEF TypeInv, TypeOK, rows

\* The variables keep their types.
LEMMA TypeStep ==
  ASSUME TypeInv, [Next]_vars
  PROVE  TypeOK'
<1> USE AccountsAssumption
<1>1. CASE UNCHANGED vars
  BY <1>1 DEF vars, TypeInv, TypeOK
<1>2. CASE Tick
  BY <1>2 DEF Tick, rows, TypeInv, TypeOK
<1>3. ASSUME NEW a \in AccountId, NEW code \in Code, CreateAccount(a, code) PROVE TypeOK'
  BY <1>3 DEF CreateAccount, TypeInv, TypeOK
<1>4. ASSUME NEW w \in WalletId, NEW a \in AccountId, CreateWallet(w, a) PROVE TypeOK'
  <2>1. wallet' = [wallet EXCEPT ![w] = a] /\ wallet \in [WalletId -> AccountId \cup {None}]
    BY <1>4 DEF CreateWallet, TypeInv, TypeOK
  <2>2. /\ wallet' \in [WalletId -> AccountId \cup {None}] /\ wallet'[w] = a /\ a # None
        /\ \A v \in WalletId : wallet[v] # None => wallet'[v] # None
    BY <2>1
  <2>3. sound' \subseteq sound \cup {w}
    BY <1>4 DEF CreateWallet
  <2>4. sound' \subseteq {v \in WalletId : wallet'[v] # None}
    BY <2>2, <2>3 DEF TypeInv, TypeOK
  <2> QED
    BY <1>4, <2>2, <2>4 DEF CreateWallet, TypeInv, TypeOK
<1>5. ASSUME NEW p \in Session, NEW j \in Posting, BeginTx(p, j) PROVE TypeOK'
  BY <1>5 DEF BeginTx, Goto, rows, TypeInv, TypeOK
<1>6. ASSUME NEW p \in Session, LockWallet(p) PROVE TypeOK'
  <2>1. guard' \in [Session -> WalletId \cup {None}]
    <3>1. WalletsOn(job[p].account) \subseteq WalletId
      BY DEF WalletsOn
    <3>2. guard' = guard \/ \E w \in WalletId : guard' = [guard EXCEPT ![p] = w]
      BY <1>6, <3>1 DEF LockWallet
    <3> QED
      BY <3>2 DEF TypeInv, TypeOK
  <2>2. pc' \in [Session -> {"idle", "lock", "validate", "insert"}]
    BY <1>6 DEF LockWallet, Goto, TypeInv, TypeOK
  <2> QED
    BY <1>6, <2>1, <2>2 DEF LockWallet, rows, TypeInv, TypeOK
<1>7. ASSUME NEW p \in Session, EndTx(p), entries \subseteq entries', entries' \subseteq Entry,
             \A d, e \in entries' : d.id = e.id => d = e
      PROVE  TypeOK'
  <2>1. 0 \in 0 .. MaxTime
    OBVIOUS
  <2>2. /\ pc' \in [Session -> {"idle", "lock", "validate", "insert"}]
        /\ job' \in [Session -> Posting \cup {None}]
        /\ began' \in [Session -> 0 .. MaxTime]
        /\ guard' \in [Session -> WalletId \cup {None}]
    BY <1>7, <2>1 DEF EndTx, Goto, TypeInv, TypeOK
  <2>3. walk' \in [Client -> [account : AccountId \cup {None}, cursor : entries' \cup {None},
                              shown : SUBSET entries', page : SUBSET entries',
                              expected : SUBSET entries']]
    BY <1>7 DEF EndTx, TypeInv, TypeOK
  <2> QED
    BY <1>7, <2>2, <2>3 DEF EndTx, TypeInv, TypeOK
<1>8. ASSUME NEW p \in Session, ValidateBalance(p) PROVE TypeOK'
  <2>1. CASE EndTx(p) /\ UNCHANGED entries
    BY <1>7, <2>1 DEF TypeInv, TypeOK
  <2>2. CASE Goto(p, "insert") /\ UNCHANGED <<clock, rows, job, began, guard, walk>>
    BY <2>2 DEF Goto, rows, TypeInv, TypeOK
  <2> QED
    BY <1>8, <2>1, <2>2 DEF ValidateBalance
<1>9. ASSUME NEW p \in Session, CreatePosting(p) \/ Abort(p) PROVE TypeOK'
  BY <1>7, <1>9, EntriesGrow DEF CreatePosting, Abort
<1>10. ASSUME NEW c \in Client, NEW a \in AccountId, FirstPage(c, a) PROVE TypeOK'
  <2>1. {} \in SUBSET entries /\ EntriesOf(a) \in SUBSET entries
    BY DEF EntriesOf
  <2> QED
    BY <1>10, <2>1, ShowType DEF FirstPage
<1>11. ASSUME NEW c \in Client, NextPage(c) PROVE TypeOK'
  <2>1. /\ walk[c].account \in AccountId /\ walk[c].expected \in SUBSET entries
        /\ walk[c].shown \cup walk[c].page \in SUBSET entries
    BY <1>11 DEF NextPage, TypeInv, TypeOK
  <2> QED
    BY <1>11, <2>1, ShowType DEF NextPage
<1> QED
  BY <1>1, <1>2, <1>3, <1>4, <1>5, <1>6, <1>8, <1>9, <1>10, <1>11 DEF Next

\* A session keeps what it has of its posting and its wallet.
LEMMA PostsStep ==
  ASSUME TypeInv, [Next]_vars, NEW p \in Session
  PROVE  Posts(p)'
<1> USE AccountsAssumption
<1>1. /\ Posts(p) /\ \A q \in Session : guard[q] \in WalletId \cup {None}
      /\ pc \in [Session -> {"idle", "lock", "validate", "insert"}]
      /\ job \in [Session -> Posting \cup {None}]
      /\ guard \in [Session -> WalletId \cup {None}]
      /\ wallet \in [WalletId -> AccountId \cup {None}]
  BY DEF TypeInv, TypeOK
<1>2. CASE UNCHANGED <<pc, job, guard, wallet>>
  BY <1>1, <1>2 DEF Posts
<1>3. ASSUME NEW w \in WalletId, NEW a \in AccountId, CreateWallet(w, a) PROVE Posts(p)'
  <2>1. UNCHANGED <<pc, job, guard>> /\ wallet' = [wallet EXCEPT ![w] = a] /\ wallet[w] = None
    BY <1>3 DEF CreateWallet
  <2>2. guard[p] # None => wallet'[guard[p]] = wallet[guard[p]]
    <3>1. guard[p] # None => pc[p] # "idle" /\ wallet[guard[p]] = job[p].account
      BY <1>1 DEF Posts
    <3>2. pc[p] # "idle" => job[p].account \in AccountId
      BY <1>1 DEF Posts, PostingRequest
    <3>3. guard[p] # None => guard[p] # w
      BY <2>1, <3>1, <3>2
    <3> QED
      BY <1>1, <2>1, <3>3
  <2> QED
    BY <1>1, <2>1, <2>2 DEF Posts
<1>4. ASSUME NEW q \in Session, p # q,
             \/ \E j \in Posting : BeginTx(q, j)
             \/ LockWallet(q) \/ ValidateBalance(q) \/ CreatePosting(q) \/ Abort(q)
      PROVE  Posts(p)'
  <2>1. pc'[p] = pc[p] /\ job'[p] = job[p] /\ guard'[p] = guard[p] /\ wallet' = wallet
    BY <1>1, <1>4
    DEF BeginTx, LockWallet, ValidateBalance, CreatePosting, Abort, EndTx, Goto, rows
  <2> QED
    BY <1>1, <2>1 DEF Posts
<1>5. ASSUME NEW j \in Posting, BeginTx(p, j) PROVE Posts(p)'
  <2>1. pc[p] = "idle" /\ pc'[p] = "lock" /\ job'[p] = j /\ guard' = guard
    BY <1>1, <1>5 DEF BeginTx, Goto
  <2> QED
    BY <1>1, <2>1 DEF Posts
<1>6. CASE LockWallet(p)
  <2>1. pc[p] = "lock" /\ job' = job /\ wallet' = wallet /\ guard[p] = None
    BY <1>1, <1>6 DEF LockWallet, rows, Posts
  <2>2. CASE WalletsOn(job[p].account) = {}
    <3>1. pc'[p] = "insert" /\ guard' = guard
      BY <1>1, <1>6, <2>2 DEF LockWallet, Goto
    <3> QED
      BY <1>1, <2>1, <3>1 DEF Posts
  <2>3. CASE WalletsOn(job[p].account) # {}
    <3>1. PICK w \in WalletsOn(job[p].account) : guard' = [guard EXCEPT ![p] = w]
      BY <1>6, <2>3 DEF LockWallet
    <3>2. pc'[p] = "validate" /\ guard'[p] = w /\ w \in WalletId /\ wallet[w] = job[p].account
      BY <1>1, <1>6, <2>3, <3>1 DEF LockWallet, Goto, WalletsOn
    <3> QED
      BY <1>1, <2>1, <3>2 DEF Posts
  <2> QED
    BY <2>2, <2>3
<1>7. CASE EndTx(p)
  BY <1>1, <1>7 DEF EndTx, Goto, Posts
<1>8. CASE ValidateBalance(p)
  <2>1. CASE EndTx(p)
    BY <1>7, <2>1
  <2>2. CASE Goto(p, "insert") /\ UNCHANGED <<clock, rows, job, began, guard, walk>>
    BY <1>1, <1>8, <2>2 DEF Goto, rows, Posts, ValidateBalance
  <2> QED
    BY <1>8, <2>1, <2>2 DEF ValidateBalance
<1>9. ASSUME \/ UNCHANGED vars \/ Tick
             \/ \E a \in AccountId, code \in Code : CreateAccount(a, code)
             \/ \E c \in Client : NextPage(c) \/ \E a \in AccountId : FirstPage(c, a)
      PROVE  UNCHANGED <<pc, job, guard, wallet>>
  BY <1>9 DEF vars, Tick, CreateAccount, NextPage, FirstPage, Show, rows
<1> QED
  BY <1>2, <1>3, <1>4, <1>5, <1>6, <1>7, <1>8, <1>9 DEF Next, CreatePosting, Abort

\* What one step does to the walks.
LEMMA WalksOfAStep ==
  ASSUME TypeInv, [Next]_vars
  PROVE  \/ walk' = walk
         \/ \E c \in Client, a \in AccountId : FirstPage(c, a)
         \/ \E c \in Client : NextPage(c)
<1>1. ASSUME \/ UNCHANGED vars \/ Tick
             \/ \E a \in AccountId, code \in Code : CreateAccount(a, code)
             \/ \E w \in WalletId, a \in AccountId : CreateWallet(w, a)
             \/ \E p \in Session :
                  \/ \E j \in Posting : BeginTx(p, j)
                  \/ LockWallet(p) \/ ValidateBalance(p) \/ CreatePosting(p) \/ Abort(p)
      PROVE  walk' = walk
  BY <1>1 DEF vars, Tick, CreateAccount, CreateWallet, BeginTx, LockWallet, ValidateBalance,
              CreatePosting, Abort, EndTx
<1> QED
  BY <1>1 DEF Next

\* What a page does to the walk of its client.
LEMMA ShowStep ==
  ASSUME TypeInv, NEW c \in Client, NEW a, NEW cursor, NEW shown, NEW expected,
         Show(c, a, cursor, shown, expected)
  PROVE  LET page == Page(a, cursor)
         IN  /\ walk'[c].account = a /\ walk'[c].cursor = page.next
             /\ walk'[c].shown = shown /\ walk'[c].page = page.items
             /\ walk'[c].expected = expected
             /\ \A d \in Client : d # c => walk'[d] = walk[d]
             /\ entries' = entries
  BY DEF Show, TypeInv, TypeOK, rows

LEMMA TypeInvStep ==
  ASSUME TypeInv, [Next]_vars
  PROVE  TypeInv'
<1>1. ASSUME NEW c \in Client PROVE (walk[c].cursor # None => walk[c].account # None)'
  <2>1. CASE walk' = walk
    BY <2>1 DEF TypeInv
  <2>2. ASSUME NEW d \in Client, NEW a \in AccountId, FirstPage(d, a)
        PROVE  walk'[c] = walk[c] \/ walk'[c].account = a
    BY <2>2, ShowStep DEF FirstPage
  <2>3. ASSUME NEW d \in Client, NextPage(d)
        PROVE  walk'[c] = walk[c] \/ (walk'[c].account = walk[c].account /\ walk[c].account # None)
    <3>1. walk[d].account # None
      BY <2>3 DEF NextPage, TypeInv
    <3> QED
      BY <2>3, <3>1, ShowStep DEF NextPage
  <2> QED
    BY <2>1, <2>2, <2>3, WalksOfAStep, AccountsAssumption DEF TypeInv
<1> QED
  BY <1>1, TypeStep, PostsStep, EntriesGrow DEF TypeInv

-----------------------------------------------------------------------------
(* Walks *)

\* A page keeps a walk complete and in order.
LEMMA WalksStep ==
  ASSUME WalksInv, [Next]_vars, NEW c \in Client
  PROVE  /\ Walking(c)'
         /\ (walk[c].account # None /\ walk[c].cursor = None =>
               walk[c].expected \subseteq walk[c].shown \cup walk[c].page)'
         /\ (\A d \in walk[c].shown, e \in walk[c].page : Newer(d, e))'
<1> USE AccountsAssumption
<1> DEFINE Complete(w) == w.account # None /\ w.cursor = None => w.expected \subseteq w.shown \cup w.page
           Descends(w) == \A d \in w.shown, e \in w.page : Newer(d, e)
           At(w, E) ==
             /\ w.expected \cup w.shown \cup w.page \subseteq {e \in E : e.account = w.account}
             /\ w.cursor # None =>
                  /\ \A e \in w.shown \cup w.page : e = w.cursor \/ Newer(e, w.cursor)
                  /\ \A e \in w.expected : e \in w.shown \cup w.page \/ Newer(w.cursor, e)
           Good(w, E) == Complete(w) /\ Descends(w) /\ At(w, E)
<1>1. \A d \in Client : Good(walk[d], entries)
  BY DEF WalksInv, Walking, WalksComplete, WalksDescend, EntriesOf
<1>2. SUFFICES Good(walk'[c], entries')
  BY DEF Walking, EntriesOf
<1>3. entries \subseteq entries' /\ entries \subseteq Entry
  BY EntriesGrow DEF WalksInv, TypeInv, TypeOK
<1>4. CASE walk'[c] = walk[c]
  BY <1>1, <1>3, <1>4
\* What the two kinds of pages have in common.
<1>5. ASSUME NEW a \in AccountId, NEW cursor \in entries \cup {None},
             NEW shown \in SUBSET EntriesOf(a), NEW expected \in SUBSET EntriesOf(a),
             Show(c, a, cursor, shown, expected),
             cursor = None => shown = {},
             cursor # None =>
               /\ \A e \in shown : e = cursor \/ Newer(e, cursor)
               /\ \A e \in expected : e \in shown \/ Newer(cursor, e)
      PROVE  Good(walk'[c], entries')
  <2> DEFINE page == Page(a, cursor)
  <2>1. /\ page.items \subseteq Rest(a, cursor)
        /\ page.next = None => page.items = Rest(a, cursor)
        /\ page.next # None =>
             /\ page.next \in page.items
             /\ \A e \in page.items : e = page.next \/ Newer(e, page.next)
             /\ \A e \in Rest(a, cursor) \ page.items : Newer(page.next, e)
    BY PageType DEF WalksInv, TypeInv
  <2>2. /\ walk'[c].account = a /\ walk'[c].cursor = page.next
        /\ walk'[c].shown = shown /\ walk'[c].page = page.items
        /\ walk'[c].expected = expected /\ entries' = entries
    BY <1>5, ShowStep DEF WalksInv
  <2> HIDE DEF page
  <2>3. /\ \A e \in Rest(a, cursor) : e \in EntriesOf(a) /\ e \in Entry /\ After(cursor, e)
        /\ \A e \in EntriesOf(a) : After(cursor, e) => e \in Rest(a, cursor)
        /\ \A e \in EntriesOf(a) : e \in Entry
    BY <1>3 DEF Rest, EntriesOf
  <2>4. \A e \in expected : e \in shown \/ e \in Rest(a, cursor)
    BY <1>5, <2>3 DEF After
  <2>5. \A d \in shown, e \in Rest(a, cursor) : Newer(d, e)
    <3>1. \A d \in shown : d \in Entry /\ cursor # None /\ (d = cursor \/ Newer(d, cursor))
      BY <1>5, <2>3
    <3>2. \A e \in Rest(a, cursor) : cursor # None => e \in Entry /\ Newer(cursor, e)
      BY <2>3 DEF After
    <3> QED
      BY <1>3, <1>5, <3>1, <3>2, NewerIsOrder
  <2>6. Descends(walk'[c])
    BY <2>1, <2>2, <2>5
  <2>7. Complete(walk'[c])
    BY <2>1, <2>2, <2>4
  <2>8. At(walk'[c], entries')
    <3>1. expected \cup shown \cup page.items \subseteq {e \in entries : e.account = a}
      BY <2>1, <2>3 DEF EntriesOf
    <3>2. ASSUME page.next # None
          PROVE  /\ \A e \in shown \cup page.items : e = page.next \/ Newer(e, page.next)
                 /\ \A e \in expected : e \in shown \cup page.items \/ Newer(page.next, e)
      BY <2>1, <2>4, <2>5, <3>2
    <3> QED
      BY <2>2, <3>1, <3>2
  <2> QED
    BY <2>6, <2>7, <2>8
<1>6. ASSUME NEW a \in AccountId, FirstPage(c, a) PROVE Good(walk'[c], entries')
  <2>1. None \in entries \cup {None} /\ {} \in SUBSET EntriesOf(a)
        /\ EntriesOf(a) \in SUBSET EntriesOf(a)
    OBVIOUS
  <2>2. Show(c, a, None, {}, EntriesOf(a))
    BY <1>6 DEF FirstPage
  <2> HIDE DEF Good
  <2> QED
    BY <1>5, <2>1, <2>2
<1>7. ASSUME NextPage(c) PROVE Good(walk'[c], entries')
  <2> DEFINE w == walk[c]
  <2>1. /\ w.cursor # None /\ w.cursor \in entries \cup {None} /\ w.account \in AccountId
        /\ Show(c, w.account, w.cursor, w.shown \cup w.page, w.expected)
    BY <1>7 DEF NextPage, WalksInv, TypeInv, TypeOK
  <2>2. At(w, entries)
    BY <1>1
  <2>3. /\ w.shown \cup w.page \in SUBSET EntriesOf(w.account)
        /\ w.expected \in SUBSET EntriesOf(w.account)
    BY <2>2 DEF EntriesOf
  <2> HIDE DEF w
  <2>4. /\ \A e \in w.shown \cup w.page : e = w.cursor \/ Newer(e, w.cursor)
        /\ \A e \in w.expected : e \in w.shown \cup w.page \/ Newer(w.cursor, e)
    BY <2>1, <2>2
  <2> HIDE DEF Good
  <2> QED
    BY <1>5, <2>1, <2>3, <2>4
<1>8. ASSUME NEW d \in Client, d # c, NextPage(d) \/ \E a \in AccountId : FirstPage(d, a)
      PROVE  walk'[c] = walk[c]
  BY <1>8 DEF NextPage, FirstPage, Show, WalksInv, TypeInv, TypeOK
<1> HIDE DEF Good
<1> QED
  BY <1>4, <1>6, <1>7, <1>8, WalksOfAStep DEF WalksInv

-----------------------------------------------------------------------------
(* Balances *)

\* A total with one more posting.
LEMMA UnitsAdded ==
  ASSUME TypeInv, Counted, NEW a \in AccountId, NEW e \in Entry,
         entries' = entries \cup {e}, e \notin entries
  PROVE  /\ IsFiniteSet(CreditUnits(a)') /\ IsFiniteSet(DebitUnits(a)')
         /\ Balance(a) \in Int
         /\ e.account = a => Balance(a)' = Balance(a) + e.amount
         /\ e.account # a => Balance(a)' = Balance(a)
<1> DEFINE C == CreditUnits(a)
           D == DebitUnits(a)
           C1 == CreditUnits(a)'
           D1 == DebitUnits(a)'
<1>1. IsFiniteSet(C) /\ IsFiniteSet(D) /\ Cardinality(C) \in Nat /\ Cardinality(D) \in Nat
  BY FS_CardinalityType DEF Counted
<1>2. e.amount \in Int /\ e.amount # 0
  BY DEF Entry
<1>3. Balance(a) = Cardinality(C) - Cardinality(D) /\ Balance(a)' = Cardinality(C1) - Cardinality(D1)
  BY DEF Balance
<1>4. CASE e.account # a
  <2>1. EntriesOf(a)' = EntriesOf(a)
    BY <1>4 DEF EntriesOf
  <2>2. C1 = C /\ D1 = D
    BY <2>1 DEF CreditUnits, DebitUnits
  <2> HIDE DEF C, D, C1, D1
  <2> QED
    BY <1>1, <1>3, <1>4, <2>2 DEF C, D, C1, D1
<1>5. CASE e.account = a
  <2>1. EntriesOf(a)' = EntriesOf(a) \cup {e} /\ e \notin EntriesOf(a)
    BY <1>5 DEF EntriesOf
  <2>2. C1 = C \cup {e} \X (1 .. e.amount) /\ D1 = D \cup {e} \X (1 .. -e.amount)
    BY <2>1 DEF CreditUnits, DebitUnits
  <2>3. /\ C \cap ({e} \X (1 .. e.amount)) = {}
        /\ D \cap ({e} \X (1 .. -e.amount)) = {}
    BY <2>1 DEF CreditUnits, DebitUnits
  <2> HIDE DEF C, D, C1, D1
  <2>4. CASE e.amount > 0
    <3>1. e.amount \in Nat /\ 1 .. -e.amount = {}
      BY <1>2, <2>4
    <3>2. D1 = D
      BY <2>2, <3>1
    <3>3. IsFiniteSet(C1) /\ Cardinality(C1) = Cardinality(C) + e.amount
      BY <1>1, <2>2, <2>3, <3>1, BlockAdded
    <3> QED
      BY <1>1, <1>2, <1>3, <1>5, <3>2, <3>3 DEF C, D, C1, D1
  <2>5. CASE e.amount < 0
    <3>1. -e.amount \in Nat /\ 1 .. e.amount = {}
      BY <1>2, <2>5
    <3>2. C1 = C
      BY <2>2, <3>1
    <3>3. IsFiniteSet(D1) /\ Cardinality(D1) = Cardinality(D) + -e.amount
      BY <1>1, <2>2, <2>3, <3>1, BlockAdded
    <3> QED
      BY <1>1, <1>2, <1>3, <1>5, <3>2, <3>3 DEF C, D, C1, D1
  <2> QED
    BY <1>2, <2>4, <2>5
<1> QED
  BY <1>4, <1>5

\* What one step does to the balances: nothing, or a session inserts its posting.
LEMMA BalanceStep ==
  ASSUME TypeInv, Counted, [Next]_vars
  PROVE  /\ Counted'
         /\ \A a \in AccountId : Balance(a) \in Int
         /\ \/ \A a \in AccountId : Balance(a)' = Balance(a)
            \/ \E p \in Session :
                 /\ EndTx(p) /\ pc[p] = "insert"
                 /\ \A a \in AccountId :
                      Balance(a)' = IF job[p].account = a
                                    THEN Balance(a) + job[p].amount ELSE Balance(a)
<1>1. \A a \in AccountId : Balance(a) \in Int
  <2>1. ASSUME NEW a \in AccountId
        PROVE  Cardinality(CreditUnits(a)) \in Nat /\ Cardinality(DebitUnits(a)) \in Nat
    BY FS_CardinalityType DEF Counted
  <2> QED
    BY <2>1 DEF Balance
<1>2. CASE entries' = entries
  <2>1. \A a : EntriesOf(a)' = EntriesOf(a)
    BY <1>2 DEF EntriesOf
  <2>2. \A a : CreditUnits(a)' = CreditUnits(a) /\ DebitUnits(a)' = DebitUnits(a)
    BY <2>1 DEF CreditUnits, DebitUnits
  <2> QED
    BY <1>1, <2>2 DEF Counted, Balance
<1>3. ASSUME NEW p \in Session, CreatePosting(p), entries' # entries
      PROVE  /\ Counted' /\ EndTx(p) /\ pc[p] = "insert"
             /\ \A a \in AccountId :
                  Balance(a)' = IF job[p].account = a
                                THEN Balance(a) + job[p].amount ELSE Balance(a)
  <2>1. PICK e \in Entry :
          /\ entries' = entries \cup {e} /\ e \notin entries
          /\ e.account = job[p].account /\ e.amount = job[p].amount
    BY <1>3, CreatePostingType
  <2>2. Counted'
    BY <2>1, UnitsAdded DEF Counted
  <2>3. EndTx(p) /\ pc[p] = "insert"
    BY <1>3, CreatePostingType
  <2>4. \A a \in AccountId :
          Balance(a)' = IF e.account = a THEN Balance(a) + e.amount ELSE Balance(a)
    BY <2>1, UnitsAdded
  <2> QED
    BY <2>1, <2>2, <2>3, <2>4
<1> QED
  BY <1>1, <1>2, <1>3, EntriesGrow

-----------------------------------------------------------------------------
(* Sound wallets *)

\* The types the steps below rely on.
LEMMA SessionTypes ==
  ASSUME TypeInv
  PROVE  /\ pc \in [Session -> {"idle", "lock", "validate", "insert"}]
         /\ job \in [Session -> Posting \cup {None}]
         /\ guard \in [Session -> WalletId \cup {None}]
         /\ wallet \in [WalletId -> AccountId \cup {None}]
         /\ None \notin WalletId /\ None \notin AccountId
         /\ \A p \in Session : pc[p] # "idle" =>
              job[p].account \in AccountId /\ job[p].amount \in Int /\ job[p].amount # 0
         /\ \A w \in sound : w \in WalletId /\ wallet[w] \in AccountId
<1>1. \A p \in Session : pc[p] # "idle" => job[p] \in PostingRequest
  BY AccountsAssumption DEF TypeInv, Posts
<1>2. \A p \in Session : pc[p] # "idle" =>
        job[p].account \in AccountId /\ job[p].amount \in Int /\ job[p].amount # 0
  BY <1>1 DEF PostingRequest
<1> QED
  BY <1>2, AccountsAssumption DEF TypeInv, TypeOK

\* Wallets of one account, and holders of one row, stay one.
LEMMA AloneStep ==
  ASSUME TypeInv, Alone, [Next]_vars
  PROVE  Alone'
<1> DEFINE Types == /\ guard \in [Session -> WalletId \cup {None}]
                    /\ wallet \in [WalletId -> AccountId \cup {None}]
                    /\ None \notin WalletId /\ None \notin AccountId
<1>1. Types
  BY SessionTypes
<1>2. CASE UNCHANGED <<guard, wallet>>
  BY <1>2 DEF Alone
<1>3. ASSUME NEW w \in WalletId, NEW a \in AccountId, CreateWallet(w, a) PROVE Alone'
  <2>1. guard' = guard /\ wallet' = [wallet EXCEPT ![w] = a] /\ \A v \in WalletId : wallet[v] # a
    BY <1>3 DEF CreateWallet
  <2> QED
    BY <1>1, <2>1 DEF Alone
<1>4. ASSUME NEW p \in Session, LockWallet(p) PROVE Alone'
  <2>1. wallet' = wallet
    BY <1>4 DEF LockWallet, rows
  <2>2. \/ guard' = guard
        \/ \E w \in WalletId :
             guard' = [guard EXCEPT ![p] = w] /\ \A q \in Session : guard[q] # w
    <3>1. CASE WalletsOn(job[p].account) = {}
      BY <1>4, <3>1 DEF LockWallet
    <3>2. CASE WalletsOn(job[p].account) # {}
      <4>1. PICK w \in WalletsOn(job[p].account) :
              /\ guard' = [guard EXCEPT ![p] = w]
              /\ \A q \in Session : guard[q] \notin WalletsOn(job[p].account)
        BY <1>4, <3>2 DEF LockWallet
      <4> QED
        BY <4>1 DEF WalletsOn
    <3> QED
      BY <3>1, <3>2
  <2> QED
    BY <1>1, <2>1, <2>2 DEF Alone
<1>5. ASSUME NEW p \in Session, EndTx(p) PROVE Alone'
  <2>1. wallet' = wallet /\ guard' = [guard EXCEPT ![p] = None]
    BY <1>5 DEF EndTx
  <2> QED
    BY <1>1, <2>1 DEF Alone
<1>6. ASSUME \/ UNCHANGED vars \/ Tick
             \/ \E a \in AccountId, code \in Code : CreateAccount(a, code)
             \/ \E p \in Session, j \in Posting : BeginTx(p, j)
             \/ \E c \in Client : NextPage(c) \/ \E a \in AccountId : FirstPage(c, a)
      PROVE  UNCHANGED <<guard, wallet>>
  BY <1>6 DEF vars, Tick, CreateAccount, BeginTx, NextPage, FirstPage, Show, rows
<1>7. ASSUME NEW p \in Session, ValidateBalance(p)
      PROVE  EndTx(p) \/ UNCHANGED <<guard, wallet>>
  BY <1>7 DEF ValidateBalance, rows
<1>8. ASSUME NEW p \in Session, CreatePosting(p) \/ Abort(p) PROVE EndTx(p)
  BY <1>8 DEF CreatePosting, Abort
<1> QED
  BY <1>2, <1>3, <1>4, <1>5, <1>6, <1>7, <1>8 DEF Next

\* A session that comes to its insert on the account of a sound wallet has found it,
\* and checked its balance.
LEMMA InsertStep ==
  ASSUME SoundInv, [Next]_vars, NEW p \in Session, pc'[p] = "insert",
         NEW w \in sound, job'[p].account = wallet[w]
  PROVE  /\ job'[p] = job[p] /\ guard'[p] = guard[p]
         /\ \/ pc[p] = "insert"
            \/ /\ pc[p] = "validate" /\ guard[p] # None
               /\ Balance(job[p].account) + job[p].amount >= 0
               /\ entries' = entries
<1>1. /\ pc \in [Session -> {"idle", "lock", "validate", "insert"}]
      /\ job \in [Session -> Posting \cup {None}]
      /\ guard \in [Session -> WalletId \cup {None}]
      /\ w \in WalletId
  BY SessionTypes DEF SoundInv
<1>2. CASE UNCHANGED <<pc, job, guard>>
  BY <1>2
<1>3. ASSUME NEW q \in Session, q # p,
             \/ \E j \in Posting : BeginTx(q, j)
             \/ LockWallet(q) \/ ValidateBalance(q) \/ CreatePosting(q) \/ Abort(q)
      PROVE  pc'[p] = pc[p] /\ job'[p] = job[p] /\ guard'[p] = guard[p]
  BY <1>1, <1>3 DEF BeginTx, LockWallet, ValidateBalance, CreatePosting, Abort, EndTx, Goto
<1>4. ASSUME NEW j \in Posting, BeginTx(p, j) PROVE FALSE
  BY <1>1, <1>4 DEF BeginTx, Goto
<1>5. ASSUME EndTx(p) PROVE FALSE
  BY <1>1, <1>5 DEF EndTx, Goto
<1>6. ASSUME LockWallet(p) PROVE FALSE
  <2>1. job' = job
    BY <1>6 DEF LockWallet
  <2>2. w \in WalletsOn(job[p].account)
    BY <1>1, <2>1 DEF WalletsOn
  <2>3. Goto(p, "validate")
    BY <1>6, <2>2 DEF LockWallet
  <2> QED
    BY <1>1, <2>3 DEF Goto
<1>7. ASSUME ValidateBalance(p)
      PROVE  /\ UNCHANGED <<job, guard, entries>> /\ pc[p] = "validate" /\ guard[p] # None
             /\ Balance(job[p].account) + job[p].amount >= 0
  <2>1. pc[p] = "validate" /\ guard[p] # None
    BY <1>7 DEF ValidateBalance, SoundInv, TypeInv, Posts
  <2> QED
    BY <1>5, <1>7, <2>1 DEF ValidateBalance, rows
<1>8. ASSUME \/ UNCHANGED vars \/ Tick
             \/ \E a \in AccountId, code \in Code : CreateAccount(a, code)
             \/ \E v \in WalletId, a \in AccountId : CreateWallet(v, a)
             \/ \E c \in Client : NextPage(c) \/ \E a \in AccountId : FirstPage(c, a)
      PROVE  UNCHANGED <<pc, job, guard>>
  BY <1>8 DEF vars, Tick, CreateAccount, CreateWallet, NextPage, FirstPage, Show
<1>9. ASSUME CreatePosting(p) \/ Abort(p) PROVE FALSE
  BY <1>5, <1>9 DEF CreatePosting, Abort
<1> QED
  BY <1>2, <1>3, <1>4, <1>6, <1>7, <1>8, <1>9 DEF Next

\* Which wallets are sound, and on which accounts, changes only with a new one.
LEMMA SoundOfAStep ==
  ASSUME TypeInv, [Next]_vars
  PROVE  \/ UNCHANGED <<wallet, sound>>
         \/ \E v \in WalletId, a \in AccountId : CreateWallet(v, a)
<1>1. ASSUME \/ UNCHANGED vars \/ Tick
             \/ \E a \in AccountId, code \in Code : CreateAccount(a, code)
             \/ \E p \in Session :
                  \/ \E j \in Posting : BeginTx(p, j)
                  \/ LockWallet(p) \/ ValidateBalance(p) \/ CreatePosting(p) \/ Abort(p)
             \/ \E c \in Client : NextPage(c) \/ \E a \in AccountId : FirstPage(c, a)
      PROVE  UNCHANGED <<wallet, sound>>
  BY <1>1 DEF vars, Tick, CreateAccount, BeginTx, LockWallet, ValidateBalance, CreatePosting,
              Abort, EndTx, NextPage, FirstPage, Show, rows
<1> QED
  BY <1>1 DEF Next

\* A new sound wallet has a balance, and nobody is about to insert a debit on its account.
LEMMA CreateWalletStep ==
  ASSUME SoundInv, NEW v \in WalletId, NEW a \in AccountId, CreateWallet(v, a)
  PROVE  Payable' /\ SoundWallets'
<1>1. /\ UNCHANGED <<pc, job, guard, entries>>
      /\ wallet[v] = None /\ \A u \in WalletId : wallet[u] # a
      /\ wallet' = [wallet EXCEPT ![v] = a]
      /\ sound' = IF Balance(a) >= 0 /\ ~Unguarded(a) THEN sound \cup {v} ELSE sound
  BY DEF CreateWallet
<1>2. \A b : Balance(b)' = Balance(b)
  BY <1>1 DEF Balance, CreditUnits, DebitUnits, EntriesOf
<1>3. /\ guard \in [Session -> WalletId \cup {None}]
      /\ wallet \in [WalletId -> AccountId \cup {None}]
      /\ \A w \in sound : w \in WalletId /\ wallet[w] \in AccountId
      /\ \A p \in Session : pc[p] = "insert" => job[p].amount \in Int /\ job[p].amount # 0
      /\ None \notin AccountId
  BY SessionTypes DEF SoundInv
<1>4. \A w \in sound : w # v /\ wallet'[w] = wallet[w]
  BY <1>1, <1>3
<1>5. \A w \in sound' : w \in sound \/ (w = v /\ Balance(a) >= 0 /\ ~Unguarded(a))
  BY <1>1
<1>6. wallet'[v] = a
  BY <1>1, <1>3
<1>7. ASSUME NEW p \in Session, pc[p] = "insert", job[p].account = a, ~Unguarded(a)
      PROVE  guard[p] = None /\ job[p].amount > 0
  <2>1. guard[p] # None => guard[p] \in WalletId /\ wallet[guard[p]] = a
    BY <1>3, <1>7 DEF SoundInv, TypeInv, Posts
  <2>2. guard[p] = None
    BY <1>1, <2>1
  <2>3. ~(job[p].amount < 0)
    BY <1>7, <2>2 DEF Unguarded
  <2> QED
    BY <1>3, <1>7, <2>2, <2>3
<1>8. Payable'
  <2> SUFFICES ASSUME NEW w \in sound', NEW p \in Session,
                      pc[p] = "insert", job[p].account = wallet'[w]
               PROVE  IF guard[p] = None
                      THEN job[p].amount > 0
                      ELSE Balance(wallet'[w]) + job[p].amount >= 0
    BY <1>1, <1>2 DEF Payable
  <2>1. CASE w \in sound
    BY <1>4, <2>1 DEF SoundInv, Payable
  <2>2. CASE w = v /\ ~Unguarded(a)
    BY <1>6, <1>7, <2>2
  <2> QED
    BY <1>5, <2>1, <2>2
<1>9. SoundWallets'
  <2> SUFFICES ASSUME NEW w \in sound' PROVE Balance(wallet'[w]) >= 0
    BY <1>2 DEF SoundWallets
  <2>1. CASE w \in sound
    BY <1>4, <2>1 DEF SoundInv, SoundWallets
  <2> QED
    BY <1>5, <1>6, <2>1
<1> QED
  BY <1>8, <1>9

\* No step overdraws a sound wallet, or spoils the check of another session.
LEMMA SoundStep ==
  ASSUME SoundInv, [Next]_vars
  PROVE  SoundInv'
<1>1. TypeInv' /\ Alone' /\ Counted'
  BY TypeInvStep, AloneStep, BalanceStep DEF SoundInv
<1>2. CASE \E v \in WalletId, a \in AccountId : CreateWallet(v, a)
  BY <1>1, <1>2, CreateWalletStep DEF SoundInv
<1>3. CASE UNCHANGED <<wallet, sound>>
  <2>1. /\ \A w \in sound : w \in WalletId /\ wallet[w] \in AccountId
        /\ \A p \in Session : guard[p] \in WalletId \cup {None}
        /\ \A p \in Session : pc[p] # "idle" =>
             job[p].account \in AccountId /\ job[p].amount \in Int /\ job[p].amount # 0
    BY SessionTypes DEF SoundInv
  <2>2. \A a \in AccountId : Balance(a) \in Int
    BY BalanceStep DEF SoundInv
  \* A session that is about to insert on the account of a sound wallet has its row, or
  \* has a credit.
  <2>3. ASSUME NEW w \in sound, NEW p \in Session, pc[p] = "insert",
               job[p].account = wallet[w]
        PROVE  /\ guard[p] = None => job[p].amount > 0
               /\ guard[p] # None =>
                    guard[p] = w /\ Balance(wallet[w]) + job[p].amount >= 0
    <3>1. guard[p] # None => wallet[guard[p]] = wallet[w] /\ guard[p] \in WalletId
      BY <2>1, <2>3 DEF SoundInv, TypeInv, Posts
    <3>2. wallet[w] # None
      BY <2>1, AccountsAssumption
    <3> QED
      BY <2>1, <2>3, <3>1, <3>2 DEF SoundInv, Alone, Payable
  <2>4. CASE \A a \in AccountId : Balance(a)' = Balance(a)
    <3>1. SoundWallets'
      BY <1>3, <2>1, <2>4 DEF SoundInv, SoundWallets
    <3>2. Payable'
      <4> SUFFICES ASSUME NEW w \in sound, NEW p \in Session,
                          pc'[p] = "insert", job'[p].account = wallet[w]
                   PROVE  IF guard'[p] = None
                          THEN job'[p].amount > 0
                          ELSE Balance(wallet[w]) + job'[p].amount >= 0
        BY <1>3, <2>1, <2>4 DEF Payable
      <4>1. /\ job'[p] = job[p] /\ guard'[p] = guard[p]
            /\ \/ pc[p] = "insert"
               \/ guard[p] # None /\ Balance(job[p].account) + job[p].amount >= 0
        BY InsertStep
      <4> QED
        BY <2>3, <4>1
    <3> QED
      BY <1>1, <3>1, <3>2 DEF SoundInv
  <2>5. ASSUME NEW q \in Session, EndTx(q), pc[q] = "insert",
               \A a \in AccountId : Balance(a)' = IF job[q].account = a
                                                  THEN Balance(a) + job[q].amount
                                                  ELSE Balance(a)
        PROVE  SoundInv'
    <3>1. ASSUME NEW w \in sound
          PROVE  /\ Balance(wallet[w])' \in Int /\ Balance(wallet[w])' >= 0
                 /\ \/ Balance(wallet[w])' >= Balance(wallet[w])
                    \/ guard[q] = w
      <4>1. CASE job[q].account # wallet[w]
        BY <1>3, <2>1, <2>2, <2>5, <4>1 DEF SoundInv, SoundWallets
      <4>2. CASE job[q].account = wallet[w]
        <5>1. Balance(wallet[w])' = Balance(wallet[w]) + job[q].amount
          BY <1>3, <2>1, <2>5, <4>2
        <5>2. Balance(wallet[w]) >= 0 /\ Balance(wallet[w]) \in Int /\ job[q].amount \in Int
          BY <2>1, <2>2, <2>5 DEF SoundInv, SoundWallets
        <5> QED
          BY <2>3, <2>5, <4>2, <5>1, <5>2
      <4> QED
        BY <4>1, <4>2
    <3>2. SoundWallets'
      BY <1>3, <3>1 DEF SoundWallets
    <3>3. Payable'
      <4> SUFFICES ASSUME NEW w \in sound, NEW p \in Session,
                          pc'[p] = "insert", job'[p].account = wallet[w]
                   PROVE  IF guard'[p] = None
                          THEN job'[p].amount > 0
                          ELSE Balance(wallet[w])' + job'[p].amount >= 0
        BY <1>3 DEF Payable
      <4>1. p # q
        BY <2>5 DEF EndTx, Goto, SoundInv, TypeInv, TypeOK
      <4>2. pc[p] = "insert" /\ job'[p] = job[p] /\ guard'[p] = guard[p]
        BY <2>5, <4>1 DEF EndTx, Goto, SoundInv, TypeInv, TypeOK
      <4>3. guard[p] # None => guard[q] # guard[p]
        BY <4>1 DEF SoundInv, Alone
      <4>4. job[p].amount \in Int /\ Balance(wallet[w]) \in Int
        BY <2>1, <2>2, <4>2
      <4> QED
        BY <2>3, <3>1, <4>2, <4>3, <4>4
    <3> QED
      BY <1>1, <3>2, <3>3 DEF SoundInv
  <2> QED
    BY <2>4, <2>5, BalanceStep DEF SoundInv
<1> QED
  BY <1>2, <1>3, SoundOfAStep DEF SoundInv

-----------------------------------------------------------------------------
(* The theorems *)

LEMMA Started ==
  ASSUME Init
  PROVE  WalksInv /\ SoundInv
<1> USE AccountsAssumption
<1>1. \A c \in Client :
        /\ walk[c] = NoWalk /\ NoWalk.account = None /\ NoWalk.cursor = None
        /\ NoWalk.shown = {} /\ NoWalk.page = {} /\ NoWalk.expected = {}
  BY DEF Init, NoWalk
<1>2. TypeOK
  <2>1. 0 \in 0 .. MaxTime
    OBVIOUS
  <2>2. walk \in [Client -> [account : AccountId \cup {None}, cursor : entries \cup {None},
                            shown : SUBSET entries, page : SUBSET entries,
                            expected : SUBSET entries]]
    BY DEF Init, NoWalk
  <2> QED
    BY <2>1, <2>2 DEF Init, TypeOK
<1>3. TypeInv
  <2>1. \A p \in Session : Posts(p)
    BY DEF Init, Posts
  <2> QED
    BY <1>1, <1>2, <2>1, FS_EmptySet DEF Init, TypeInv
<1>4. WalksInv
  BY <1>1, <1>3 DEF WalksInv, WalksComplete, WalksDescend, Walking
<1>5. Alone /\ Payable /\ SoundWallets
  BY DEF Init, Alone, Payable, SoundWallets
<1>6. Counted
  <2>1. \A a : CreditUnits(a) = {} /\ DebitUnits(a) = {}
    BY DEF Init, CreditUnits, DebitUnits, EntriesOf
  <2> QED
    BY <2>1, FS_EmptySet DEF Counted
<1> QED
  BY <1>3, <1>4, <1>5, <1>6 DEF SoundInv

\* The variables keep their types; in particular no two postings have one identifier.
THEOREM AccountsTypes == Spec => []TypeOK
<1>1. Init => TypeInv
  BY Started DEF WalksInv
<1>2. TypeInv /\ [Next]_vars => TypeInv'
  BY TypeInvStep
<1>3. TypeInv => TypeOK
  BY DEF TypeInv
<1> QED
  BY <1>1, <1>2, <1>3, PTL DEF Spec

LEMMA WalksInvariant == Spec => []WalksInv
<1>1. Init => WalksInv
  BY Started
<1>2. WalksInv /\ [Next]_vars => WalksInv'
  BY TypeInvStep, WalksStep DEF WalksInv, WalksComplete, WalksDescend
<1> QED
  BY <1>1, <1>2, PTL DEF Spec

\* Whatever commits between the pages, a walk to the last page shows all there was at
\* the first.
THEOREM WalksMissNothing == Spec => []WalksComplete
<1>1. WalksInv => WalksComplete
  BY DEF WalksInv
<1> QED
  BY <1>1, WalksInvariant, PTL

\* A walk never shows an entry twice, or after an older one.
THEOREM WalksGoDown == Spec => []WalksDescend
<1>1. WalksInv => WalksDescend
  BY DEF WalksInv
<1> QED
  BY <1>1, WalksInvariant, PTL

\* A wallet that was created on an account without debts, and with no unguarded debit
\* under way, is never overdrawn.
THEOREM SoundStaySound == Spec => []SoundWallets
<1>1. Init => SoundInv
  BY Started
<1>2. SoundInv /\ [Next]_vars => SoundInv'
  BY SoundStep
<1>3. SoundInv => SoundWallets
  BY DEF SoundInv
<1> QED
  BY <1>1, <1>2, <1>3, PTL DEF Spec
=============================================================================
