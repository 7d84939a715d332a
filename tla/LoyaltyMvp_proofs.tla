--------------------------- MODULE LoyaltyMvp_proofs ---------------------------
(***************************************************************************)
(* Proofs about LoyaltyMvp for any orders, sales, tills and totals.  The   *)
(* books (accounts and ledgers) only ever change by Post; what a step has  *)
(* to show is that it posts the balance of now, under a key or for a       *)
(* purchase that was not posted before.                                    *)
(***************************************************************************)
EXTENDS LoyaltyMvp, TLAPS

\* What was earned for a source follows from its total.
EarnsFollowTotals ==
    \A c \in Customers : \A i \in DOMAIN ledger[c] :
        ledger[c][i].type = "EARN" =>
            ledger[c][i].points = TotalOf[ledger[c][i].source] \div NprPerPoint

BooksOK ==
    /\ account \in [Customers -> Account]
    /\ ledger  \in [Customers -> Seq(Entry)]

Books == BooksOK /\ LedgerRunsAlong /\ SourceEarnsOnce /\ KeyRedeemsOnce /\ EarnsFollowTotals

RestOK ==
    /\ OrderTypeOK
    /\ saleStatus \in [Sales -> {"NONE", "DRAFT", "PENDING", "COMPLETED", "VOIDED"}]
    /\ redemption \in [Tills -> Redemption]

\* A till that holds an account has seen its balance, and holds it alone.
LockHeld ==
    \A t \in Tills : redemption[t].pc = "locked" =>
        /\ redemption[t].seen = account[CustomerOf[redemption[t].sale]].points
        /\ \A u \in Tills :
               redemption[u].pc = "locked"
               /\ CustomerOf[redemption[u].sale] = CustomerOf[redemption[t].sale] => u = t

Inv == Books /\ RestOK /\ LockHeld

LEMMA SourcesOK ==
  /\ \A s \in Sources : /\ CustomerOf[s] \in Customers /\ TotalOf[s] \in Nat
                        /\ TotalOf[s] \div NprPerPoint \in Nat
  /\ \A o \in Orders : o \in Sources /\ o \notin Sales
  /\ \A x \in Sales : x \in Sources /\ x \notin Orders
  /\ MinPoints..MaxPoints \subseteq Nat
  BY LoyaltyAssumptions DEF Sources

LEMMA InitInv == Init => Inv
<1> SUFFICES ASSUME Init PROVE Inv
  OBVIOUS
<1>1. BooksOK
  BY DEF Init, BooksOK, Account
<1>2. \A c \in Customers : ledger[c] = <<>> /\ account[c].points = 0 /\ DOMAIN ledger[c] = {}
  BY DEF Init
<1>3. LedgerRunsAlong /\ SourceEarnsOnce /\ KeyRedeemsOnce /\ EarnsFollowTotals
  BY <1>2 DEF LedgerRunsAlong, Balance, SourceEarnsOnce, KeyRedeemsOnce, EarnsFollowTotals
<1>4. RestOK /\ LockHeld
  BY DEF Init, OInit, RestOK, LockHeld, OrderTypeOK, Statuses, NoChange, Change,
         Idle, Redemption
<1> QED BY <1>1, <1>3, <1>4 DEF Inv, Books

\* A posting that is due keeps the books.
LEMMA PostInv ==
  ASSUME Books, NEW s \in Sources, NEW type \in {"EARN", "REDEEM", "REVERSAL"},
         NEW key \in Keys \cup {NoKey}, NEW n \in Int, NEW before,
         before = account[CustomerOf[s]].points,
         type = "EARN" => n = TotalOf[s] \div NprPerPoint /\ ~HasEarned(s),
         type = "REVERSAL" => /\ ~HasReversed(s)
                              /\ \E i \in EntriesOf(s, "EARN") :
                                     ledger[CustomerOf[s]][i].points + n >= 0,
         type = "REDEEM" => n <= 0,
         key # NoKey => ~KeyUsed(key),
         Post(s, type, key, n, before)
  PROVE  Books' /\ account'[CustomerOf[s]].points = account[CustomerOf[s]].points + n
                /\ \A d \in Customers : d # CustomerOf[s] => account'[d] = account[d]
<1> USE DEF Books
<1> DEFINE c == CustomerOf[s]
           L == ledger[c]
           e == [type |-> type, source |-> s, key |-> key, points |-> n, balance |-> before + n]
<1>1. c \in Customers /\ account[c] \in Account /\ L \in Seq(Entry) /\ Len(L) \in Nat
  BY SourcesOK DEF BooksOK
<1>2. /\ before + n >= 0
      /\ ledger' = [ledger EXCEPT ![c] = Append(L, e)]
  BY <1>1 DEF Post, BooksOK
<1>3. before \in Nat /\ e \in Entry
  BY <1>1, <1>2 DEF Account, Entry
<1>4. account'[c].points = account[c].points + n /\ account' \in [Customers -> Account]
  <2> DEFINE r == [open     |-> TRUE,
                   points   |-> account[c].points + n,
                   earned   |-> IF type = "EARN" THEN account[c].earned + n
                                ELSE account[c].earned,
                   redeemed |-> IF type = "REDEEM" THEN account[c].redeemed - n
                                ELSE account[c].redeemed]
  <2>1. account' = [account EXCEPT ![c] = r]
    BY DEF Post
  <2>2. r.earned \in Nat
    BY <1>1, SourcesOK DEF Account
  <2>3. r.redeemed \in Nat
    BY <1>1 DEF Account
  <2>4. r \in Account
    BY <1>1, <1>2, <1>3, <2>2, <2>3 DEF Account
  <2> QED BY <1>1, <2>1, <2>4 DEF BooksOK
<1>5. \A d \in Customers : d # c => account'[d] = account[d] /\ ledger'[d] = ledger[d]
  BY <1>1, <1>2 DEF Post, BooksOK
<1>6. ledger' \in [Customers -> Seq(Entry)] /\ ledger'[c] = Append(L, e)
  BY <1>1, <1>2, <1>3 DEF BooksOK
<1>7. \A d \in Customers : DOMAIN ledger[d] = 1..Len(ledger[d]) /\ Len(ledger[d]) \in Nat
  BY DEF BooksOK
<1>8. /\ DOMAIN ledger'[c] = 1..Len(L) + 1 /\ Len(ledger'[c]) = Len(L) + 1
      /\ ledger'[c][Len(L) + 1] = e
      /\ \A i \in 1..Len(L) : ledger'[c][i] = L[i]
  BY <1>1, <1>3, <1>6
<1> HIDE DEF e, L
<1>9. \A d \in Customers : \A i \in DOMAIN ledger[d] :
          i \in DOMAIN ledger'[d] /\ ledger'[d][i] = ledger[d][i]
  <2> SUFFICES ASSUME NEW d \in Customers, NEW i \in DOMAIN ledger[d]
               PROVE  i \in DOMAIN ledger'[d] /\ ledger'[d][i] = ledger[d][i]
    OBVIOUS
  <2>1. CASE d = c
    BY <2>1, <1>1, <1>7, <1>8 DEF L
  <2>2. CASE d # c
    BY <2>2, <1>5
  <2> QED BY <2>1, <2>2
<1>10. \A d \in Customers : \A i \in DOMAIN ledger'[d] :
          \/ i \in DOMAIN ledger[d] /\ ledger'[d][i] = ledger[d][i]
          \/ d = c /\ i = Len(L) + 1 /\ ledger'[d][i] = e
  <2> SUFFICES ASSUME NEW d \in Customers, NEW i \in DOMAIN ledger'[d]
               PROVE  \/ i \in DOMAIN ledger[d] /\ ledger'[d][i] = ledger[d][i]
                      \/ d = c /\ i = Len(L) + 1 /\ ledger'[d][i] = e
    OBVIOUS
  <2>1. CASE d # c
    BY <2>1, <1>5
  <2>2. CASE d = c /\ i \in 1..Len(L)
    <3>1. DOMAIN ledger[c] = 1..Len(L)
      BY <1>1, <1>7 DEF L
    <3>2. ledger'[c][i] = ledger[c][i]
      BY <2>2, <1>8 DEF L
    <3> QED BY <2>2, <3>1, <3>2
  <2>3. CASE d = c /\ i = Len(L) + 1
    BY <2>3, <1>8
  <2>4. d = c => i \in 1..Len(L) \/ i = Len(L) + 1
    <3>1. ASSUME d = c  PROVE i \in 1..Len(L) + 1
      BY <3>1, <1>8
    <3> QED BY <3>1, <1>1
  <2> QED BY <2>1, <2>2, <2>3, <2>4
<1>11. /\ e.type = type /\ e.source = s /\ e.key = key /\ e.points = n
       /\ e.balance = before + n
  BY DEF e
<1>12. LedgerRunsAlong'
  <2> SUFFICES ASSUME NEW d \in Customers
               PROVE  /\ account'[d].points = Balance(d)'
                      /\ \A i \in DOMAIN ledger'[d] :
                             ledger'[d][i].balance = Before(d, i)' + ledger'[d][i].points
    BY DEF LedgerRunsAlong
  <2>1. CASE d # c
    BY <2>1, <1>5, <1>7 DEF LedgerRunsAlong, Balance, Before
  <2>2. CASE d = c
    <3>1. account'[c].points = Balance(c)'
      BY <1>1, <1>4, <1>6, <1>8, <1>11 DEF Balance
    <3>2. ASSUME NEW i \in DOMAIN ledger'[c]
          PROVE  ledger'[c][i].balance = Before(c, i)' + ledger'[c][i].points
      <4>1. CASE i \in 1..Len(L)
        <5>1. ledger[c][i].balance = Before(c, i) + ledger[c][i].points
          BY <4>1, <1>1, <1>7 DEF LedgerRunsAlong, L
        <5>2. Before(c, i)' = Before(c, i)
          BY <4>1, <1>1, <1>8 DEF Before, L
        <5> QED BY <4>1, <5>1, <5>2, <1>8 DEF L
      <4>2. CASE i = Len(L) + 1
        <5>1. Before(c, i)' = before
          <6>1. before = Balance(c)
            BY <1>1 DEF LedgerRunsAlong
          <6>2. CASE Len(L) = 0
            BY <4>2, <6>1, <6>2, <1>1, <1>7 DEF Before, Balance, L
          <6>3. CASE Len(L) # 0
            BY <4>2, <6>1, <6>3, <1>1, <1>8 DEF Before, Balance, L
          <6> QED BY <6>2, <6>3
        <5> QED BY <4>2, <5>1, <1>8, <1>11
      <4> QED BY <4>1, <4>2, <1>1, <1>8
    <3> QED BY <2>2, <3>1, <3>2
  <2> QED BY <2>1, <2>2
<1>13. SourceEarnsOnce'
  <2> SUFFICES ASSUME NEW d \in Customers, NEW i \in DOMAIN ledger'[d], NEW j \in DOMAIN ledger'[d]
               PROVE  LET a == ledger'[d][i]
                          b == ledger'[d][j]
                      IN  /\ a.type = b.type /\ a.source = b.source /\ a.type # "REDEEM" => i = j
                          /\ b.type = "REVERSAL" =>
                                 \E k \in 1..j - 1 : /\ ledger'[d][k].type = "EARN"
                                                     /\ ledger'[d][k].source = b.source
                                                     /\ ledger'[d][k].points + b.points >= 0
    BY DEF SourceEarnsOnce
  <2>1. \A k \in DOMAIN ledger[c] : L[k].source = s => L[k].type # type \/ type = "REDEEM"
    BY <1>1 DEF HasEarned, HasReversed, EntriesOf, L
  <2>2. ledger'[d][i].type = ledger'[d][j].type /\ ledger'[d][i].source = ledger'[d][j].source
        /\ ledger'[d][i].type # "REDEEM" => i = j
    BY <1>10, <1>11, <2>1 DEF SourceEarnsOnce, L
  <2>3. ASSUME ledger'[d][j].type = "REVERSAL"
        PROVE  \E k \in 1..j - 1 : /\ ledger'[d][k].type = "EARN"
                                   /\ ledger'[d][k].source = ledger'[d][j].source
                                   /\ ledger'[d][k].points + ledger'[d][j].points >= 0
    <3>1. CASE j \in DOMAIN ledger[d] /\ ledger'[d][j] = ledger[d][j]
      <4>1. PICK k \in 1..j - 1 : /\ ledger[d][k].type = "EARN"
                                  /\ ledger[d][k].source = ledger[d][j].source
                                  /\ ledger[d][k].points + ledger[d][j].points >= 0
        BY <2>3, <3>1 DEF SourceEarnsOnce
      <4>2. k \in DOMAIN ledger[d]
        BY <3>1, <1>7
      <4> QED BY <3>1, <4>1, <4>2, <1>9
    <3>2. CASE d = c /\ j = Len(L) + 1 /\ ledger'[d][j] = e
      <4>1. PICK k \in EntriesOf(s, "EARN") : ledger[c][k].points + n >= 0
        BY <2>3, <3>2, <1>11
      <4>2. k \in 1..j - 1 /\ ledger[c][k].type = "EARN" /\ ledger[c][k].source = s
        BY <3>2, <1>1, <1>7 DEF EntriesOf, L
      <4>3. ledger'[c][k] = ledger[c][k]
        BY <4>2, <3>2, <1>1, <1>8 DEF L
      <4>4. ledger'[d][j].source = s /\ ledger'[d][j].points = n
        BY <3>2, <1>11
      <4>5. /\ ledger'[d][k].type = "EARN" /\ ledger'[d][k].source = s
            /\ ledger'[d][k].points + n >= 0
        BY <3>2, <4>1, <4>2, <4>3
      <4> QED BY <4>2, <4>4, <4>5
    <3> QED BY <3>1, <3>2, <1>10
  <2> QED BY <2>2, <2>3
<1>14. KeyRedeemsOnce'
  <2> SUFFICES ASSUME NEW d \in Customers, NEW f \in Customers,
                      NEW i \in DOMAIN ledger'[d], NEW j \in DOMAIN ledger'[f],
                      ledger'[d][i].key = ledger'[f][j].key, ledger'[d][i].key # NoKey
               PROVE  d = f /\ i = j
    BY DEF KeyRedeemsOnce
  <2>1. \A g \in Customers : \A k \in DOMAIN ledger[g] : key # NoKey => ledger[g][k].key # key
    BY DEF KeyUsed
  <2> QED BY <1>10, <1>11, <2>1 DEF KeyRedeemsOnce
<1>15. EarnsFollowTotals'
  BY <1>10, <1>11 DEF EarnsFollowTotals
<1> QED BY <1>4, <1>5, <1>6, <1>12, <1>13, <1>14, <1>15 DEF BooksOK

\* An account is opened: no points move.
LEMMA OpenInv ==
  ASSUME Books, NEW c \in Customers, Open(c), UNCHANGED ledger
  PROVE  Books' /\ \A d \in Customers : account'[d].points = account[d].points
<1>1. account[c] \in Account /\ account' = [account EXCEPT ![c] = [account[c] EXCEPT !.open = TRUE]]
  BY DEF Open, Books, BooksOK
<1>2. [account[c] EXCEPT !.open = TRUE] \in Account
      /\ [account[c] EXCEPT !.open = TRUE].points = account[c].points
  BY <1>1 DEF Account
<1>3. account' \in [Customers -> Account]
  BY <1>1, <1>2 DEF Books, BooksOK
<1>4. \A d \in Customers : account'[d].points = account[d].points
  BY <1>1, <1>2 DEF Books, BooksOK
<1>5. BooksOK'
  BY <1>3 DEF Books, BooksOK
<1>6. LedgerRunsAlong'
  BY <1>4 DEF Books, LedgerRunsAlong, Balance, Before
<1>7. SourceEarnsOnce' /\ KeyRedeemsOnce' /\ EarnsFollowTotals'
  BY DEF Books, SourceEarnsOnce, KeyRedeemsOnce, EarnsFollowTotals
<1> QED BY <1>4, <1>5, <1>6, <1>7 DEF Books

\* The books stay as they are.
LEMMA SameBooks ==
  ASSUME Books, UNCHANGED <<account, ledger>>
  PROVE  Books' /\ \A d \in Customers : account'[d].points = account[d].points
<1>1. account' = account /\ ledger' = ledger
  OBVIOUS
<1>2. BooksOK' /\ LedgerRunsAlong'
  BY <1>1 DEF Books, BooksOK, LedgerRunsAlong, Balance, Before
<1>3. SourceEarnsOnce' /\ KeyRedeemsOnce' /\ EarnsFollowTotals'
  BY <1>1 DEF Books, SourceEarnsOnce, KeyRedeemsOnce, EarnsFollowTotals
<1> QED BY <1>1, <1>2, <1>3 DEF Books

\* What an event of a source does to the points of customers: none of an
\* account that a till holds.
Apart(s) == \A d \in Customers :
    account'[d].points = account[d].points \/ (d = CustomerOf[s] /\ AccountFree(d))

LEMMA PostEarnInv ==
  ASSUME Books, NEW s \in Sources, PostEarn(s)
  PROVE  Books' /\ Apart(s)
<1> DEFINE c == CustomerOf[s]
<1>1. c \in Customers /\ account[c].points \in Nat /\ TotalOf[s] \in Nat
      /\ TotalOf[s] \div NprPerPoint \in Nat
  BY SourcesOK DEF Books, BooksOK, Account
<1>2. CASE TotalOf[s] >= NprPerPoint /\ ~HasEarned(s)
  <2>1. AccountFree(c)
    BY <1>1, <1>2, LoyaltyAssumptions DEF PostEarn
  <2>2. Post(s, "EARN", NoKey, TotalOf[s] \div NprPerPoint, account[c].points)
    BY <1>2 DEF PostEarn
  <2> QED BY <1>1, <1>2, <2>1, <2>2, PostInv DEF Apart
<1>3. CASE ~(TotalOf[s] >= NprPerPoint /\ ~HasEarned(s)) /\ TotalOf[s] > 0
  BY <1>1, <1>3, OpenInv DEF PostEarn, Apart
<1>4. CASE ~(TotalOf[s] >= NprPerPoint /\ ~HasEarned(s)) /\ ~(TotalOf[s] > 0)
  BY <1>4, SameBooks DEF PostEarn, Apart
<1> QED BY <1>2, <1>3, <1>4

\* A reversal takes what was earned, or empties the account.
LEMMA ReverseEarnInv ==
  ASSUME Books, NEW s \in Sources, ReverseEarn(s)
  PROVE  /\ Books' /\ Apart(s)
         /\ HasEarned(s) /\ ~HasReversed(s) =>
              \/ account'[CustomerOf[s]].points
                   = account[CustomerOf[s]].points - TotalOf[s] \div NprPerPoint
              \/ account'[CustomerOf[s]].points = 0
<1> DEFINE c == CustomerOf[s]
           i == CHOOSE k \in EntriesOf(s, "EARN") : TRUE
           n == Reversible(s)
<1>1. c \in Customers /\ account[c].points \in Nat /\ TotalOf[s] \in Nat
      /\ TotalOf[s] \div NprPerPoint \in Nat
  BY SourcesOK DEF Books, BooksOK, Account
<1>2. CASE HasEarned(s) /\ ~HasReversed(s)
  <2>1. i \in EntriesOf(s, "EARN")
    BY <1>2 DEF HasEarned
  <2>2. ledger[c][i].points = TotalOf[s] \div NprPerPoint
    BY <1>1, <2>1 DEF EntriesOf, Books, EarnsFollowTotals
  <2>3. n = IF ledger[c][i].points <= account[c].points
            THEN ledger[c][i].points ELSE account[c].points
    BY DEF Reversible
  <2>4. n \in Nat /\ n <= account[c].points /\ n <= ledger[c][i].points
        /\ (n = ledger[c][i].points \/ n = account[c].points)
    BY <1>1, <2>2, <2>3
  <2>5. AccountFree(c)
    BY <1>2 DEF ReverseEarn
  <2> HIDE DEF i, n
  <2>6. CASE n > 0
    <3>1. Post(s, "REVERSAL", NoKey, -n, account[c].points)
      BY <1>2, <2>6 DEF ReverseEarn, n
    <3>2. ledger[c][i].points + (-n) >= 0 /\ -n \in Int
      BY <2>2, <2>4, <1>1
    <3>3. \E k \in EntriesOf(s, "EARN") : ledger[c][k].points + (-n) >= 0
      BY <2>1, <3>2
    <3>4. /\ Books' /\ account'[c].points = account[c].points + (-n)
          /\ \A d \in Customers : d # c => account'[d] = account[d]
      BY <1>1, <1>2, <3>1, <3>2, <3>3, PostInv
    <3>5. Apart(s)
      BY <2>5, <3>4 DEF Apart
    <3> QED BY <1>1, <2>2, <2>4, <3>4, <3>5
  <2>7. CASE ~(n > 0)
    <3>1. UNCHANGED <<account, ledger>>
      BY <1>2, <2>7 DEF ReverseEarn, n
    <3>2. account'[c].points = account[c].points
      BY <3>1
    <3>3. Books' /\ Apart(s)
      BY <3>1, SameBooks DEF Apart
    <3> QED BY <1>1, <2>2, <2>4, <2>7, <3>2, <3>3
  <2> QED BY <2>6, <2>7
<1>3. CASE ~(HasEarned(s) /\ ~HasReversed(s))
  BY <1>3, SameBooks DEF ReverseEarn, Apart
<1> QED BY <1>2, <1>3

LEMMA EventInv ==
  ASSUME Books, NEW s \in Sources, NEW from, NEW to, NEW bought, NEW undone,
         bought # undone, Event(s, from, to, bought, undone)
  PROVE  /\ Books' /\ Apart(s)
         /\ from = bought /\ to = undone /\ HasEarned(s) /\ ~HasReversed(s) =>
              \/ account'[CustomerOf[s]].points
                   = account[CustomerOf[s]].points - TotalOf[s] \div NprPerPoint
              \/ account'[CustomerOf[s]].points = 0
<1>1. CASE to = bought /\ from # bought
  BY <1>1, PostEarnInv DEF Event
<1>2. CASE from = bought /\ to = undone
  BY <1>2, ReverseEarnInv DEF Event
<1>3. CASE ~(to = bought /\ from # bought) /\ ~(from = bought /\ to = undone)
  BY <1>3, SameBooks DEF Event, Apart
<1> QED BY <1>1, <1>2, <1>3

\* No till loses what it has seen when the points of an account that is held
\* stay as they are.
LEMMA HeldStays ==
  ASSUME RestOK, LockHeld, UNCHANGED redemption, NEW s \in Sources, Apart(s)
  PROVE  LockHeld'
<1>1. \A t \in Tills : redemption[t].pc = "locked" =>
          CustomerOf[redemption[t].sale] \in Customers /\ ~AccountFree(CustomerOf[redemption[t].sale])
  BY SourcesOK DEF RestOK, Redemption, AccountFree
<1> QED BY <1>1 DEF LockHeld, Apart

LEMMA ChangeOrderInv ==
  ASSUME Inv, NEW o \in Orders, ChangeOrder(o)
  PROVE  Inv'
<1> USE DEF Inv
<1>1. o \in Sources
  BY SourcesOK
<1>2. Event(o, status[o], status'[o], "DELIVERED", "CANCELLED") /\ UNCHANGED <<saleStatus, redemption>>
  BY DEF ChangeOrder, OrderEvent
<1>3. Books' /\ Apart(o)
  BY <1>1, <1>2, EventInv
<1>4. OrderTypeOK'
  <2> USE DEF RestOK, OrderTypeOK
  <2>1. CASE CreateOrder(o)
    BY <2>1 DEF CreateOrder, Statuses
  <2>2. ASSUME NEW to \in Statuses, UpdateWebOrderStatus(o, to) PROVE OrderTypeOK'
    BY <2>2 DEF UpdateWebOrderStatus
  <2>3. ASSUME NEW c \in Clerks, NEW to \in Statuses, CheckTransition(c, o, to)
        PROVE  OrderTypeOK'
    BY <2>3 DEF CheckTransition, Change
  <2>4. ASSUME NEW c \in Clerks, TransitionOrderStatus(c, o) PROVE OrderTypeOK'
    <3>1. legacy[c].to \in Statuses
      BY <2>4 DEF TransitionOrderStatus, Change, NoChange
    <3> QED BY <2>4, <3>1 DEF TransitionOrderStatus, Change, NoChange
  <2>5. ASSUME NEW c \in Clerks, TransitionFails(c, o) PROVE OrderTypeOK'
    BY <2>5 DEF TransitionFails, Change, NoChange
  <2> QED BY <2>1, <2>2, <2>3, <2>4, <2>5 DEF ChangeOrder, OrderStep
<1>5. RestOK'
  BY <1>2, <1>4 DEF RestOK
<1> QED BY <1>1, <1>2, <1>3, <1>5, HeldStays

LEMMA EnrollInv ==
  ASSUME Inv, NEW c \in Customers, Enroll(c)
  PROVE  Inv'
<1>1. Books' /\ \A d \in Customers : account'[d].points = account[d].points
  BY OpenInv DEF Inv, Enroll
<1>2. RestOK'
  BY DEF Inv, Enroll, RestOK, OrderTypeOK, orderVars
<1>3. LockHeld'
  BY <1>1, SourcesOK DEF Inv, Enroll, LockHeld, RestOK, Redemption
<1> QED BY <1>1, <1>2, <1>3 DEF Inv

LEMMA SaleStepInv ==
  ASSUME Inv, NEW x \in Sales, SaleStep(x)
  PROVE  Inv'
<1> USE DEF Inv
<1>1. x \in Sources
  BY SourcesOK
<1>2. CASE CreateSale(x)
  <2>1. Books' /\ \A d \in Customers : account'[d].points = account[d].points
    BY <1>2, SameBooks DEF CreateSale
  <2>2. RestOK'
    BY <1>2 DEF CreateSale, RestOK, OrderTypeOK, orderVars
  <2>3. LockHeld'
    BY <1>2 DEF CreateSale, LockHeld
  <2> QED BY <2>1, <2>2, <2>3
<1>3. ASSUME SaleEvent(x), NEW to \in {"PENDING", "COMPLETED", "VOIDED"},
             saleStatus' = [saleStatus EXCEPT ![x] = to],
             UNCHANGED <<orderVars, redemption>>
      PROVE  Inv'
  <2>1. Event(x, saleStatus[x], saleStatus'[x], "COMPLETED", "VOIDED")
    BY <1>3 DEF SaleEvent
  <2>2. Books' /\ Apart(x)
    BY <1>1, <2>1, EventInv
  <2>3. RestOK'
    BY <1>3 DEF RestOK, OrderTypeOK, orderVars
  <2> QED BY <1>1, <1>3, <2>2, <2>3, HeldStays
<1>4. ASSUME NEW to \in {"PENDING", "COMPLETED", "VOIDED"}, UpdateSaleStatus(x, to)
      PROVE  Inv'
  BY <1>4, <1>3 DEF UpdateSaleStatus
<1>5. CASE VoidSale(x)
  BY <1>5, <1>3 DEF VoidSale
<1> QED BY <1>2, <1>4, <1>5 DEF SaleStep

LEMMA RedemptionStepInv ==
  ASSUME Inv, NEW t \in Tills, RedemptionStep(t)
  PROVE  Inv'
<1> USE DEF Inv
<1>1. ASSUME NEW x \in Sales, NEW k \in Keys, NEW n \in MinPoints..MaxPoints,
             AskRedemption(t, x, k, n)
      PROVE  Inv'
  <2>1. Books'
    BY <1>1, SameBooks DEF AskRedemption
  <2>2. RestOK'
    BY <1>1 DEF AskRedemption, RestOK, OrderTypeOK, orderVars, Redemption
  <2>3. LockHeld'
    BY <1>1 DEF AskRedemption, LockHeld, RestOK, Redemption, Idle
  <2> QED BY <2>1, <2>2, <2>3
<1>2. CASE LockAccount(t)
  <2> DEFINE r == redemption[t]
             c == CustomerOf[r.sale]
  <2>1. r.sale \in Sales /\ r.key \in Keys /\ r.points \in MinPoints..MaxPoints
    BY <1>2 DEF LockAccount, RestOK, Redemption
  <2>2. c \in Customers /\ account[c].points \in Nat
    BY <2>1, SourcesOK DEF Books, BooksOK, Account
  <2>3. Books'
    BY <1>2, SameBooks DEF LockAccount
  <2>4. RestOK'
    BY <1>2, <2>1, <2>2 DEF LockAccount, RestOK, OrderTypeOK, orderVars, Redemption
  <2>5. LockHeld'
    BY <1>2 DEF LockAccount, LockHeld, RestOK, Redemption, AccountFree
  <2> QED BY <2>3, <2>4, <2>5
<1>3. CASE Redeem(t)
  <2> DEFINE r == redemption[t]
             c == CustomerOf[r.sale]
  <2>1. r.sale \in Sales /\ r.key \in Keys /\ r.points \in MinPoints..MaxPoints /\ r.points \in Nat
    BY <1>3, SourcesOK DEF Redeem, RestOK, Redemption
  <2>2. r.seen = account[c].points /\ r.sale \in Sources /\ c \in Customers
    BY <1>3, <2>1, SourcesOK DEF Redeem, LockHeld
  <2>3. /\ Post(r.sale, "REDEEM", r.key, -r.points, r.seen) /\ ~KeyUsed(r.key)
        /\ redemption' = [redemption EXCEPT ![t] = Idle]
        /\ UNCHANGED <<orderVars, saleStatus>>
    BY <1>3 DEF Redeem, KeyUnique
  <2>4. Books' /\ \A d \in Customers : d # c => account'[d] = account[d]
    BY <2>1, <2>2, <2>3, PostInv
  <2>5. RestOK'
    BY <2>3 DEF RestOK, OrderTypeOK, orderVars, Redemption, Idle
  <2>6. LockHeld'
    <3>1. \A u \in Tills : u # t => redemption'[u] = redemption[u]
      BY <2>3 DEF RestOK
    <3>2. redemption'[t].pc # "locked"
      BY <2>3 DEF RestOK, Idle
    <3>3. \A u \in Tills : redemption[u].pc = "locked" /\ u # t =>
              CustomerOf[redemption[u].sale] # c /\ CustomerOf[redemption[u].sale] \in Customers
      BY <1>3, SourcesOK DEF LockHeld, Redeem, RestOK, Redemption
    <3> QED BY <2>4, <3>1, <3>2, <3>3 DEF LockHeld
  <2> QED BY <2>4, <2>5, <2>6
<1>4. CASE RedemptionFails(t)
  <2>1. Books'
    BY <1>4, SameBooks DEF RedemptionFails
  <2>2. RestOK'
    BY <1>4 DEF RedemptionFails, RestOK, OrderTypeOK, orderVars, Redemption, Idle
  <2>3. LockHeld'
    BY <1>4 DEF RedemptionFails, LockHeld, RestOK, Redemption, Idle
  <2> QED BY <2>1, <2>2, <2>3
<1> QED BY <1>1, <1>2, <1>3, <1>4 DEF RedemptionStep

LEMMA NextInv == Inv /\ [Next]_vars => Inv'
<1> SUFFICES ASSUME Inv, [Next]_vars PROVE Inv'
  OBVIOUS
<1>1. CASE UNCHANGED vars
  <2>1. Books'
    BY <1>1, SameBooks DEF Inv, vars, loyaltyVars
  <2>2. RestOK' /\ LockHeld'
    BY <1>1 DEF Inv, vars, loyaltyVars, orderVars, RestOK, OrderTypeOK, LockHeld
  <2> QED BY <2>1, <2>2 DEF Inv
<1>2. CASE Next
  BY <1>2, ChangeOrderInv, EnrollInv, SaleStepInv, RedemptionStepInv DEF Next
<1> QED BY <1>1, <1>2

LEMMA SpecInv == Spec => []Inv
BY InitInv, NextInv, PTL DEF Spec

\* The types of all the state of orders, accounts, sales and tills.
THEOREM TypeAlwaysOK == Spec => []TypeOK
<1>1. Inv => TypeOK
  BY DEF Inv, Books, BooksOK, RestOK, TypeOK
<1> QED BY <1>1, SpecInv, PTL

\* Every balance in a ledger follows from the one before, and the account shows
\* the last one, whoever redeems, earns and reverses at the same time.
THEOREM LedgerAlwaysRunsAlong == Spec => []LedgerRunsAlong
<1>1. Inv => LedgerRunsAlong
  BY DEF Inv, Books
<1> QED BY <1>1, SpecInv, PTL

\* However often the legacy routes have an order delivered and cancelled, it
\* earns once and loses at most what it earned, once.
THEOREM SourcesAlwaysEarnOnce == Spec => []SourceEarnsOnce
<1>1. Inv => SourceEarnsOnce
  BY DEF Inv, Books
<1> QED BY <1>1, SpecInv, PTL

\* An idempotency key is posted once, whatever tills and sales it is sent to.
THEOREM KeysAlwaysRedeemOnce == Spec => []KeyRedeemsOnce
<1>1. Inv => KeyRedeemsOnce
  BY DEF Inv, Books
<1> QED BY <1>1, SpecInv, PTL

\* The first time a purchase is undone its points go, or all that is left.
THEOREM ReversalsAlwaysTakeWhatIsLeft == Spec => ReversalTakesWhatIsLeft
<1>1. ASSUME Inv, [Next]_vars, NEW s \in Sources
      PROVE  UndonePurchaseGivesUp(s)
  <2> DEFINE Gone == \/ account'[CustomerOf[s]].points
                          = account[CustomerOf[s]].points - TotalOf[s] \div NprPerPoint
                     \/ account'[CustomerOf[s]].points = 0
  <2> SUFFICES ASSUME Undone(s), HasEarned(s), ~HasReversed(s) PROVE Gone
    BY DEF UndonePurchaseGivesUp
  <2> USE DEF Inv
  <2>1. CASE s \in Orders /\ status[s] = "DELIVERED" /\ status'[s] = "CANCELLED"
    <3>1. PICK o \in Orders : ChangeOrder(o)
      BY <1>1, <2>1 DEF Next, vars, orderVars, Enroll, SaleStep, CreateSale,
            UpdateSaleStatus, VoidSale, RedemptionStep, AskRedemption, LockAccount,
            Redeem, RedemptionFails
    <3>2. o = s
      BY <1>1, <2>1, <3>1 DEF ChangeOrder, OrderStep, CreateOrder, UpdateWebOrderStatus,
            CheckTransition, TransitionOrderStatus, TransitionFails, RestOK, OrderTypeOK
    <3>3. Event(s, "DELIVERED", "CANCELLED", "DELIVERED", "CANCELLED")
      BY <2>1, <3>1, <3>2 DEF ChangeOrder, OrderEvent
    <3> QED BY <1>1, <3>3, EventInv
  <2>2. CASE s \in Sales /\ saleStatus[s] = "COMPLETED" /\ saleStatus'[s] = "VOIDED"
    <3>1. PICK x \in Sales : SaleStep(x)
      BY <1>1, <2>2 DEF Next, vars, loyaltyVars, Enroll, ChangeOrder, RedemptionStep,
            AskRedemption, LockAccount, Redeem, RedemptionFails
    <3>2. x = s /\ SaleEvent(s)
      BY <1>1, <2>2, <3>1 DEF SaleStep, CreateSale, UpdateSaleStatus, VoidSale, RestOK
    <3>3. Event(s, "COMPLETED", "VOIDED", "COMPLETED", "VOIDED")
      BY <2>2, <3>2 DEF SaleEvent
    <3> QED BY <1>1, <3>3, EventInv
  <2> QED BY <2>1, <2>2 DEF Undone
<1>2. Inv /\ [Next]_vars => [\A s \in Sources : UndonePurchaseGivesUp(s)]_vars
  BY <1>1
<1> QED BY <1>2, SpecInv, PTL DEF Spec, ReversalTakesWhatIsLeft
=============================================================================
