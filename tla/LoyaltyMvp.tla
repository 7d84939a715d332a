------------------------------ MODULE LoyaltyMvp ------------------------------
(***************************************************************************)
(* Loyalty points of the Nepal pilot.  Triggers on web_orders and sales    *)
(* post what a delivered order or a completed sale earns, and take it back *)
(* when the order is cancelled or the sale voided after all; staff redeem  *)
(* points against a completed sale.  Every posting belongs to one account, *)
(* whose row the transaction holds from its first look at the balance.     *)
(*                                                                         *)
(* A source is an order or a sale.  A till works on one redemption at a    *)
(* time: it holds the sale, then the account as well.  Sales without a     *)
(* customer neither earn nor redeem and are left out.                      *)
(***************************************************************************)
EXTENDS OrderLifecycle, Integers, Sequences

CONSTANTS Customers,
          Sales,         \* counter sales
          Tills,         \* redemptions at a time
          Keys,          \* idempotency keys of redemptions
          NoKey,         \* stands for the keys that the triggers make up
          CustomerOf,    \* customer of each source
          TotalOf,       \* total_amount of each source
          NprPerPoint,   \* earn_npr_per_point
          MinPoints,     \* redemption_min_points
          MaxPoints      \* redemption_max_points

Sources == Orders \cup Sales

ASSUME LoyaltyAssumptions ==
    /\ Orders \cap Sales = {}
    /\ NoKey \notin Keys
    /\ CustomerOf \in [Sources -> Customers]
    /\ TotalOf \in [Sources -> Nat]
    /\ NprPerPoint \in Nat \ {0}
    /\ MinPoints \in Nat \ {0} /\ MaxPoints \in Nat

VARIABLES account,       \* customer_loyalty_accounts, by customer
          ledger,        \* loyalty_ledger, by customer
          saleStatus,    \* sales.sale_status, or "NONE"
          redemption     \* per till: the redemption under way

loyaltyVars == <<account, ledger, saleStatus, redemption>>
vars        == <<orderVars, loyaltyVars>>

Account == [open : BOOLEAN, points : Nat, earned : Nat, redeemed : Nat]
Entry   == [type : {"EARN", "REDEEM", "REVERSAL"}, source : Sources,
            key : Keys \cup {NoKey}, points : Int, balance : Nat]

\* What a till wants, and what it has read of the account.
Idle       == [pc |-> "idle"]
Redemption == [pc : {"idle"}]
              \cup [pc : {"asked"}, sale : Sales, key : Keys, points : MinPoints..MaxPoints]
              \cup [pc : {"locked"}, sale : Sales, key : Keys, points : MinPoints..MaxPoints,
                    seen : Nat]

Init ==
    /\ OInit
    /\ account = [c \in Customers |->
                    [open |-> FALSE, points |-> 0, earned |-> 0, redeemed |-> 0]]
    /\ ledger     = [c \in Customers |-> <<>>]
    /\ saleStatus = [x \in Sales |-> "NONE"]
    /\ redemption = [t \in Tills |-> Idle]

-----------------------------------------------------------------------------
(* Locks and lookups *)

\* No redemption holds the row of the sale.
SaleFree(x) == \A t \in Tills : redemption[t] # Idle => redemption[t].sale # x

BugAccountNotLocked(c) == TRUE

\* No redemption holds the row of the account.
AccountFree(c) ==
    \A t \in Tills : redemption[t].pc = "locked" => CustomerOf[redemption[t].sale] # c

\* The entries of a type for a source.
EntriesOf(s, type) ==
    {i \in DOMAIN ledger[CustomerOf[s]] :
        ledger[CustomerOf[s]][i].type = type /\ ledger[CustomerOf[s]][i].source = s}

KeyUsed(k) == \E c \in Customers : \E i \in DOMAIN ledger[c] : ledger[c][i].key = k

BugKeyNotUnique(k) == TRUE

\* loyalty_ledger.idempotency_key is unique.
KeyUnique(k) == ~KeyUsed(k)

BugRedeemedSign(s, type, key, points, before) ==
    LET c == CustomerOf[s] IN
    /\ account[c].points + points >= 0
    /\ ledger' = [ledger EXCEPT
           ![c] = Append(@, [type |-> type, source |-> s, key |-> key,
                             points |-> points, balance |-> before + points])]
    /\ account' = [account EXCEPT
           ![c] = [open     |-> TRUE,
                   points   |-> @.points + points,
                   earned   |-> IF type = "EARN" THEN @.earned + points ELSE @.earned,
                   redeemed |-> IF type = "REDEEM" THEN @.redeemed + points ELSE @.redeemed]]

\* An entry is posted with the balance that the poster has computed, and the
\* account follows; a check of the table keeps it from falling below zero.
Post(s, type, key, points, before) ==
    LET c == CustomerOf[s] IN
    /\ account[c].points + points >= 0
    /\ ledger' = [ledger EXCEPT
           ![c] = Append(@, [type |-> type, source |-> s, key |-> key,
                             points |-> points, balance |-> before + points])]
    /\ account' = [account EXCEPT
           ![c] = [open     |-> TRUE,
                   points   |-> @.points + points,
                   earned   |-> IF type = "EARN" THEN @.earned + points ELSE @.earned,
                   redeemed |-> IF type = "REDEEM" THEN @.redeemed - points ELSE @.redeemed]]

\* loyalty_mvp_account: the account is opened unless it is.
Open(c) == account' = [account EXCEPT ![c].open = TRUE]

-----------------------------------------------------------------------------
(* The triggers, which run inside the transaction that changes the status *)

BugEarnsAgain(s) == FALSE

HasEarned(s)   == EntriesOf(s, "EARN") # {}
HasReversed(s) == EntriesOf(s, "REVERSAL") # {}

\* loyalty_mvp_post_earn: one point per NprPerPoint, once for a source.
PostEarn(s) ==
    LET c == CustomerOf[s] IN
    /\ TotalOf[s] > 0 => AccountFree(c)
    /\ IF TotalOf[s] >= NprPerPoint /\ ~HasEarned(s)
       THEN Post(s, "EARN", NoKey, TotalOf[s] \div NprPerPoint, account[c].points)
       ELSE IF TotalOf[s] > 0
       THEN Open(c) /\ UNCHANGED ledger
       ELSE UNCHANGED <<account, ledger>>

\* What a reversal can take: all the source has earned, or all that is left.
Reversible(s) ==
    LET c == CustomerOf[s]
        n == ledger[c][CHOOSE i \in EntriesOf(s, "EARN") : TRUE].points
    IN  IF n <= account[c].points THEN n ELSE account[c].points

\* loyalty_mvp_reverse_earn.
ReverseEarn(s) ==
    LET c == CustomerOf[s] IN
    IF HasEarned(s) /\ ~HasReversed(s)
    THEN /\ AccountFree(c)
         /\ IF Reversible(s) > 0
            THEN Post(s, "REVERSAL", NoKey, -Reversible(s), account[c].points)
            ELSE UNCHANGED <<account, ledger>>
    ELSE UNCHANGED <<account, ledger>>

\* loyalty_mvp_sale_event and loyalty_mvp_order_event, for the statuses that
\* mean a purchase and its end.
Event(s, from, to, bought, undone) ==
    IF to = bought /\ from # bought THEN PostEarn(s)
    ELSE IF from = bought /\ to = undone THEN ReverseEarn(s)
    ELSE UNCHANGED <<account, ledger>>

OrderEvent(o) == Event(o, status[o], status'[o], "DELIVERED", "CANCELLED")

BugSaleEvent(x) == Event(x, saleStatus[x], saleStatus'[x], "COMPLETED", "RETURNED")

SaleEvent(x) == Event(x, saleStatus[x], saleStatus'[x], "COMPLETED", "VOIDED")

-----------------------------------------------------------------------------
(* Customers, the till, redemptions *)

\* A verified customer opens the account; a purchase would do so as well.
Enroll(c) ==
    /\ AccountFree(c)
    /\ Open(c)
    /\ UNCHANGED <<orderVars, ledger, saleStatus, redemption>>

CreateSale(x) ==
    /\ saleStatus[x] = "NONE"
    /\ saleStatus' = [saleStatus EXCEPT ![x] = "DRAFT"]
    /\ UNCHANGED <<orderVars, account, ledger, redemption>>

UpdateSaleStatus(x, to) ==
    /\ saleStatus[x] \in {"DRAFT", "PENDING"}
    /\ saleStatus' = [saleStatus EXCEPT ![x] = to]
    /\ SaleEvent(x)
    /\ UNCHANGED <<orderVars, redemption>>

\* voidSale, whose own entries are of another source type: it finds none here.
VoidSale(x) ==
    /\ saleStatus[x] \in {"DRAFT", "PENDING", "COMPLETED"}
    /\ SaleFree(x)
    /\ saleStatus' = [saleStatus EXCEPT ![x] = "VOIDED"]
    /\ SaleEvent(x)
    /\ UNCHANGED <<orderVars, redemption>>

\* redeemSale takes the sale and finds the key unused; a key that was used is
\* answered with its entry, whatever sale that is for.
AskRedemption(t, x, k, n) ==
    /\ redemption[t] = Idle
    /\ SaleFree(x)
    /\ saleStatus[x] = "COMPLETED"
    /\ ~KeyUsed(k)
    /\ redemption' = [redemption EXCEPT
                        ![t] = [pc |-> "asked", sale |-> x, key |-> k, points |-> n]]
    /\ UNCHANGED <<orderVars, account, ledger, saleStatus>>

\* It takes the account and reads the balance.
LockAccount(t) ==
    LET c == CustomerOf[redemption[t].sale] IN
    /\ redemption[t].pc = "asked"
    /\ AccountFree(c)
    /\ account[c].open
    /\ redemption' = [redemption EXCEPT
           ![t] = [pc |-> "locked", sale |-> redemption[t].sale, key |-> redemption[t].key,
                   points |-> redemption[t].points, seen |-> account[c].points]]
    /\ UNCHANGED <<orderVars, account, ledger, saleStatus>>

\* It posts the points, at most the balance and the total of the sale.
Redeem(t) ==
    LET r == redemption[t] IN
    /\ r.pc = "locked"
    /\ r.points <= r.seen
    /\ r.points <= TotalOf[r.sale]
    /\ KeyUnique(r.key)
    /\ Post(r.sale, "REDEEM", r.key, -r.points, r.seen)
    /\ redemption' = [redemption EXCEPT ![t] = Idle]
    /\ UNCHANGED <<orderVars, saleStatus>>

\* It is refused, or breaks off: the transaction rolls back.
RedemptionFails(t) ==
    /\ redemption[t] # Idle
    /\ redemption' = [redemption EXCEPT ![t] = Idle]
    /\ UNCHANGED <<orderVars, account, ledger, saleStatus>>

-----------------------------------------------------------------------------
ChangeOrder(o) ==
    /\ OrderStep(o)
    /\ OrderEvent(o)
    /\ UNCHANGED <<saleStatus, redemption>>

SaleStep(x) ==
    \/ CreateSale(x)
    \/ \E to \in {"PENDING", "COMPLETED", "VOIDED"} : UpdateSaleStatus(x, to)
    \/ VoidSale(x)

RedemptionStep(t) ==
    \/ \E x \in Sales, k \in Keys, n \in MinPoints..MaxPoints : AskRedemption(t, x, k, n)
    \/ LockAccount(t) \/ Redeem(t) \/ RedemptionFails(t)

Next ==
    \/ \E o \in Orders : ChangeOrder(o)
    \/ \E c \in Customers : Enroll(c)
    \/ \E x \in Sales : SaleStep(x)
    \/ \E t \in Tills : RedemptionStep(t)

Spec == Init /\ [][Next]_vars

-----------------------------------------------------------------------------
TypeOK ==
    /\ OrderTypeOK
    /\ account    \in [Customers -> Account]
    /\ ledger     \in [Customers -> Seq(Entry)]
    /\ saleStatus \in [Sales -> {"NONE", "DRAFT", "PENDING", "COMPLETED", "VOIDED"}]
    /\ redemption \in [Tills -> Redemption]

\* Reconciliation finds nothing: every entry carries on the balance of the one
\* before, none leaves it below zero, and the account shows the last one,
\* although purchases and redemptions of one customer meet at several tills.
Before(c, i) == IF i = 1 THEN 0 ELSE ledger[c][i - 1].balance
Balance(c)   == IF ledger[c] = <<>> THEN 0 ELSE ledger[c][Len(ledger[c])].balance
LedgerRunsAlong ==
    \A c \in Customers :
        /\ account[c].points = Balance(c)
        /\ \A i \in DOMAIN ledger[c] :
               ledger[c][i].balance = Before(c, i) + ledger[c][i].points

\* Lifecycle replay is safe: a source earns once and loses that once at most,
\* and never more than it earned, even if the legacy routes have it delivered
\* and cancelled several times.
SourceEarnsOnce ==
    \A c \in Customers : \A i, j \in DOMAIN ledger[c] :
        LET d == ledger[c][i]
            e == ledger[c][j]
        IN  /\ d.type = e.type /\ d.source = e.source /\ d.type # "REDEEM" => i = j
            /\ e.type = "REVERSAL" =>
                   \E k \in 1..j - 1 : /\ ledger[c][k].type = "EARN"
                                       /\ ledger[c][k].source = e.source
                                       /\ ledger[c][k].points + e.points >= 0

\* A redemption that is sent again, even at another till or for another sale,
\* is not posted again.
KeyRedeemsOnce ==
    \A c, d \in Customers : \A i \in DOMAIN ledger[c], j \in DOMAIN ledger[d] :
        ledger[c][i].key = ledger[d][j].key /\ ledger[c][i].key # NoKey => c = d /\ i = j

\* When a purchase is undone for the first time, its points are gone, or the
\* account is empty because they were spent.
Undone(s) == \/ s \in Orders /\ status[s] = "DELIVERED" /\ status'[s] = "CANCELLED"
             \/ s \in Sales /\ saleStatus[s] = "COMPLETED" /\ saleStatus'[s] = "VOIDED"
UndonePurchaseGivesUp(s) ==
    LET c == CustomerOf[s] IN
    Undone(s) /\ HasEarned(s) /\ ~HasReversed(s) =>
        \/ account'[c].points = account[c].points - TotalOf[s] \div NprPerPoint
        \/ account'[c].points = 0
ReversalTakesWhatIsLeft == [][\A s \in Sources : UndonePurchaseGivesUp(s)]_vars
=============================================================================
