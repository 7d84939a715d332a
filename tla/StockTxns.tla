------------------------------ MODULE StockTxns ------------------------------
(***************************************************************************)
(* The transactions that move stock, statement by statement.  CodOrders    *)
(* takes each of them as one step; here they interleave the way concurrent *)
(* requests of several backend processes do, under PostgreSQL's READ       *)
(* COMMITTED: a statement sees what was committed before it, and a         *)
(* transaction's own writes become visible to the others when it commits.  *)
(*                                                                         *)
(* What serialises them are the advisory lock of each product at a store,  *)
(* which a checkout, a delivery and a completed sale take in product       *)
(* order, and the row lock of the order or sale (SELECT .. FOR UPDATE).    *)
(* Carts and open sales are filled beforehand: items and saleItems never   *)
(* change.  Repeated attempts with one key are the subject of CartCheckout.*)
(***************************************************************************)
EXTENDS UnitCount

CONSTANTS Keys,          \* orders, one cart each
          Sales,         \* counter sales
          Skus,          \* products, as numbers: the order locks are taken in
          MaxQty,        \* largest quantity of a line
          StockCap,      \* bound: units of a product that ever come in
          Nobody         \* holder of a free lock

ASSUME StockTxnsAssumptions ==
    /\ IsFiniteSet(Keys) /\ IsFiniteSet(Sales)
    /\ Skus \subseteq Nat /\ IsFiniteSet(Skus)
    /\ MaxQty \in Nat /\ StockCap \in Nat

VARIABLES status,        \* web_orders.status; "PLACED" until it is dispatched
          reservation,   \* stock_reservations.status of the order's rows
          items,         \* quantities of the cart, then of the order
          saleStatus,    \* sales.sale_status
          saleItems,     \* quantities of the sale
          onHand,        \* sum of batch_inventory.quantity
          received,      \* sum of the OPENING_STOCK transactions
          issued,        \* sum of the ISSUE transactions
          running,       \* transactions between BEGIN and COMMIT or ROLLBACK
          lock,          \* advisory lock of each product: its holder
          done,          \* per transaction: the products it checked or deducted
          seen           \* per sale: units in the batches it has just read, or Unread

rowVars == <<status, reservation, saleStatus, onHand, received, issued>>
txnVars == <<running, lock, done, seen>>
vars    == <<rowVars, items, saleItems, txnVars>>

Checkouts  == {"checkout"} \X Keys
Deliveries == {"deliver"} \X Keys
Cancels    == {"cancel"} \X Keys
Sells      == {"sell"} \X Sales
Txns       == Checkouts \cup Deliveries \cup Cancels \cup Sells

ASSUME NobodyIsNoTxn == Nobody \notin Txns

Quantities == [Skus -> 0..MaxQty]
NonEmpty   == {q \in Quantities : \E s \in Skus : q[s] > 0}
Unread     == StockCap + 1

\* The quantities a transaction checks or deducts; a cancellation touches none.
Wanted(t) == CASE t \in Sells   -> saleItems[t[2]]
               [] t \in Cancels -> [s \in Skus |-> 0]
               [] OTHER         -> items[t[2]]
Lines(t)  == {s \in Skus : Wanted(t)[s] > 0}
Held(t)   == {s \in Skus : lock[s] = t}

\* Definitions named Bug.. vary the one they precede, as a mistake in the code
\* would; each breaks a property below, and nothing else refers to them.

\* The units that open orders reserve.
Reserving   == {k \in Keys : reservation[k] = "ACTIVE"}
Reserved(s) == TotalOf(Reserving, items, s, MaxQty)

\* What loadCanonicalCartItems calls available.
Available(s) == IF onHand[s] > Reserved(s) THEN onHand[s] - Reserved(s) ELSE 0

Init == /\ status      = [k \in Keys |-> "NONE"]
        /\ reservation = [k \in Keys |-> "NONE"]
        /\ items       \in [Keys -> NonEmpty]
        /\ saleStatus  = [x \in Sales |-> "DRAFT"]
        /\ saleItems   \in [Sales -> NonEmpty]
        /\ onHand      = [s \in Skus |-> 0]
        /\ received    = [s \in Skus |-> 0]
        /\ issued      = [s \in Skus |-> 0]
        /\ running     = {}
        /\ lock        = [s \in Skus |-> Nobody]
        /\ done        = [t \in Txns |-> {}]
        /\ seen        = [x \in Sales |-> Unread]

-----------------------------------------------------------------------------
(* Statements every transaction has *)

Begin(t) == /\ t \notin running
            /\ running' = running \cup {t}
            /\ UNCHANGED <<rowVars, items, saleItems, lock, done, seen>>

\* COMMIT and ROLLBACK end the transaction and give its locks back.
End(t) == /\ running' = running \ {t}
          /\ lock' = [s \in Skus |-> IF lock[s] = t THEN Nobody ELSE lock[s]]
          /\ done' = [done EXCEPT ![t] = {}]
          /\ seen' = [x \in Sales |-> IF t = <<"sell", x>> THEN Unread ELSE seen[x]]
          /\ UNCHANGED <<items, saleItems>>

Rollback(t) == End(t) /\ UNCHANGED rowVars

BugNoRowLock(k) == TRUE

\* Nobody holds the row of order k (SELECT .. FOR UPDATE).
OrderRowFree(k) == <<"deliver", k>> \notin running /\ <<"cancel", k>> \notin running

BugAnyOrder(t, s) == s \in Lines(t) \ Held(t)

\* The next product of t to lock: products are locked in ascending order.
NextToLock(t, s) == /\ s \in Lines(t) \ Held(t)
                    /\ \A r \in Lines(t) \ Held(t) : s <= r

BugNoAdvisoryLock(s) == TRUE

LockFree(s) == lock[s] = Nobody

\* A checkout locks all its products in one statement; a delivery or a sale
\* has worked on the products it holds before it locks the next.
LockProduct(t, s) ==
    /\ t \in running
    /\ NextToLock(t, s)
    /\ t \in Checkouts \/ done[t] = Held(t)
    /\ LockFree(s)
    /\ lock' = [lock EXCEPT ![s] = t]
    /\ UNCHANGED <<rowVars, items, saleItems, running, done, seen>>

\* The connection breaks, or a statement fails: nothing of t remains.
Fail(t) == t \in running /\ Rollback(t)

-----------------------------------------------------------------------------
(* Checkout *)

BeginCheckout(k) == status[k] = "NONE" /\ Begin(<<"checkout", k>>)

\* One query reads stock and reservations of all lines of the cart.
CheckCart(k) ==
    LET t == <<"checkout", k>> IN
    /\ t \in running
    /\ done[t] = {}
    /\ Lines(t) = Held(t)
    /\ IF \A s \in Skus : items[k][s] <= Available(s)
       THEN /\ done' = [done EXCEPT ![t] = Lines(t)]
            /\ UNCHANGED <<rowVars, items, saleItems, running, lock, seen>>
       ELSE Rollback(t)

CommitCheckout(k) ==
    LET t == <<"checkout", k>> IN
    /\ t \in running
    /\ done[t] = Lines(t)
    /\ status'      = [status EXCEPT ![k] = "PLACED"]
    /\ reservation' = [reservation EXCEPT ![k] = "ACTIVE"]
    /\ UNCHANGED <<saleStatus, onHand, received, issued>>
    /\ End(t)

-----------------------------------------------------------------------------
(* An order is dispatched, delivered or cancelled *)

\* Dispatch takes no product lock: with the order's row it is one step.
Dispatch(k) ==
    /\ OrderRowFree(k)
    /\ status[k] = "PLACED"
    /\ status' = [status EXCEPT ![k] = "OUT_FOR_DELIVERY"]
    /\ UNCHANGED <<reservation, saleStatus, onHand, received, issued,
                   items, saleItems, txnVars>>

BeginDelivery(k) == /\ OrderRowFree(k)
                    /\ status[k] = "OUT_FOR_DELIVERY"
                    /\ Begin(<<"deliver", k>>)

\* The batches of the product just locked are read and reduced.
TakeUnits(k, s) ==
    LET t == <<"deliver", k>> IN
    /\ t \in running
    /\ s \in Held(t) \ done[t]
    /\ IF items[k][s] <= onHand[s]
       THEN /\ done' = [done EXCEPT ![t] = @ \cup {s}]
            /\ UNCHANGED <<rowVars, items, saleItems, running, lock, seen>>
       ELSE Rollback(t)

BugDeductedTwice(q) ==
    /\ onHand' = [s \in Skus |-> onHand[s] - 2 * q[s]]
    /\ issued' = [s \in Skus |-> issued[s] + q[s]]

\* The writes of a transaction that deducts q.
Deduct(q) == /\ onHand' = [s \in Skus |-> onHand[s] - q[s]]
             /\ issued' = [s \in Skus |-> issued[s] + q[s]]

CommitDelivery(k) ==
    LET t == <<"deliver", k>> IN
    /\ t \in running
    /\ done[t] = Lines(t)
    /\ status' = [status EXCEPT ![k] = "DELIVERED"]
    /\ reservation' = [reservation EXCEPT
                         ![k] = IF @ = "ACTIVE" THEN "CONSUMED" ELSE @]
    /\ Deduct(items[k])
    /\ UNCHANGED <<saleStatus, received>>
    /\ End(t)

BeginCancel(k) == /\ OrderRowFree(k)
                  /\ status[k] \in {"PLACED", "OUT_FOR_DELIVERY"}
                  /\ Begin(<<"cancel", k>>)

CommitCancel(k) ==
    LET t == <<"cancel", k>> IN
    /\ t \in running
    /\ status' = [status EXCEPT ![k] = "CANCELLED"]
    /\ reservation' = [reservation EXCEPT
                         ![k] = IF @ = "ACTIVE" THEN "CANCELLED" ELSE @]
    /\ UNCHANGED <<saleStatus, onHand, received, issued>>
    /\ End(t)

-----------------------------------------------------------------------------
(* A sale is completed at the till *)

BeginSale(x) == saleStatus[x] = "DRAFT" /\ Begin(<<"sell", x>>)

\* First the batches are read, then, in a second statement, the reservations.
ReadBatches(x, s) ==
    LET t == <<"sell", x>> IN
    /\ t \in running
    /\ s \in Held(t) \ done[t]
    /\ seen[x] = Unread
    /\ seen' = [seen EXCEPT ![x] = onHand[s]]
    /\ UNCHANGED <<rowVars, items, saleItems, running, lock, done>>

Unreserved(x, s) == saleItems[x][s] + Reserved(s) <= seen[x]

CheckUnreserved(x, s) ==
    LET t == <<"sell", x>> IN
    /\ t \in running
    /\ s \in Held(t) \ done[t]
    /\ seen[x] # Unread
    /\ IF Unreserved(x, s)
       THEN /\ done' = [done EXCEPT ![t] = @ \cup {s}]
            /\ seen' = [seen EXCEPT ![x] = Unread]
            /\ UNCHANGED <<rowVars, items, saleItems, running, lock>>
       ELSE Rollback(t)

CommitSale(x) ==
    LET t == <<"sell", x>> IN
    /\ t \in running
    /\ done[t] = Lines(t)
    /\ saleStatus' = [saleStatus EXCEPT ![x] = "COMPLETED"]
    /\ Deduct(saleItems[x])
    /\ UNCHANGED <<status, reservation, received>>
    /\ End(t)

-----------------------------------------------------------------------------
\* Opening stock is inserted without any product lock.
AddOpeningStock(s, n) ==
    /\ received[s] + n <= StockCap
    /\ onHand'   = [onHand EXCEPT ![s] = @ + n]
    /\ received' = [received EXCEPT ![s] = @ + n]
    /\ UNCHANGED <<status, reservation, saleStatus, issued, items, saleItems, txnVars>>

\* A statement of a transaction that has begun.
CheckoutStatement(k) == CheckCart(k) \/ CommitCheckout(k)
DeliveryStatement(k) == (\E s \in Skus : TakeUnits(k, s)) \/ CommitDelivery(k)
SaleStatement(x) ==
    \/ \E s \in Skus : ReadBatches(x, s) \/ CheckUnreserved(x, s)
    \/ CommitSale(x)

Statement ==
    \/ \E k \in Keys : CheckoutStatement(k) \/ DeliveryStatement(k) \/ CommitCancel(k)
    \/ \E x \in Sales : SaleStatement(x)

Next ==
    \/ \E k \in Keys : \/ BeginCheckout(k) \/ Dispatch(k)
                       \/ BeginDelivery(k) \/ BeginCancel(k)
    \/ \E x \in Sales : BeginSale(x)
    \/ \E t \in Txns, s \in Skus : LockProduct(t, s)
    \/ \E t \in Txns : Fail(t)
    \/ \E s \in Skus, n \in 1..StockCap : AddOpeningStock(s, n)
    \/ Statement

\* A process that began a transaction goes on with it, and PostgreSQL grants a
\* lock to those who wait for it in the order they came.
Fairness ==
    /\ \A k \in Keys : /\ WF_vars(CheckoutStatement(k))
                       /\ WF_vars(DeliveryStatement(k))
                       /\ WF_vars(CommitCancel(k))
    /\ \A x \in Sales : WF_vars(SaleStatement(x))
    /\ \A t \in Txns : SF_vars(\E s \in Skus : LockProduct(t, s))

Spec     == Init /\ [][Next]_vars
FairSpec == Spec /\ Fairness

-----------------------------------------------------------------------------
TypeOK ==
    /\ status      \in [Keys -> {"NONE", "PLACED", "OUT_FOR_DELIVERY",
                               "DELIVERED", "CANCELLED"}]
    /\ reservation \in [Keys -> {"NONE", "ACTIVE", "CONSUMED", "CANCELLED"}]
    /\ items       \in [Keys -> NonEmpty]
    /\ saleStatus  \in [Sales -> {"DRAFT", "COMPLETED"}]
    /\ saleItems   \in [Sales -> NonEmpty]
    /\ onHand      \in [Skus -> Nat]
    /\ received    \in [Skus -> 0..StockCap]
    /\ issued      \in [Skus -> Nat]
    /\ running     \subseteq Txns
    /\ lock        \in [Skus -> Txns \cup {Nobody}]
    /\ done        \in [Txns -> SUBSET Skus]
    /\ seen        \in [Sales -> Nat]

\* No unit is handed out twice and none is lost when transactions fail half way.
StockConserved ==
    LET Delivered == {k \in Keys : status[k] = "DELIVERED"}
        Completed == {x \in Sales : saleStatus[x] = "COMPLETED"}
    IN  \A s \in Skus : received[s] = onHand[s]
                            + TotalOf(Delivered, items, s, MaxQty)
                            + TotalOf(Completed, saleItems, s, MaxQty)

\* A cancellation and a delivery of one order exclude each other: neither
\* overwrites what the other one wrote.
FinalStatesStay ==
    [][\A k \in Keys : status[k] \in {"DELIVERED", "CANCELLED"} =>
                          status'[k] = status[k]]_vars

\* Commits appear, product by product, as the steps of the promise about stock.
Promise == INSTANCE StockPromise WITH promised <- [s \in Skus |-> Reserved(s)]
KeepsStockPromise == Promise!Spec

\* Nobody waits for ever: a transaction that begins also ends.
EveryTransactionEnds == \A t \in Txns : t \in running ~> t \notin running
=============================================================================
