--------------------------- MODULE StockTxns_proofs ---------------------------
(***************************************************************************)
(* What the transactions of StockTxns guarantee for every number of orders,*)
(* sales, products and units, whatever the order of their statements.      *)
(***************************************************************************)
EXTENDS StockTxns, UnitCount_proofs

USE StockTxnsAssumptions

-----------------------------------------------------------------------------
(* The inductive invariant *)

\* A transaction begins in the status that its statements rely on, and the row
\* lock, or the transaction itself, keeps it until the end.
BegunRight ==
    /\ \A k \in Keys :
         /\ <<"checkout", k>> \in running => status[k] = "NONE"
         /\ <<"deliver", k>> \in running => /\ status[k] = "OUT_FOR_DELIVERY"
                                            /\ <<"cancel", k>> \notin running
         /\ <<"cancel", k>> \in running => status[k] \in {"PLACED", "OUT_FOR_DELIVERY"}
    /\ \A x \in Sales : <<"sell", x>> \in running => saleStatus[x] = "DRAFT"

\* The rows of an order in stock_reservations follow its status.
ReservationFollows == \A k \in Keys :
    /\ reservation[k] = "ACTIVE"    <=> status[k] \in {"PLACED", "OUT_FOR_DELIVERY"}
    /\ reservation[k] = "CONSUMED"  <=> status[k] = "DELIVERED"
    /\ reservation[k] = "CANCELLED" <=> status[k] = "CANCELLED"

\* A product lock belongs to a transaction that runs and has a line of the
\* product; only under the lock has a transaction checked or deducted it.
LocksAreHeld ==
    /\ \A s \in Skus : lock[s] # Nobody =>
           lock[s] \in running /\ Wanted(lock[s])[s] > 0
    /\ \A t \in Txns : \A s \in done[t] : lock[s] = t

\* What a checkout or a sale has checked is still there, and unreserved.
ChecksStillHold ==
    \A t \in Checkouts \cup Sells : \A s \in done[t] :
        Wanted(t)[s] + Reserved(s) <= onHand[s]

\* A sale works on one product at a time, and what it has read of the batches
\* of that product is still there.
ReadStillHolds ==
    \A x \in Sales :
        LET t == <<"sell", x>> IN
        /\ \A s, r \in Held(t) \ done[t] : s = r
        /\ seen[x] # Unread => /\ Held(t) # done[t]
                               /\ \A s \in Held(t) \ done[t] : seen[x] <= onHand[s]

\* Reserved units are on hand.
ReservedOnHand == \A s \in Skus : Reserved(s) <= onHand[s]

IInv == /\ TypeOK /\ BegunRight /\ ReservationFollows /\ LocksAreHeld
        /\ ChecksStillHold /\ ReadStillHolds /\ ReservedOnHand

-----------------------------------------------------------------------------
(* Transactions and their quantities *)

LEMMA TxnNames ==
    /\ \A k \in Keys : /\ <<"checkout", k>> \in Checkouts /\ <<"checkout", k>> \in Txns
                       /\ <<"deliver", k>> \in Deliveries /\ <<"deliver", k>> \in Txns
                       /\ <<"cancel", k>> \in Cancels /\ <<"cancel", k>> \in Txns
    /\ \A x \in Sales : <<"sell", x>> \in Sells /\ <<"sell", x>> \in Txns
    /\ \A t \in Checkouts : \E k \in Keys : t = <<"checkout", k>>
    /\ \A t \in Deliveries : \E k \in Keys : t = <<"deliver", k>>
    /\ \A t \in Cancels : \E k \in Keys : t = <<"cancel", k>>
    /\ \A t \in Sells : \E x \in Sales : t = <<"sell", x>>
    /\ Txns = Checkouts \cup Deliveries \cup Cancels \cup Sells
  BY DEF Txns, Checkouts, Deliveries, Cancels, Sells

\* What each transaction checks or deducts.
LEMMA WantedIs ==
    /\ \A k \in Keys : /\ Wanted(<<"checkout", k>>) = items[k]
                       /\ Wanted(<<"deliver", k>>) = items[k]
                       /\ Wanted(<<"cancel", k>>) = [s \in Skus |-> 0]
    /\ \A x \in Sales : Wanted(<<"sell", x>>) = saleItems[x]
<1>1. ASSUME NEW k \in Keys
      PROVE  /\ Wanted(<<"checkout", k>>) = items[k]
             /\ Wanted(<<"deliver", k>>) = items[k]
             /\ Wanted(<<"cancel", k>>) = [s \in Skus |-> 0]
  <2>1. /\ <<"checkout", k>> \notin Sells /\ <<"checkout", k>> \notin Cancels
        /\ <<"deliver", k>> \notin Sells /\ <<"deliver", k>> \notin Cancels
        /\ <<"cancel", k>> \notin Sells /\ <<"cancel", k>> \in Cancels
    BY DEF Sells, Cancels
  <2>2. <<"checkout", k>>[2] = k /\ <<"deliver", k>>[2] = k
    OBVIOUS
  <2> QED BY <2>1, <2>2 DEF Wanted
<1>2. ASSUME NEW x \in Sales PROVE Wanted(<<"sell", x>>) = saleItems[x]
  <2>1. <<"sell", x>> \in Sells /\ <<"sell", x>> \notin Cancels /\ <<"sell", x>>[2] = x
    BY DEF Sells, Cancels
  <2> QED BY <2>1 DEF Wanted
<1> QED BY <1>1, <1>2

LEMMA WantedIsNat ==
    ASSUME TypeOK, NEW t \in Txns, NEW s \in Skus
    PROVE  Wanted(t)[s] \in Nat
<1>1. /\ \A k \in Keys : items[k][s] \in Nat
      /\ \A x \in Sales : saleItems[x][s] \in Nat
  BY DEF TypeOK, NonEmpty, Quantities
<1>2. CASE \E k \in Keys : t \in {<<"checkout", k>>, <<"deliver", k>>}
  <2>1. PICK k \in Keys : Wanted(t) = items[k]
    BY <1>2, WantedIs
  <2> QED BY <1>1, <2>1
<1>3. CASE \E k \in Keys : t = <<"cancel", k>>
  <2>1. Wanted(t) = [r \in Skus |-> 0]
    BY <1>3, WantedIs
  <2> QED BY <2>1
<1>4. CASE \E x \in Sales : t = <<"sell", x>>
  <2>1. PICK x \in Sales : Wanted(t) = saleItems[x]
    BY <1>4, WantedIs
  <2> QED BY <1>1, <2>1
<1> QED BY <1>2, <1>3, <1>4, TxnNames

\* The quantities never change.
LEMMA WantedStays ==
    ASSUME [Next]_vars
    PROVE  items' = items /\ saleItems' = saleItems /\ \A t \in Txns : Wanted(t)' = Wanted(t)
<1>1. items' = items /\ saleItems' = saleItems
  BY DEF Next, Statement, CheckoutStatement, DeliveryStatement, SaleStatement, vars,
         BeginCheckout, Dispatch, BeginDelivery, BeginCancel, BeginSale, LockProduct, Fail,
         AddOpeningStock, CheckCart, CommitCheckout, TakeUnits, CommitDelivery, CommitCancel,
         ReadBatches, CheckUnreserved, CommitSale, Begin, End, Rollback
<1> QED BY <1>1 DEF Wanted

\* A transaction that is through with its lines holds their locks.
LEMMA ThroughHolds ==
    ASSUME IInv, NEW t \in Txns, done[t] = Lines(t), NEW s \in Skus, Wanted(t)[s] # 0
    PROVE  s \in done[t] /\ lock[s] = t
<1>1. Wanted(t)[s] > 0
  BY WantedIsNat DEF IInv
<1> QED BY <1>1 DEF Lines, IInv, LocksAreHeld

-----------------------------------------------------------------------------
(* How reservations change *)

LEMMA ReservedIsNat ==
    ASSUME NEW s
    PROVE  Reserved(s) \in Nat /\ IsFiniteSet(Reserving)
<1>1. IsFiniteSet(Reserving)
  BY FS_Subset DEF Reserving
<1> QED BY <1>1, TotalIsNat DEF Reserved

LEMMA ReservedSame ==
    ASSUME Reserving' = Reserving, items' = items, NEW s
    PROVE  Reserved(s)' = Reserved(s)
  BY DEF Reserved

\* A new order reserves its quantities on top.
LEMMA ReservedMore ==
    ASSUME TypeOK, items' = items, NEW k \in Keys, k \notin Reserving,
           Reserving' = Reserving \cup {k}, NEW s \in Skus
    PROVE  Reserved(s)' = Reserved(s) + items[k][s]
<1>1. IsFiniteSet(Reserving)
  BY ReservedIsNat
<1>2. items[k][s] \in 0..MaxQty
  BY DEF TypeOK, NonEmpty, Quantities
<1>3. TotalOf(Reserving \cup {k}, items, s, MaxQty)
        = TotalOf(Reserving, items, s, MaxQty) + items[k][s]
  BY <1>1, <1>2, TotalOneMore
<1> QED BY <1>3 DEF Reserved

\* An order that stops reserving gives its quantities free.
LEMMA ReservedLess ==
    ASSUME TypeOK, items' = items, NEW k \in Reserving,
           Reserving' = Reserving \ {k}, NEW s \in Skus
    PROVE  Reserved(s) = Reserved(s)' + items[k][s] /\ Reserved(s)' \in Nat
<1>1. IsFiniteSet(Reserving)
  BY ReservedIsNat
<1>2. items[k][s] \in 0..MaxQty
  BY DEF TypeOK, NonEmpty, Quantities, Reserving
<1>3. TotalOf(Reserving, items, s, MaxQty)
        = TotalOf(Reserving \ {k}, items, s, MaxQty) + items[k][s]
  BY <1>1, <1>2, TotalOneLess
<1>4. TotalOf(Reserving \ {k}, items, s, MaxQty) \in Nat
  BY <1>1, FS_RemoveElement, TotalIsNat
<1> QED BY <1>3, <1>4 DEF Reserved

-----------------------------------------------------------------------------
(* The effect of every step on the stock, in one place *)

DeliveredKeys  == {k \in Keys : status[k] = "DELIVERED"}
CompletedSales == {x \in Sales : saleStatus[x] = "COMPLETED"}

stock  == <<onHand, received, issued>>
finals == <<DeliveredKeys, CompletedSales>>

\* t was through with its lines, and gives back its locks.
Commits(t) == /\ done[t] = Lines(t)
              /\ lock' = [s \in Skus |-> IF lock[s] = t THEN Nobody ELSE lock[s]]

Promising(k) ==
    /\ k \notin Reserving /\ Reserving' = Reserving \cup {k}
    /\ Commits(<<"checkout", k>>)
    /\ UNCHANGED <<stock, finals>>
Releasing(k) ==
    /\ k \in Reserving /\ Reserving' = Reserving \ {k}
    /\ UNCHANGED <<stock, finals>>
Fulfilling(k) ==
    /\ k \in Reserving /\ Reserving' = Reserving \ {k}
    /\ k \notin DeliveredKeys /\ DeliveredKeys' = DeliveredKeys \cup {k}
    /\ Commits(<<"deliver", k>>)
    /\ Deduct(items[k])
    /\ UNCHANGED <<received, CompletedSales>>
Selling(x) ==
    /\ Reserving' = Reserving
    /\ x \notin CompletedSales /\ CompletedSales' = CompletedSales \cup {x}
    /\ Commits(<<"sell", x>>)
    /\ Deduct(saleItems[x])
    /\ UNCHANGED <<received, DeliveredKeys>>
Receiving(s, n) ==
    /\ Reserving' = Reserving
    /\ onHand'   = [onHand EXCEPT ![s] = @ + n]
    /\ received' = [received EXCEPT ![s] = @ + n]
    /\ UNCHANGED <<issued, finals>>
Resting == Reserving' = Reserving /\ UNCHANGED <<stock, finals>>

LEMMA StepMoves ==
    ASSUME IInv, [Next]_vars
    PROVE  \/ \E k \in Keys : Promising(k) \/ Releasing(k) \/ Fulfilling(k)
           \/ \E x \in Sales : Selling(x)
           \/ \E s \in Skus, n \in 1..StockCap : Receiving(s, n)
           \/ Resting
<1> USE DEF IInv, TypeOK, Reserving, stock, finals, DeliveredKeys, CompletedSales
<1>1. ASSUME NEW k \in Keys, CommitCheckout(k)
      PROVE  Promising(k)
  <2>1. status[k] = "NONE" /\ reservation[k] # "ACTIVE"
    BY <1>1 DEF CommitCheckout, BegunRight, ReservationFollows
  <2> QED BY <1>1, <2>1 DEF CommitCheckout, End, Promising, Commits
<1>2. ASSUME NEW k \in Keys, CommitCancel(k)
      PROVE  Releasing(k)
  <2>1. status[k] \in {"PLACED", "OUT_FOR_DELIVERY"} /\ reservation[k] = "ACTIVE"
    BY <1>2 DEF CommitCancel, BegunRight, ReservationFollows
  <2> QED BY <1>2, <2>1 DEF CommitCancel, End, Releasing
<1>3. ASSUME NEW k \in Keys, CommitDelivery(k)
      PROVE  Fulfilling(k)
  <2>1. status[k] = "OUT_FOR_DELIVERY" /\ reservation[k] = "ACTIVE"
    BY <1>3 DEF CommitDelivery, BegunRight, ReservationFollows
  <2> QED BY <1>3, <2>1 DEF CommitDelivery, End, Fulfilling, Commits
<1>4. ASSUME NEW x \in Sales, CommitSale(x)
      PROVE  Selling(x)
  <2>1. saleStatus[x] = "DRAFT"
    BY <1>4 DEF CommitSale, BegunRight
  <2> QED BY <1>4, <2>1 DEF CommitSale, End, Selling, Commits
<1>5. ASSUME NEW s \in Skus, NEW n \in 1..StockCap, AddOpeningStock(s, n)
      PROVE  Receiving(s, n)
  BY <1>5 DEF AddOpeningStock, Receiving
<1>6. ASSUME NEW k \in Keys, Dispatch(k)
      PROVE  Resting
  BY <1>6 DEF Dispatch, Resting
<1>7. CASE UNCHANGED rowVars
  BY <1>7 DEF rowVars, Resting
<1>8. ASSUME NEW k \in Keys, CheckCart(k) \/ \E s \in Skus : TakeUnits(k, s)
      PROVE  UNCHANGED rowVars
  BY <1>8 DEF CheckCart, TakeUnits, Rollback
<1>9. ASSUME NEW x \in Sales, \E s \in Skus : ReadBatches(x, s) \/ CheckUnreserved(x, s)
      PROVE  UNCHANGED rowVars
  BY <1>9 DEF ReadBatches, CheckUnreserved, Rollback
<1>10. CASE \E k \in Keys : BeginCheckout(k) \/ BeginDelivery(k) \/ BeginCancel(k)
  BY <1>7, <1>10 DEF BeginCheckout, BeginDelivery, BeginCancel, Begin
<1>11. CASE \E x \in Sales : BeginSale(x)
  BY <1>7, <1>11 DEF BeginSale, Begin
<1>12. CASE \E t \in Txns : Fail(t) \/ \E s \in Skus : LockProduct(t, s)
  BY <1>7, <1>12 DEF Fail, Rollback, LockProduct
<1>13. CASE Statement
  BY <1>1, <1>2, <1>3, <1>4, <1>7, <1>8, <1>9, <1>13
     DEF Statement, CheckoutStatement, DeliveryStatement, SaleStatement
<1>14. CASE UNCHANGED vars
  BY <1>7, <1>14 DEF vars
<1> QED
  BY <1>5, <1>6, <1>10, <1>11, <1>12, <1>13, <1>14 DEF Next

\* A step leaves every product with as much as is reserved of it, and takes
\* nothing of a product whose lock is held when the step is done.
LEMMA StockStep ==
    ASSUME IInv, [Next]_vars, NEW s \in Skus
    PROVE  /\ onHand'[s] \in Nat /\ Reserved(s)' \in Nat /\ Reserved(s)' <= onHand'[s]
           /\ lock'[s] # Nobody => Reserved(s)' <= Reserved(s) /\ onHand[s] <= onHand'[s]
<1> DEFINE Goal == /\ onHand'[s] \in Nat /\ Reserved(s)' \in Nat /\ Reserved(s)' <= onHand'[s]
                   /\ lock'[s] # Nobody => Reserved(s)' <= Reserved(s) /\ onHand[s] <= onHand'[s]
<1>0. TypeOK /\ items' = items
  BY WantedStays DEF IInv
<1>1. PICK r \in Nat, h \in Nat : r = Reserved(s) /\ h = onHand[s] /\ r <= h
  BY ReservedIsNat DEF IInv, TypeOK, ReservedOnHand
<1>2. /\ \A k \in Keys : items[k][s] \in Nat
      /\ \A x \in Sales : saleItems[x][s] \in Nat
  BY DEF IInv, TypeOK, NonEmpty, Quantities
<1>3. ASSUME NEW k \in Keys, Promising(k)
      PROVE  Goal
  <2> DEFINE t == <<"checkout", k>>
  <2>1. PICK n \in Nat : n = items[k][s] /\ n = Wanted(t)[s]
    BY <1>2, WantedIs
  <2>2. Reserved(s)' = r + n
    BY <1>0, <1>1, <1>3, <2>1, ReservedMore DEF Promising
  <2>3. onHand'[s] = h
    BY <1>1, <1>3 DEF Promising, stock
  <2>4. n # 0 => lock'[s] = Nobody /\ n + r <= h
    <3> SUFFICES ASSUME n # 0 PROVE lock'[s] = Nobody /\ n + r <= h
      OBVIOUS
    <3>1. s \in done[t] /\ lock[s] = t
      BY <1>3, <2>1, TxnNames, ThroughHolds DEF Promising, Commits
    <3>2. n + r <= h
      BY <1>1, <2>1, <3>1, TxnNames DEF IInv, ChecksStillHold
    <3> QED BY <1>3, <3>1, <3>2 DEF Promising, Commits
  <2> QED BY <1>1, <2>2, <2>3, <2>4
<1>4. ASSUME NEW k \in Keys, Releasing(k)
      PROVE  Goal
  <2>1. PICK n \in Nat : n = items[k][s]
    BY <1>2
  <2>2. Reserved(s)' \in Nat /\ r = Reserved(s)' + n
    BY <1>0, <1>1, <1>4, <2>1, ReservedLess DEF Releasing
  <2>3. onHand'[s] = h
    BY <1>1, <1>4 DEF Releasing, stock
  <2> QED BY <1>1, <2>2, <2>3
<1>5. ASSUME NEW k \in Keys, Fulfilling(k)
      PROVE  Goal
  <2> DEFINE t == <<"deliver", k>>
  <2>1. PICK n \in Nat : n = items[k][s] /\ n = Wanted(t)[s]
    BY <1>2, WantedIs
  <2>2. Reserved(s)' \in Nat /\ r = Reserved(s)' + n
    BY <1>0, <1>1, <1>5, <2>1, ReservedLess DEF Fulfilling
  <2>3. onHand'[s] = h - n
    BY <1>1, <1>5, <2>1 DEF Fulfilling, Deduct
  <2>4. n # 0 => lock'[s] = Nobody
    <3> SUFFICES ASSUME n # 0 PROVE lock'[s] = Nobody
      OBVIOUS
    <3>1. lock[s] = t
      BY <1>5, <2>1, TxnNames, ThroughHolds DEF Fulfilling, Commits
    <3> QED BY <1>5, <3>1 DEF Fulfilling, Commits
  <2> QED BY <1>1, <2>2, <2>3, <2>4
<1>6. ASSUME NEW x \in Sales, Selling(x)
      PROVE  Goal
  <2> DEFINE t == <<"sell", x>>
  <2>1. PICK n \in Nat : n = saleItems[x][s] /\ n = Wanted(t)[s]
    BY <1>2, WantedIs
  <2>2. Reserved(s)' = r
    BY <1>0, <1>1, <1>6, ReservedSame DEF Selling
  <2>3. onHand'[s] = h - n
    BY <1>1, <1>6, <2>1 DEF Selling, Deduct
  <2>4. n # 0 => lock'[s] = Nobody /\ n + r <= h
    <3> SUFFICES ASSUME n # 0 PROVE lock'[s] = Nobody /\ n + r <= h
      OBVIOUS
    <3>1. s \in done[t] /\ lock[s] = t
      BY <1>6, <2>1, TxnNames, ThroughHolds DEF Selling, Commits
    <3>2. n + r <= h
      BY <1>1, <2>1, <3>1, TxnNames DEF IInv, ChecksStillHold
    <3> QED BY <1>6, <3>1, <3>2 DEF Selling, Commits
  <2> QED BY <1>1, <2>2, <2>3, <2>4
<1>7. ASSUME NEW i \in Skus, NEW n \in 1..StockCap, Receiving(i, n)
      PROVE  Goal
  <2>1. Reserved(s)' = r
    BY <1>0, <1>1, <1>7, ReservedSame DEF Receiving
  <2>2. PICK g \in Nat : g = onHand'[s] /\ h <= g
    BY <1>0, <1>1, <1>7 DEF Receiving, TypeOK
  <2> QED BY <1>1, <2>1, <2>2
<1>8. CASE Resting
  BY <1>0, <1>1, <1>8, ReservedSame DEF Resting, stock
<1> QED BY <1>3, <1>4, <1>5, <1>6, <1>7, <1>8, StepMoves

-----------------------------------------------------------------------------
(* Every step keeps the invariant *)

LEMMA EndTypes ==
    ASSUME TypeOK, NEW t \in Txns, End(t)
    PROVE  /\ items' = items /\ saleItems' = saleItems
           /\ running' \subseteq Txns
           /\ lock' \in [Skus -> Txns \cup {Nobody}]
           /\ done' \in [Txns -> SUBSET Skus]
           /\ seen' \in [Sales -> Nat]
<1>1. Unread \in Nat
  BY DEF Unread
<1> QED BY <1>1 DEF End, TypeOK

LEMMA TypeStep ==
    ASSUME IInv, [Next]_vars
    PROVE  TypeOK'
<1> TypeOK
  BY DEF IInv
<1> USE DEF rowVars, txnVars
<1>1. onHand' \in [Skus -> Nat]
  <2>1. \A s \in Skus : onHand'[s] \in Nat
    BY StockStep
  <2>2. onHand' = [s \in Skus |-> onHand'[s]]
    <3>1. CASE onHand' = onHand
      BY <3>1 DEF TypeOK
    <3>2. ASSUME NEW q, Deduct(q) PROVE onHand' = [s \in Skus |-> onHand'[s]]
      BY <3>2 DEF Deduct
    <3>3. ASSUME NEW s \in Skus, NEW n \in 1..StockCap, Receiving(s, n)
          PROVE  onHand' = [i \in Skus |-> onHand'[i]]
      BY <3>3 DEF Receiving, TypeOK
    <3> QED BY <3>1, <3>2, <3>3, StepMoves
            DEF Promising, Releasing, Fulfilling, Selling, Resting, stock
  <2> QED BY <2>1, <2>2
<1>2. ASSUME NEW t \in Txns, Begin(t) PROVE TypeOK'
  BY <1>2 DEF Begin, TypeOK
<1>3. ASSUME NEW t \in Txns, Rollback(t) PROVE TypeOK'
  BY <1>3, EndTypes DEF Rollback, TypeOK
<1>4. ASSUME NEW t \in Txns, NEW s \in Skus, LockProduct(t, s) PROVE TypeOK'
  BY <1>4 DEF LockProduct, TypeOK
<1>5. ASSUME NEW k \in Keys, BeginCheckout(k) \/ BeginDelivery(k) \/ BeginCancel(k)
      PROVE  TypeOK'
  BY <1>2, <1>5, TxnNames DEF BeginCheckout, BeginDelivery, BeginCancel
<1>6. ASSUME NEW x \in Sales, BeginSale(x) PROVE TypeOK'
  BY <1>2, <1>6, TxnNames DEF BeginSale
<1>7. ASSUME NEW k \in Keys, Dispatch(k) PROVE TypeOK'
  BY <1>7 DEF Dispatch, TypeOK
<1>8. ASSUME NEW s \in Skus, NEW n \in 1..StockCap, AddOpeningStock(s, n) PROVE TypeOK'
  <2>1. received' \in [Skus -> 0..StockCap]
    BY <1>8 DEF AddOpeningStock, TypeOK
  <2> QED BY <1>1, <1>8, <2>1 DEF AddOpeningStock, TypeOK
<1>9. ASSUME NEW k \in Keys, CheckCart(k) PROVE TypeOK'
  <2>1. CASE Rollback(<<"checkout", k>>)
    BY <1>3, <2>1, TxnNames
  <2>2. CASE ~Rollback(<<"checkout", k>>)
    <3>1. done' = [done EXCEPT ![<<"checkout", k>>] = Lines(<<"checkout", k>>)]
          /\ UNCHANGED <<rowVars, items, saleItems, running, lock, seen>>
      BY <1>9, <2>2 DEF CheckCart
    <3>2. Lines(<<"checkout", k>>) \subseteq Skus
      BY DEF Lines
    <3> QED BY <3>1, <3>2 DEF TypeOK
  <2> QED BY <2>1, <2>2
<1>10. ASSUME NEW k \in Keys, CommitCheckout(k) PROVE TypeOK'
  <2>1. status' \in [Keys -> {"NONE", "PLACED", "OUT_FOR_DELIVERY", "DELIVERED", "CANCELLED"}]
    BY <1>10 DEF CommitCheckout, TypeOK
  <2>2. reservation' \in [Keys -> {"NONE", "ACTIVE", "CONSUMED", "CANCELLED"}]
    BY <1>10 DEF CommitCheckout, TypeOK
  <2>3. /\ items' = items /\ saleItems' = saleItems
        /\ running' \subseteq Txns
        /\ lock' \in [Skus -> Txns \cup {Nobody}]
        /\ done' \in [Txns -> SUBSET Skus]
        /\ seen' \in [Sales -> Nat]
    BY <1>10, EndTypes, TxnNames DEF CommitCheckout
  <2> QED BY <1>1, <1>10, <2>1, <2>2, <2>3 DEF CommitCheckout, TypeOK
<1>11. ASSUME NEW k \in Keys, CommitCancel(k) PROVE TypeOK'
  <2>1. status' \in [Keys -> {"NONE", "PLACED", "OUT_FOR_DELIVERY", "DELIVERED", "CANCELLED"}]
    BY <1>11 DEF CommitCancel, TypeOK
  <2>2. reservation' \in [Keys -> {"NONE", "ACTIVE", "CONSUMED", "CANCELLED"}]
    BY <1>11 DEF CommitCancel, TypeOK
  <2>3. /\ items' = items /\ saleItems' = saleItems
        /\ running' \subseteq Txns
        /\ lock' \in [Skus -> Txns \cup {Nobody}]
        /\ done' \in [Txns -> SUBSET Skus]
        /\ seen' \in [Sales -> Nat]
    BY <1>11, EndTypes, TxnNames DEF CommitCancel
  <2> QED BY <1>1, <1>11, <2>1, <2>2, <2>3 DEF CommitCancel, TypeOK
<1>12. ASSUME NEW k \in Keys, CommitDelivery(k) PROVE TypeOK'
  <2>1. status' \in [Keys -> {"NONE", "PLACED", "OUT_FOR_DELIVERY", "DELIVERED", "CANCELLED"}]
    BY <1>12 DEF CommitDelivery, TypeOK
  <2>2. reservation' \in [Keys -> {"NONE", "ACTIVE", "CONSUMED", "CANCELLED"}]
    BY <1>12 DEF CommitDelivery, TypeOK
  <2>3. issued' \in [Skus -> Nat]
    <3>1. \A s \in Skus : items[k][s] \in Nat
      BY DEF TypeOK, NonEmpty, Quantities
    <3> QED BY <1>12, <3>1 DEF CommitDelivery, Deduct, TypeOK
  <2>4. /\ items' = items /\ saleItems' = saleItems
        /\ running' \subseteq Txns
        /\ lock' \in [Skus -> Txns \cup {Nobody}]
        /\ done' \in [Txns -> SUBSET Skus]
        /\ seen' \in [Sales -> Nat]
    BY <1>12, EndTypes, TxnNames DEF CommitDelivery
  <2> QED BY <1>1, <1>12, <2>1, <2>2, <2>3, <2>4 DEF CommitDelivery, TypeOK
<1>13. ASSUME NEW x \in Sales, CommitSale(x) PROVE TypeOK'
  <2>1. saleStatus' \in [Sales -> {"DRAFT", "COMPLETED"}]
    BY <1>13 DEF CommitSale, TypeOK
  <2>2. issued' \in [Skus -> Nat]
    <3>1. \A s \in Skus : saleItems[x][s] \in Nat
      BY DEF TypeOK, NonEmpty, Quantities
    <3> QED BY <1>13, <3>1 DEF CommitSale, Deduct, TypeOK
  <2>3. /\ items' = items /\ saleItems' = saleItems
        /\ running' \subseteq Txns
        /\ lock' \in [Skus -> Txns \cup {Nobody}]
        /\ done' \in [Txns -> SUBSET Skus]
        /\ seen' \in [Sales -> Nat]
    BY <1>13, EndTypes, TxnNames DEF CommitSale
  <2> QED BY <1>1, <1>13, <2>1, <2>2, <2>3 DEF CommitSale, TypeOK
<1>14. ASSUME NEW k \in Keys, NEW s \in Skus, TakeUnits(k, s) PROVE TypeOK'
  <2>1. CASE Rollback(<<"deliver", k>>)
    BY <1>3, <2>1, TxnNames
  <2>2. CASE ~Rollback(<<"deliver", k>>)
    <3>1. /\ done' = [done EXCEPT ![<<"deliver", k>>] = @ \cup {s}]
          /\ UNCHANGED <<rowVars, items, saleItems, running, lock, seen>>
      BY <1>14, <2>2 DEF TakeUnits
    <3>2. done' \in [Txns -> SUBSET Skus]
      BY <3>1 DEF TypeOK
    <3> QED BY <3>1, <3>2 DEF TypeOK
  <2> QED BY <2>1, <2>2
<1>15. ASSUME NEW x \in Sales, NEW s \in Skus, ReadBatches(x, s) PROVE TypeOK'
  BY <1>15 DEF ReadBatches, TypeOK
<1>16. ASSUME NEW x \in Sales, NEW s \in Skus, CheckUnreserved(x, s) PROVE TypeOK'
  <2>1. CASE Rollback(<<"sell", x>>)
    BY <1>3, <2>1, TxnNames
  <2>2. CASE ~Rollback(<<"sell", x>>)
    <3>1. /\ done' = [done EXCEPT ![<<"sell", x>>] = @ \cup {s}]
          /\ seen' = [seen EXCEPT ![x] = Unread]
          /\ UNCHANGED <<rowVars, items, saleItems, running, lock>>
      BY <1>16, <2>2 DEF CheckUnreserved
    <3>2. done' \in [Txns -> SUBSET Skus]
      BY <3>1 DEF TypeOK
    <3>3. seen' \in [Sales -> Nat]
      <4>1. Unread \in Nat
        BY DEF Unread
      <4> QED BY <3>1, <4>1 DEF TypeOK
    <3> QED BY <3>1, <3>2, <3>3 DEF TypeOK
  <2> QED BY <2>1, <2>2
<1>17. CASE UNCHANGED vars
  BY <1>17 DEF vars, TypeOK
<1>18. CASE Statement
  BY <1>9, <1>10, <1>11, <1>12, <1>13, <1>14, <1>15, <1>16, <1>18
     DEF Statement, CheckoutStatement, DeliveryStatement, SaleStatement
<1> QED
  BY <1>3, <1>4, <1>5, <1>6, <1>7, <1>8, <1>17, <1>18 DEF Next, Fail

LEMMA RowsStep ==
    ASSUME IInv, [Next]_vars
    PROVE  BegunRight' /\ ReservationFollows'
<1> USE DEF IInv, TypeOK, BegunRight, ReservationFollows, rowVars, txnVars
<1>1. ASSUME UNCHANGED <<status, reservation, saleStatus>>, running' \subseteq running
      PROVE  BegunRight' /\ ReservationFollows'
  BY <1>1
<1>2. ASSUME NEW k \in Keys, BeginCheckout(k) PROVE BegunRight' /\ ReservationFollows'
  BY <1>2 DEF BeginCheckout, Begin
<1>3. ASSUME NEW k \in Keys, BeginDelivery(k) PROVE BegunRight' /\ ReservationFollows'
  BY <1>3 DEF BeginDelivery, Begin, OrderRowFree
<1>4. ASSUME NEW k \in Keys, BeginCancel(k) PROVE BegunRight' /\ ReservationFollows'
  BY <1>4 DEF BeginCancel, Begin, OrderRowFree
<1>5. ASSUME NEW x \in Sales, BeginSale(x) PROVE BegunRight' /\ ReservationFollows'
  BY <1>5 DEF BeginSale, Begin
<1>6. ASSUME NEW k \in Keys, Dispatch(k) PROVE BegunRight' /\ ReservationFollows'
  BY <1>6 DEF Dispatch, OrderRowFree
<1>7. ASSUME NEW k \in Keys, CommitCheckout(k) PROVE BegunRight' /\ ReservationFollows'
  BY <1>7 DEF CommitCheckout, End
<1>8. ASSUME NEW k \in Keys, CommitDelivery(k) PROVE BegunRight' /\ ReservationFollows'
  BY <1>8 DEF CommitDelivery, End
<1>9. ASSUME NEW k \in Keys, CommitCancel(k) PROVE BegunRight' /\ ReservationFollows'
  BY <1>9 DEF CommitCancel, End
<1>10. ASSUME NEW x \in Sales, CommitSale(x) PROVE BegunRight' /\ ReservationFollows'
  BY <1>10 DEF CommitSale, End
<1>11. ASSUME NEW s \in Skus, NEW n \in 1..StockCap, AddOpeningStock(s, n)
       PROVE  BegunRight' /\ ReservationFollows'
  BY <1>1, <1>11 DEF AddOpeningStock
<1>12. ASSUME NEW k \in Keys, CheckCart(k) \/ \E s \in Skus : TakeUnits(k, s)
       PROVE  BegunRight' /\ ReservationFollows'
  BY <1>1, <1>12 DEF CheckCart, TakeUnits, Rollback, End
<1>13. ASSUME NEW x \in Sales, \E s \in Skus : ReadBatches(x, s) \/ CheckUnreserved(x, s)
       PROVE  BegunRight' /\ ReservationFollows'
  BY <1>1, <1>13 DEF ReadBatches, CheckUnreserved, Rollback, End
<1>14. ASSUME NEW t \in Txns, Fail(t) \/ \E s \in Skus : LockProduct(t, s)
       PROVE  BegunRight' /\ ReservationFollows'
  BY <1>1, <1>14 DEF Fail, Rollback, End, LockProduct
<1>15. CASE UNCHANGED vars
  BY <1>1, <1>15 DEF vars
<1>16. CASE Statement
  BY <1>7, <1>8, <1>9, <1>10, <1>12, <1>13, <1>16
     DEF Statement, CheckoutStatement, DeliveryStatement, SaleStatement
<1> QED
  BY <1>2, <1>3, <1>4, <1>5, <1>6, <1>11, <1>14, <1>15, <1>16 DEF Next

-----------------------------------------------------------------------------
(* What a step does to the locks and to what transactions know *)

\* One transaction ends; or it takes a lock; or it is done with products it
\* holds, because it has checked them; or a sale reads; or nobody moves.
Locks(t, s) ==
    /\ t \in running /\ NextToLock(t, s) /\ lock[s] = Nobody
    /\ t \in Checkouts \/ done[t] = Held(t)
    /\ lock' = [lock EXCEPT ![s] = t]
    /\ UNCHANGED <<rowVars, running, done, seen>>
Checks(t, D) ==
    /\ D \subseteq Held(t) \ done[t]
    /\ t \in Sells => D # {}
    /\ t \in Checkouts \cup Sells => \A s \in D : Wanted(t)[s] + Reserved(s) <= onHand[s]
    /\ done' = [done EXCEPT ![t] = @ \cup D]
    /\ seen' = [x \in Sales |-> IF t = <<"sell", x>> THEN Unread ELSE seen[x]]
    /\ UNCHANGED <<rowVars, running, lock>>
Reads(x, s) ==
    /\ s \in Held(<<"sell", x>>) \ done[<<"sell", x>>]
    /\ seen' = [seen EXCEPT ![x] = onHand[s]]
    /\ UNCHANGED <<rowVars, running, lock, done>>
Stays == running \subseteq running' /\ UNCHANGED <<lock, done, seen>>

\* Units that are available are on hand and nobody else's.
LEMMA AvailableIsOnHand ==
    ASSUME TypeOK, NEW s \in Skus, Reserved(s) <= onHand[s],
           NEW n \in Nat, n <= Available(s)
    PROVE  n + Reserved(s) <= onHand[s]
<1>1. PICK r \in Nat, h \in Nat : r = Reserved(s) /\ h = onHand[s] /\ r <= h
  BY ReservedIsNat DEF TypeOK
<1>2. n <= IF h > r THEN h - r ELSE 0
  BY <1>1 DEF Available
<1>3. n + r <= h
  BY <1>1, <1>2
<1> QED BY <1>1, <1>3

LEMMA CheckCartChecks ==
    ASSUME IInv, NEW k \in Keys, CheckCart(k)
    PROVE  End(<<"checkout", k>>) \/ \E D : Checks(<<"checkout", k>>, D)
<1> DEFINE t == <<"checkout", k>>
<1>1. CASE Rollback(t)
  BY <1>1 DEF Rollback
<1>2. CASE ~Rollback(t)
  <2>1. /\ \A s \in Skus : items[k][s] <= Available(s)
        /\ done[t] = {} /\ Lines(t) = Held(t)
        /\ done' = [done EXCEPT ![t] = Lines(t)]
        /\ UNCHANGED <<rowVars, items, saleItems, running, lock, seen>>
    BY <1>2 DEF CheckCart
  <2>2. \A s \in Skus : Wanted(t)[s] + Reserved(s) <= onHand[s]
    <3> TAKE s \in Skus
    <3>1. Wanted(t)[s] \in Nat /\ Wanted(t)[s] <= Available(s)
      BY <2>1, TxnNames, WantedIs, WantedIsNat DEF IInv
    <3>2. Reserved(s) <= onHand[s] /\ TypeOK
      BY DEF IInv, ReservedOnHand
    <3> QED BY <3>1, <3>2, AvailableIsOnHand
  <2>3. seen' = [x \in Sales |-> IF t = <<"sell", x>> THEN Unread ELSE seen[x]]
    BY <2>1 DEF IInv, TypeOK
  <2>4. t \in Checkouts /\ t \notin Sells /\ t \in Txns
    BY TxnNames DEF Sells
  <2>5. Checks(t, Lines(t))
    BY <2>1, <2>2, <2>3, <2>4 DEF Checks, Lines, IInv, TypeOK
  <2> QED BY <2>5
<1> QED BY <1>1, <1>2

LEMMA TakeUnitsChecks ==
    ASSUME IInv, NEW k \in Keys, NEW s \in Skus, TakeUnits(k, s)
    PROVE  End(<<"deliver", k>>) \/ \E D : Checks(<<"deliver", k>>, D)
<1> DEFINE t == <<"deliver", k>>
<1>1. CASE Rollback(t)
  BY <1>1 DEF Rollback
<1>2. CASE ~Rollback(t)
  <2>1. /\ s \in Held(t) \ done[t]
        /\ done' = [done EXCEPT ![t] = @ \cup {s}]
        /\ UNCHANGED <<rowVars, items, saleItems, running, lock, seen>>
    BY <1>2 DEF TakeUnits
  <2>2. seen' = [x \in Sales |-> IF t = <<"sell", x>> THEN Unread ELSE seen[x]]
    BY <2>1 DEF IInv, TypeOK
  <2>3. t \notin Checkouts /\ t \notin Sells
    BY DEF Checkouts, Sells
  <2>4. Checks(t, {s})
    BY <2>1, <2>2, <2>3 DEF Checks
  <2> QED BY <2>4
<1> QED BY <1>1, <1>2

LEMMA CheckUnreservedChecks ==
    ASSUME IInv, NEW x \in Sales, NEW s \in Skus, CheckUnreserved(x, s)
    PROVE  End(<<"sell", x>>) \/ \E D : Checks(<<"sell", x>>, D)
<1> DEFINE t == <<"sell", x>>
<1>1. CASE Rollback(t)
  BY <1>1 DEF Rollback
<1>2. CASE ~Rollback(t)
  <2>1. /\ s \in Held(t) \ done[t] /\ seen[x] # Unread
        /\ Unreserved(x, s)
        /\ done' = [done EXCEPT ![t] = @ \cup {s}]
        /\ seen' = [seen EXCEPT ![x] = Unread]
        /\ UNCHANGED <<rowVars, items, saleItems, running, lock>>
    BY <1>2 DEF CheckUnreserved
  <2>2. Wanted(t)[s] + Reserved(s) <= onHand[s]
    <3>1. seen[x] <= onHand[s]
      BY <2>1 DEF IInv, ReadStillHolds
    <3>2. /\ Wanted(t)[s] \in Nat /\ Reserved(s) \in Nat
          /\ seen[x] \in Nat /\ onHand[s] \in Nat
      BY TxnNames, WantedIsNat, ReservedIsNat DEF IInv, TypeOK
    <3>3. Wanted(t)[s] + Reserved(s) <= seen[x]
      BY <2>1, WantedIs DEF Unreserved
    <3>4. \A a, b, c, d \in Nat : a + b <= c /\ c <= d => a + b <= d
      OBVIOUS
    <3> QED BY <3>1, <3>2, <3>3, <3>4
  <2>3. seen' = [y \in Sales |-> IF t = <<"sell", y>> THEN Unread ELSE seen[y]]
    BY <2>1 DEF IInv, TypeOK
  <2>4. Checks(t, {s})
    BY <2>1, <2>2, <2>3 DEF Checks
  <2> QED BY <2>4
<1> QED BY <1>1, <1>2

LEMMA StepWorks ==
    ASSUME IInv, [Next]_vars
    PROVE  \/ \E t \in Txns : \/ End(t)
                              \/ \E s \in Skus : Locks(t, s)
                              \/ \E D : Checks(t, D)
           \/ \E x \in Sales, s \in Skus : Reads(x, s)
           \/ Stays
<1> USE TxnNames DEF rowVars, txnVars
<1>1. ASSUME NEW k \in Keys, CheckoutStatement(k)
      PROVE  \E t \in Txns : End(t) \/ \E D : Checks(t, D)
  BY <1>1, CheckCartChecks DEF CheckoutStatement, CommitCheckout
<1>2. ASSUME NEW k \in Keys, DeliveryStatement(k)
      PROVE  \E t \in Txns : End(t) \/ \E D : Checks(t, D)
  BY <1>2, TakeUnitsChecks DEF DeliveryStatement, CommitDelivery
<1>3. ASSUME NEW k \in Keys, CommitCancel(k)
      PROVE  \E t \in Txns : End(t)
  BY <1>3 DEF CommitCancel
<1>4. ASSUME NEW x \in Sales, NEW s \in Skus, ReadBatches(x, s)
      PROVE  Reads(x, s)
  BY <1>4 DEF ReadBatches, Reads
<1>5. ASSUME NEW x \in Sales, SaleStatement(x)
      PROVE  \/ \E t \in Txns : End(t) \/ \E D : Checks(t, D)
             \/ \E s \in Skus : Reads(x, s)
  BY <1>4, <1>5, CheckUnreservedChecks DEF SaleStatement, CommitSale
<1>6. ASSUME NEW t \in Txns, NEW s \in Skus, LockProduct(t, s)
      PROVE  Locks(t, s)
  BY <1>6 DEF LockProduct, Locks, LockFree
<1>7. ASSUME NEW t \in Txns, Fail(t)
      PROVE  End(t)
  BY <1>7 DEF Fail, Rollback
<1>8. ASSUME NEW k \in Keys, \/ BeginCheckout(k) \/ Dispatch(k)
                             \/ BeginDelivery(k) \/ BeginCancel(k)
      PROVE  Stays
  BY <1>8 DEF BeginCheckout, Dispatch, BeginDelivery, BeginCancel, Begin, Stays
<1>9. ASSUME NEW x \in Sales, BeginSale(x)
      PROVE  Stays
  BY <1>9 DEF BeginSale, Begin, Stays
<1>10. ASSUME NEW s \in Skus, NEW n \in 1..StockCap, AddOpeningStock(s, n)
       PROVE  Stays
  BY <1>10 DEF AddOpeningStock, Stays
<1>11. CASE UNCHANGED vars
  BY <1>11 DEF vars, Stays
<1>12. CASE Statement
  BY <1>1, <1>2, <1>3, <1>5, <1>12 DEF Statement
<1> QED
  BY <1>6, <1>7, <1>8, <1>9, <1>10, <1>11, <1>12 DEF Next

-----------------------------------------------------------------------------
(* Every step keeps what transactions know *)

LEMMA LocksStep ==
    ASSUME IInv, [Next]_vars
    PROVE  LocksAreHeld'
<1> DEFINE Held1 == \A s \in Skus, u \in Txns :
                        lock'[s] = u => u \in running' /\ Wanted(u)[s] > 0
           Held2 == \A u \in Txns : \A s \in done'[u] : lock'[s] = u
<1>1. Held1 /\ Held2
  <2> USE NobodyIsNoTxn DEF IInv, TypeOK, LocksAreHeld
  <2>1. ASSUME NEW t \in Txns, End(t)
        PROVE  Held1 /\ Held2
    <3>1. \A s \in Skus, u \in Txns : lock'[s] = u => lock[s] = u /\ u # t
      BY <2>1 DEF End
    <3>2. \A u \in Txns : \A s \in done'[u] : s \in done[u] /\ u # t
      BY <2>1 DEF End
    <3> QED BY <2>1, <3>1, <3>2 DEF End
  <2>2. ASSUME NEW t \in Txns, NEW r \in Skus, Locks(t, r)
        PROVE  Held1 /\ Held2
    <3>1. Wanted(t)[r] > 0
      BY <2>2 DEF Locks, NextToLock, Lines
    <3> QED BY <2>2, <3>1 DEF Locks
  <2>3. ASSUME NEW t \in Txns, NEW D, Checks(t, D)
        PROVE  Held1 /\ Held2
    <3>1. \A s \in D : lock[s] = t
      BY <2>3 DEF Checks, Held
    <3> QED BY <2>3, <3>1 DEF Checks
  <2>4. ASSUME NEW x \in Sales, NEW s \in Skus, Reads(x, s)
        PROVE  Held1 /\ Held2
    BY <2>4 DEF Reads
  <2>5. CASE Stays
    BY <2>5 DEF Stays
  <2> HIDE DEF Held1, Held2
  <2> QED BY <2>1, <2>2, <2>3, <2>4, <2>5, StepWorks
<1>2. \A s \in Skus : lock'[s] \in Txns \cup {Nobody}
  BY TypeStep DEF TypeOK
<1>3. items' = items /\ saleItems' = saleItems
  BY WantedStays
<1>4. (\A s \in Skus : lock[s] # Nobody =>
           lock[s] \in running /\ Wanted(lock[s])[s] > 0)'
  BY <1>1, <1>2, <1>3 DEF Wanted
<1> QED BY <1>1, <1>4 DEF LocksAreHeld

LEMMA ChecksStep ==
    ASSUME IInv, [Next]_vars
    PROVE  ChecksStillHold'
<1> SUFFICES ASSUME NEW t \in Checkouts \cup Sells, NEW s \in done'[t]
             PROVE  Wanted(t)'[s] + Reserved(s)' <= onHand'[s]
  BY DEF ChecksStillHold
<1>0. t \in Txns
  BY TxnNames
<1>1. s \in Skus /\ lock'[s] # Nobody
  <2>1. TypeOK' /\ LocksAreHeld'
    BY TypeStep, LocksStep
  <2> QED BY <1>0, <2>1, NobodyIsNoTxn DEF TypeOK, LocksAreHeld
<1>2. Wanted(t)[s] + Reserved(s) <= onHand[s]
  <2>1. CASE s \in done[t]
    BY <2>1 DEF IInv, ChecksStillHold
  <2>2. ASSUME s \notin done[t], NEW u \in Txns, NEW D, Checks(u, D)
        PROVE  Wanted(t)[s] + Reserved(s) <= onHand[s]
    BY <1>0, <2>2 DEF Checks, IInv, TypeOK
  <2>3. ASSUME s \notin done[t], NEW u \in Txns, End(u)
        PROVE  FALSE
    BY <1>0, <2>3 DEF End, IInv, TypeOK
  <2> QED BY <2>1, <2>2, <2>3, StepWorks DEF Locks, Reads, Stays
<1>3. /\ Reserved(s)' <= Reserved(s) /\ onHand[s] <= onHand'[s]
      /\ onHand'[s] \in Nat /\ Reserved(s)' \in Nat
  BY <1>1, StockStep
<1>4. /\ Wanted(t)' = Wanted(t) /\ Wanted(t)[s] \in Nat
      /\ Reserved(s) \in Nat /\ onHand[s] \in Nat
  BY <1>0, <1>1, WantedStays, WantedIsNat, ReservedIsNat DEF IInv, TypeOK
<1>5. \A w, r, h, r2, h2 \in Nat : w + r <= h /\ r2 <= r /\ h <= h2 => w + r2 <= h2
  OBVIOUS
<1> QED BY <1>2, <1>3, <1>4, <1>5

LEMMA ReadsStep ==
    ASSUME IInv, [Next]_vars
    PROVE  ReadStillHolds'
<1> DEFINE Known(x) ==
             LET t == <<"sell", x>> IN
             /\ \A s, r \in Held(t)' \ done'[t] : s = r
             /\ seen'[x] # Unread =>
                    /\ Held(t)' # done'[t]
                    /\ \A s \in Held(t)' \ done'[t] : seen'[x] <= onHand[s]
<1>1. ASSUME NEW x \in Sales PROVE Known(x)
  <2> DEFINE t == <<"sell", x>>
  <2> USE DEF IInv, TypeOK
  <2>0. /\ t \in Txns /\ t # Nobody /\ t \notin Checkouts /\ t \in Sells
        /\ \A s, r \in Held(t) \ done[t] : s = r
        /\ seen[x] # Unread => /\ Held(t) # done[t]
                               /\ \A s \in Held(t) \ done[t] : seen[x] <= onHand[s]
    BY TxnNames, NobodyIsNoTxn DEF ReadStillHolds, Checkouts
  <2> HIDE DEF t
  <2>1. ASSUME Held(t)' = Held(t), done'[t] = done[t], seen'[x] = seen[x]
        PROVE  Known(x)
    BY <2>0, <2>1 DEF t
  <2>2. ASSUME NEW u \in Txns, End(u) PROVE Known(x)
    <3>1. CASE u = t
      <4>1. seen'[x] = Unread /\ Held(t)' = {} /\ done'[t] = {}
        BY <2>0, <2>2, <3>1 DEF End, Held, t
      <4> QED BY <4>1 DEF t
    <3>2. CASE u # t
      <4>1. seen'[x] = seen[x] /\ done'[t] = done[t]
        BY <2>0, <2>2, <3>2 DEF End, t
      <4>2. Held(t)' = Held(t)
        BY <2>0, <2>2, <3>2 DEF End, Held
      <4> QED BY <2>1, <4>1, <4>2
    <3> QED BY <3>1, <3>2
  <2>3. ASSUME NEW u \in Txns, NEW r \in Skus, Locks(u, r) PROVE Known(x)
    <3>1. seen'[x] = seen[x] /\ done'[t] = done[t]
      BY <2>3 DEF Locks
    <3>2. CASE u = t
      <4>1. done[t] = Held(t) /\ seen[x] = Unread
        BY <2>0, <2>3, <3>2 DEF Locks
      <4>2. Held(t)' = Held(t) \cup {r}
        BY <2>3, <3>2 DEF Locks, Held
      <4> QED BY <3>1, <4>1, <4>2 DEF t
    <3>3. CASE u # t
      <4>1. Held(t)' = Held(t)
        BY <2>0, <2>3, <3>3 DEF Locks, Held
      <4> QED BY <2>1, <3>1, <4>1
    <3> QED BY <3>2, <3>3
  <2>4. ASSUME NEW u \in Txns, NEW D, Checks(u, D) PROVE Known(x)
    <3>1. Held(t)' = Held(t)
      BY <2>4 DEF Checks, Held
    <3>2. CASE u = t
      <4>1. seen'[x] = Unread /\ done'[t] = done[t] \cup D
        BY <2>0, <2>4, <3>2 DEF Checks, t
      <4> QED BY <2>0, <3>1, <4>1 DEF t
    <3>3. CASE u # t
      <4>1. seen'[x] = seen[x] /\ done'[t] = done[t]
        BY <2>0, <2>4, <3>3 DEF Checks, t
      <4> QED BY <2>1, <3>1, <4>1
    <3> QED BY <3>2, <3>3
  <2>5. ASSUME NEW y \in Sales, NEW r \in Skus, Reads(y, r) PROVE Known(x)
    <3>1. Held(t)' = Held(t) /\ done'[t] = done[t]
      BY <2>5 DEF Reads, Held
    <3>2. CASE y = x
      <4>1. r \in Held(t) \ done[t] /\ seen'[x] = onHand[r]
        BY <2>5, <3>2 DEF Reads, t
      <4>2. \A s \in Held(t) \ done[t] : s = r
        BY <2>0, <4>1
      <4>3. onHand[r] \in Nat
        BY DEF Held
      <4>4. /\ \A s, q \in Held(t)' \ done'[t] : s = q
            /\ Held(t)' # done'[t]
            /\ \A s \in Held(t)' \ done'[t] : seen'[x] <= onHand[s]
        <5>1. r \in Held(t)' \ done'[t] /\ \A s \in Held(t)' \ done'[t] : s = r
          BY <3>1, <4>1, <4>2
        <5>2. seen'[x] <= onHand[r]
          BY <4>1, <4>3
        <5> QED BY <5>1, <5>2
      <4> QED BY <4>4 DEF t
    <3>3. CASE y # x
      <4>1. seen'[x] = seen[x]
        BY <2>5, <3>3 DEF Reads
      <4> QED BY <2>1, <3>1, <4>1
    <3> QED BY <3>2, <3>3
  <2>6. CASE Stays
    <3>1. Held(t)' = Held(t) /\ done'[t] = done[t] /\ seen'[x] = seen[x]
      BY <2>6 DEF Stays, Held
    <3> QED BY <2>1, <3>1
  <2> HIDE DEF Known
  <2> QED BY <2>2, <2>3, <2>4, <2>5, <2>6, StepWorks
<1>2. ASSUME NEW x \in Sales, NEW s \in Held(<<"sell", x>>)',
             seen'[x] <= onHand[s], seen'[x] \in Nat
      PROVE  seen'[x] <= onHand'[s]
  <2>1. s \in Skus /\ lock'[s] # Nobody
    BY TxnNames, NobodyIsNoTxn DEF Held
  <2>2. onHand[s] <= onHand'[s] /\ onHand'[s] \in Nat /\ onHand[s] \in Nat
    BY <2>1, StockStep DEF IInv, TypeOK
  <2>3. \A a, b, c \in Nat : a <= b /\ b <= c => a <= c
    OBVIOUS
  <2> QED BY <1>2, <2>2, <2>3
<1>3. \A x \in Sales : seen'[x] \in Nat
  BY TypeStep DEF TypeOK
<1>4. Unread' = Unread
  BY DEF Unread
<1> QED BY <1>1, <1>2, <1>3, <1>4 DEF ReadStillHolds

LEMMA NextInv == IInv /\ [Next]_vars => IInv'
<1> SUFFICES ASSUME IInv, [Next]_vars PROVE IInv'
  OBVIOUS
<1>1. ReservedOnHand'
  BY StockStep DEF ReservedOnHand
<1> QED BY <1>1, TypeStep, RowsStep, LocksStep, ChecksStep, ReadsStep DEF IInv

LEMMA InitInv == Init => IInv
<1> SUFFICES ASSUME Init PROVE IInv
  OBVIOUS
<1>1. TypeOK
  BY DEF Init, TypeOK, Unread
<1>2. Reserving = {}
  BY DEF Init, Reserving
<1>3. \A s \in Skus : Reserved(s) = 0 /\ onHand[s] = 0
  BY <1>2, TotalEmpty DEF Init, Reserved
<1>4. BegunRight /\ ReservationFollows /\ LocksAreHeld
  BY DEF Init, BegunRight, ReservationFollows, LocksAreHeld
<1>5. ChecksStillHold
  BY TxnNames DEF Init, ChecksStillHold
<1>6. ReadStillHolds
  BY TxnNames, NobodyIsNoTxn DEF Init, ReadStillHolds, Held
<1> QED BY <1>1, <1>3, <1>4, <1>5, <1>6 DEF IInv, ReservedOnHand

LEMMA Invariant == Spec => []IInv
  BY InitInv, NextInv, PTL DEF Spec

\* Every variable keeps its type: no batch goes below zero, however the
\* statements of checkouts, deliveries, cancellations and sales interleave.
THEOREM TypeCorrect == Spec => []TypeOK
<1>1. IInv => TypeOK
  BY DEF IInv
<1> QED BY <1>1, Invariant, PTL

\* What open orders reserve is on hand between any two statements.
THEOREM NeverOversold == Spec => []ReservedOnHand
<1>1. IInv => ReservedOnHand
  BY DEF IInv
<1> QED BY <1>1, Invariant, PTL

\* A cancellation and a delivery of one order never overwrite each other, and
\* no other transaction touches an order that has ended.
THEOREM FinalStatesAlwaysStay == Spec => FinalStatesStay
<1>1. ASSUME IInv, [Next]_vars, NEW j \in Keys, status[j] \in {"DELIVERED", "CANCELLED"}
      PROVE  status'[j] = status[j]
  <2> USE DEF IInv, TypeOK, rowVars
  <2>1. ASSUME NEW k \in Keys, \/ CommitCheckout(k) \/ CommitDelivery(k)
                               \/ CommitCancel(k) \/ Dispatch(k)
        PROVE  status'[j] = status[j]
    <3>1. status[k] \in {"NONE", "PLACED", "OUT_FOR_DELIVERY"}
      <4>1. CASE CommitCheckout(k)
        BY <1>1, <4>1 DEF CommitCheckout, BegunRight
      <4>2. CASE CommitDelivery(k)
        BY <1>1, <4>2 DEF CommitDelivery, BegunRight
      <4>3. CASE CommitCancel(k)
        BY <1>1, <4>3 DEF CommitCancel, BegunRight
      <4>4. CASE Dispatch(k)
        BY <4>4 DEF Dispatch
      <4> QED BY <2>1, <4>1, <4>2, <4>3, <4>4
    <3>2. k # j
      BY <1>1, <3>1
    <3> QED BY <1>1, <2>1, <3>2 DEF CommitCheckout, CommitDelivery, CommitCancel, Dispatch
  <2>2. CASE UNCHANGED status
    BY <2>2
  <2>3. CASE Statement
    BY <2>1, <2>2, <2>3 DEF Statement, CheckoutStatement, DeliveryStatement, SaleStatement,
       CheckCart, TakeUnits, ReadBatches, CheckUnreserved, CommitSale, Rollback
  <2> QED
    BY <1>1, <2>1, <2>2, <2>3 DEF Next, vars, Begin, BeginCheckout, BeginDelivery,
       BeginCancel, BeginSale, LockProduct, Fail, Rollback, AddOpeningStock
<1>2. IInv /\ [Next]_vars =>
        [\A k \in Keys : status[k] \in {"DELIVERED", "CANCELLED"} =>
                            status'[k] = status[k]]_vars
  BY <1>1
<1> QED BY <1>2, Invariant, PTL DEF Spec, FinalStatesStay

-----------------------------------------------------------------------------
(* Nothing is lost or handed out twice *)

DeliveredUnits(s) == TotalOf(DeliveredKeys, items, s, MaxQty)
SoldUnits(s)      == TotalOf(CompletedSales, saleItems, s, MaxQty)

LEMMA ConservedStep ==
    ASSUME IInv, StockConserved, [Next]_vars, NEW s \in Skus
    PROVE  received'[s] = onHand'[s] + DeliveredUnits(s)' + SoldUnits(s)'
<1> DEFINE Goal == received'[s] = onHand'[s] + DeliveredUnits(s)' + SoldUnits(s)'
<1>1. IsFiniteSet(DeliveredKeys) /\ IsFiniteSet(CompletedSales)
  BY FS_Subset DEF DeliveredKeys, CompletedSales
<1>2. items' = items /\ saleItems' = saleItems
  BY WantedStays
<1>3. PICK d \in Nat, c \in Nat, h \in Nat :
          d = DeliveredUnits(s) /\ c = SoldUnits(s) /\ h = onHand[s]
  BY <1>1, TotalIsNat DEF DeliveredUnits, SoldUnits, IInv, TypeOK
<1>4. received[s] = h + d + c
  BY <1>3 DEF StockConserved, DeliveredUnits, SoldUnits, DeliveredKeys, CompletedSales
<1>5. /\ \A k \in Keys : items[k][s] \in 0..MaxQty
      /\ \A x \in Sales : saleItems[x][s] \in 0..MaxQty
  BY DEF IInv, TypeOK, NonEmpty, Quantities
<1>6. DeliveredKeys' = DeliveredKeys => DeliveredUnits(s)' = d
  BY <1>2, <1>3 DEF DeliveredUnits
<1>7. CompletedSales' = CompletedSales => SoldUnits(s)' = c
  BY <1>2, <1>3 DEF SoldUnits
<1>8. ASSUME NEW k \in Keys, Fulfilling(k)
      PROVE  Goal
  <2>1. PICK n \in Nat : n = items[k][s]
    BY <1>5
  <2>2. DeliveredUnits(s)' = d + n
    <3>1. TotalOf(DeliveredKeys \cup {k}, items, s, MaxQty)
            = TotalOf(DeliveredKeys, items, s, MaxQty) + items[k][s]
      BY <1>1, <1>5, <1>8, TotalOneMore DEF Fulfilling
    <3> QED BY <1>2, <1>3, <1>8, <2>1, <3>1 DEF DeliveredUnits, Fulfilling
  <2>3. onHand'[s] = h - n /\ received'[s] = received[s] /\ SoldUnits(s)' = c
    BY <1>3, <1>7, <1>8, <2>1 DEF Fulfilling, Deduct
  <2> QED BY <1>4, <2>2, <2>3
<1>9. ASSUME NEW x \in Sales, Selling(x)
      PROVE  Goal
  <2>1. PICK n \in Nat : n = saleItems[x][s]
    BY <1>5
  <2>2. SoldUnits(s)' = c + n
    <3>1. TotalOf(CompletedSales \cup {x}, saleItems, s, MaxQty)
            = TotalOf(CompletedSales, saleItems, s, MaxQty) + saleItems[x][s]
      BY <1>1, <1>5, <1>9, TotalOneMore DEF Selling
    <3> QED BY <1>2, <1>3, <1>9, <2>1, <3>1 DEF SoldUnits, Selling
  <2>3. onHand'[s] = h - n /\ received'[s] = received[s] /\ DeliveredUnits(s)' = d
    BY <1>3, <1>6, <1>9, <2>1 DEF Selling, Deduct
  <2> QED BY <1>4, <2>2, <2>3
<1>10. ASSUME NEW i \in Skus, NEW n \in 1..StockCap, Receiving(i, n)
       PROVE  Goal
  <2>1. DeliveredUnits(s)' = d /\ SoldUnits(s)' = c
    BY <1>6, <1>7, <1>10 DEF Receiving, finals
  <2>2. \E m \in Nat : onHand'[s] = h + m /\ received'[s] = received[s] + m
    BY <1>3, <1>10 DEF Receiving, IInv, TypeOK
  <2> QED BY <1>4, <2>1, <2>2
<1>11. ASSUME UNCHANGED <<stock, finals>>
       PROVE  Goal
  BY <1>3, <1>4, <1>6, <1>7, <1>11 DEF stock, finals
<1> QED BY <1>8, <1>9, <1>10, <1>11, StepMoves DEF Promising, Releasing, Resting

\* Every unit that ever came in is on hand, was delivered or was sold, although
\* transactions fail half way.
THEOREM StockIsConserved == Spec => []StockConserved
<1>1. Init => StockConserved
  <2> SUFFICES ASSUME Init, NEW s \in Skus
               PROVE  received[s] = onHand[s] + DeliveredUnits(s) + SoldUnits(s)
    BY DEF StockConserved, DeliveredUnits, SoldUnits, DeliveredKeys, CompletedSales
  <2>1. DeliveredKeys = {} /\ CompletedSales = {}
    BY DEF Init, DeliveredKeys, CompletedSales
  <2> QED BY <2>1, TotalEmpty DEF Init, DeliveredUnits, SoldUnits
<1>2. IInv /\ StockConserved /\ [Next]_vars => StockConserved'
  <2> SUFFICES ASSUME IInv, StockConserved, [Next]_vars PROVE StockConserved'
    OBVIOUS
  <2>1. \A s \in Skus : received'[s] = onHand'[s] + DeliveredUnits(s)' + SoldUnits(s)'
    BY ConservedStep
  <2> QED BY <2>1 DEF StockConserved, DeliveredUnits, SoldUnits, DeliveredKeys, CompletedSales
<1> QED BY <1>1, <1>2, Invariant, PTL DEF Spec

-----------------------------------------------------------------------------
(* Commits are steps of the promise about the stock *)

LEMMA StepKeepsPromise ==
    ASSUME IInv, IInv', [Next]_vars
    PROVE  [Promise!Next]_(Promise!vars)
<1> DEFINE P == [s \in Skus |-> Reserved(s)]
<1>0. /\ onHand \in [Skus -> Nat] /\ onHand' \in [Skus -> Nat]
      /\ received \in [Skus -> Nat] /\ received' \in [Skus -> Nat]
      /\ issued \in [Skus -> Nat] /\ issued' \in [Skus -> Nat]
      /\ TypeOK /\ items' = items
  BY WantedStays DEF IInv, TypeOK
<1>1. \A s \in Skus : P[s] = Reserved(s) /\ P'[s] = Reserved(s)'
  OBVIOUS
<1>2. \A s \in Skus : /\ P[s] \in Nat /\ P'[s] \in Nat
                      /\ P[s] <= onHand[s] /\ P'[s] <= onHand'[s]
  BY <1>1, ReservedIsNat, StockStep DEF IInv, ReservedOnHand
<1> HIDE DEF P
<1>3. ASSUME NEW k \in Keys, Promising(k)
      PROVE  Promise!Promise
  <2>1. \A s \in Skus : P'[s] = P[s] + items[k][s] /\ items[k][s] \in Nat
    BY <1>0, <1>1, <1>3, ReservedMore DEF Promising, TypeOK, NonEmpty, Quantities
  <2>2. \A s \in Skus : P'[s] \in P[s]..onHand[s]
    BY <1>0, <1>2, <1>3, <2>1 DEF Promising, stock
  <2> QED BY <1>3, <2>2 DEF P, Promise!Promise, Promising, stock
<1>4. ASSUME NEW k \in Keys, Releasing(k)
      PROVE  Promise!Release
  <2>1. \A s \in Skus : P[s] = P'[s] + items[k][s] /\ items[k][s] \in Nat
    BY <1>0, <1>1, <1>4, ReservedLess DEF Releasing, TypeOK, NonEmpty, Quantities
  <2>2. \A s \in Skus : P'[s] \in 0..P[s]
    BY <1>2, <2>1
  <2> QED BY <1>4, <2>2 DEF P, Promise!Release, Releasing, stock
<1>5. ASSUME NEW k \in Keys, Fulfilling(k)
      PROVE  Promise!Fulfil
  <2>1. \A s \in Skus : P[s] = P'[s] + items[k][s] /\ items[k][s] \in Nat
    BY <1>0, <1>1, <1>5, ReservedLess DEF Fulfilling, TypeOK, NonEmpty, Quantities
  <2>2. \A s \in Skus : /\ onHand'[s] = onHand[s] - items[k][s]
                        /\ issued'[s] = issued[s] + items[k][s]
    BY <1>5 DEF Fulfilling, Deduct
  <2>3. \A s \in Skus : /\ P'[s] \in 0..P[s]
                        /\ issued'[s] + onHand'[s] = issued[s] + onHand[s]
                        /\ onHand'[s] + P[s] = onHand[s] + P'[s]
    <3> TAKE s \in Skus
    <3>1. PICK n \in Nat, h \in Nat, i \in Nat :
              n = items[k][s] /\ h = onHand[s] /\ i = issued[s]
      BY <1>0, <2>1
    <3>2. /\ P[s] = P'[s] + n /\ P[s] \in Nat /\ P'[s] \in Nat
          /\ onHand'[s] = h - n /\ issued'[s] = i + n
      BY <1>2, <2>1, <2>2, <3>1
    <3>3. P'[s] \in 0..P[s]
      BY <3>2
    <3>4. issued'[s] + onHand'[s] = issued[s] + onHand[s]
      BY <3>1, <3>2
    <3>5. onHand'[s] + P[s] = onHand[s] + P'[s]
      BY <3>1, <3>2
    <3> QED BY <3>3, <3>4, <3>5
  <2> QED BY <1>5, <2>3 DEF P, Promise!Fulfil, Fulfilling
<1>6. ASSUME NEW x \in Sales, Selling(x)
      PROVE  Promise!Sell
  <2>1. P' = P
    BY <1>0, <1>6, ReservedSame DEF P, Selling
  <2>2. \A s \in Skus : /\ onHand'[s] = onHand[s] - saleItems[x][s]
                        /\ issued'[s] = issued[s] + saleItems[x][s]
                        /\ saleItems[x][s] \in Nat
    BY <1>0, <1>6 DEF Selling, Deduct, TypeOK, NonEmpty, Quantities
  <2>3. \A s \in Skus : /\ onHand'[s] \in P[s]..onHand[s]
                        /\ issued'[s] + onHand'[s] = issued[s] + onHand[s]
    BY <1>0, <1>2, <2>1, <2>2
  <2> QED BY <1>6, <2>1, <2>3 DEF P, Promise!Sell, Selling
<1>7. ASSUME NEW i \in Skus, NEW n \in 1..StockCap, Receiving(i, n)
      PROVE  Promise!Receive
  <2>1. P' = P
    BY <1>0, <1>7, ReservedSame DEF P, Receiving
  <2>2. \A s \in Skus : /\ onHand'[s] >= onHand[s]
                        /\ onHand'[s] + received[s] = onHand[s] + received'[s]
    BY <1>0, <1>7 DEF Receiving
  <2> QED BY <1>7, <2>1, <2>2 DEF P, Promise!Receive, Receiving
<1>8. CASE Resting
  <2>1. P' = P
    BY <1>0, <1>8, ReservedSame DEF P, Resting
  <2> QED BY <1>8, <2>1 DEF P, Resting, stock, Promise!vars
<1> QED
  BY <1>3, <1>4, <1>5, <1>6, <1>7, <1>8, StepMoves DEF Promise!Next

\* Whatever the interleaving of the statements, commits appear as steps of the
\* promise about the stock: reserve what is free, give back, hand out, sell.
THEOREM PromiseKept == Spec => KeepsStockPromise
<1>1. Init => Promise!Init
  <2> SUFFICES ASSUME Init PROVE Promise!Init
    OBVIOUS
  <2>1. Reserving = {}
    BY DEF Init, Reserving
  <2>2. \A s \in Skus : Reserved(s) = 0
    BY <2>1, TotalEmpty DEF Reserved
  <2> QED BY <2>2 DEF Init, Promise!Init
<1>2. IInv /\ IInv' /\ [Next]_vars => [Promise!Next]_(Promise!vars)
  BY StepKeepsPromise
<1> QED BY <1>1, <1>2, Invariant, PTL DEF Spec, KeepsStockPromise, Promise!Spec

-----------------------------------------------------------------------------
(* Nobody waits in a circle *)

\* A transaction takes its products in ascending order.
LocksInOrder == \A t \in Txns : \A s \in Held(t) : \A r \in Lines(t) \ Held(t) : s < r

\* Along a chain of transactions of which each waits for a product that the
\* next one holds, the products that they wait for ascend.
WaitsAscend == \A t, u \in Txns, r, q \in Skus :
    NextToLock(t, r) /\ lock[r] = u /\ NextToLock(u, q) => r < q

LEMMA OrderStep ==
    ASSUME IInv, LocksInOrder, [Next]_vars
    PROVE  LocksInOrder'
<1> USE NobodyIsNoTxn DEF IInv, TypeOK
<1>1. SUFFICES ASSUME NEW u \in Txns, NEW s \in Held(u)', NEW r \in Lines(u) \ Held(u)'
               PROVE  s < r
  BY WantedStays DEF LocksInOrder, Lines
<1>2. s \in Skus /\ r \in Skus /\ lock'[s] = u /\ lock'[r] # u
  BY DEF Held, Lines
<1>3. ASSUME lock[s] = u, lock[r] # u
      PROVE  s < r
  BY <1>2, <1>3 DEF LocksInOrder, Held
<1>4. ASSUME NEW t \in Txns, NEW p \in Skus, Locks(t, p)
      PROVE  s < r
  <2>1. CASE s = p
    <3>1. t = u /\ r # p
      BY <1>2, <1>4, <2>1 DEF Locks
    <3>2. r \in Lines(t) \ Held(t)
      BY <1>2, <1>4, <3>1 DEF Locks, Held
    <3>3. p <= r
      BY <1>4, <3>2 DEF Locks, NextToLock
    <3>4. p \in Nat /\ r \in Nat
      BY <1>2
    <3> QED BY <2>1, <3>1, <3>3, <3>4
  <2>2. CASE s # p
    <3>1. lock[s] = u /\ lock[r] # u
      BY <1>2, <1>4, <2>2 DEF Locks
    <3> QED BY <1>3, <3>1
  <2> QED BY <2>1, <2>2
<1>5. ASSUME NEW t \in Txns, End(t)
      PROVE  s < r
  <2>1. lock[s] = u /\ u # t /\ lock[r] # u
    BY <1>2, <1>5 DEF End
  <2> QED BY <1>3, <2>1
<1>6. ASSUME lock' = lock
      PROVE  s < r
  BY <1>2, <1>3, <1>6
<1> QED BY <1>4, <1>5, <1>6, StepWorks DEF Checks, Reads, Stays

\* Nobody waits in a circle for the locks of products, for each transaction
\* takes them in ascending order.
THEOREM WaitsAlwaysAscend == Spec => []WaitsAscend
<1>1. Init => LocksInOrder
  BY NobodyIsNoTxn DEF Init, LocksInOrder, Held
<1>2. IInv /\ LocksInOrder /\ [Next]_vars => LocksInOrder'
  BY OrderStep
<1>3. LocksInOrder => WaitsAscend
  BY DEF LocksInOrder, WaitsAscend, NextToLock, Held
<1> QED BY <1>1, <1>2, <1>3, Invariant, PTL DEF Spec
=============================================================================
