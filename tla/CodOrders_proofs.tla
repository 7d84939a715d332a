-------------------------- MODULE CodOrders_proofs --------------------------
(***************************************************************************)
(* What CodOrders guarantees for every number of orders, sales, products   *)
(* and units.                                                              *)
(***************************************************************************)
EXTENDS CodOrders, UnitCount_proofs

USE KeysFinite, SalesFinite, MaxQtyIsNat, StockCapIsNat

-----------------------------------------------------------------------------
(* Types *)

LEMMA ReservedIsNat ==
    ASSUME NEW s
    PROVE  Reserved(s) \in Nat /\ IsFiniteSet(Reserving)
<1>1. IsFiniteSet(Reserving)
  BY FS_Subset DEF Reserving
<1> QED
  BY <1>1, TotalIsNat DEF Reserved

LEMMA ReservedIsNatNext ==
    ASSUME NEW s
    PROVE  Reserved(s)' \in Nat
<1>1. PICK p, R : p = items' /\ R = Reserving'
  OBVIOUS
<1>2. IsFiniteSet(R)
  BY <1>1, FS_Subset DEF Reserving
<1>3. TotalOf(R, p, s, MaxQty) \in Nat
  BY <1>2, TotalIsNat
<1> QED
  BY <1>1, <1>3 DEF Reserved

\* Units that are available are on hand and nobody else's.
LEMMA AvailableIsOnHand ==
    ASSUME onHand \in [Skus -> Nat], NEW s \in Skus,
           NEW n \in Nat, n <= Available(s)
    PROVE  /\ n <= onHand[s]
           /\ Reserved(s) <= onHand[s] => Reserved(s) + n <= onHand[s]
<1>1. PICK r \in Nat : r = Reserved(s)
  BY ReservedIsNat
<1>2. PICK h \in Nat : h = onHand[s]
  OBVIOUS
<1>3. n <= IF h > r THEN h - r ELSE 0
  BY <1>1, <1>2 DEF Available
<1>4. n <= h /\ (r <= h => r + n <= h)
  BY <1>3
<1> QED
  BY <1>1, <1>2, <1>4

LEMMA TypeStep == TypeOK /\ [Next]_vars => TypeOK'
<1> SUFFICES ASSUME TypeOK, [Next]_vars PROVE TypeOK'
  OBVIOUS
<1> USE DEF TypeOK, orderVars, saleVars, stockVars, Statuses, Open, Quantities
<1>1. ASSUME NEW k \in Keys, NEW q \in NonEmpty, NEW type \in {"DELIVERY", "PICKUP"},
             CreateCodOrder(k, q, type)
      PROVE  TypeOK'
  <2>1. q \in Quantities
    BY DEF NonEmpty
  <2>2. status' \in [Keys -> Statuses] /\ items' \in [Keys -> Quantities]
    BY <1>1, <2>1 DEF CreateCodOrder
  <2> QED
    BY <1>1, <2>2 DEF CreateCodOrder
<1>2. ASSUME NEW k \in Keys, CancelCustomerOrder(k) \/ CancelWebOrder(k)
      PROVE  TypeOK'
  <2>1. Cancel(k)
    BY <1>2 DEF CancelCustomerOrder, CancelWebOrder
  <2>2. reservation' \in [Keys -> {"NONE", "ACTIVE", "CONSUMED", "CANCELLED"}]
    BY <2>1 DEF Cancel
  <2> QED
    BY <2>1, <2>2 DEF Cancel
<1>3. ASSUME NEW k \in Keys, NEW to \in {"CONFIRMED", "PICKING", "PACKED"},
             Progress(k, to)
      PROVE  TypeOK'
  BY <1>3 DEF Progress
<1>4. ASSUME NEW k \in Keys, AssignDelivery(k)
      PROVE  TypeOK'
  BY <1>4 DEF AssignDelivery
<1>5. ASSUME NEW k \in Keys, Dispatch(k)
      PROVE  TypeOK'
  BY <1>5 DEF Dispatch
<1>6. ASSUME NEW k \in Keys, Deliver(k)
      PROVE  TypeOK'
  <2>1. onHand' \in [Skus -> Nat] /\ issued' \in [Skus -> Nat]
    BY <1>6 DEF Deliver, Deduct, DeliveryCovered
  <2> QED
    BY <1>6, <2>1 DEF Deliver
<1>7. ASSUME NEW k \in Keys, NEW to \in {"PENDING", "PAID", "FAILED"},
             UpdatePaymentStatus(k, to)
      PROVE  TypeOK'
  BY <1>7 DEF UpdatePaymentStatus
<1>8. ASSUME NEW k \in Keys, NEW verdict \in {"MATCHED", "DISCREPANCY"},
             SettleCash(k, verdict)
      PROVE  TypeOK'
  BY <1>8 DEF SettleCash
<1>9. ASSUME NEW x \in Sales, NEW q \in NonEmpty, CreateSale(x, q)
      PROVE  TypeOK'
  <2>1. q \in Quantities
    BY DEF NonEmpty
  <2> QED
    BY <1>9, <2>1 DEF CreateSale
<1>10. ASSUME NEW x \in Sales, NEW to \in {"PENDING", "VOIDED"}, UpdateOpenSale(x, to)
       PROVE  TypeOK'
  BY <1>10 DEF UpdateOpenSale
<1>11. ASSUME NEW x \in Sales, CompleteSale(x)
       PROVE  TypeOK'
  <2>2. \A s \in Skus : saleItems[x][s] <= onHand[s]
    <3> TAKE s \in Skus
    <3>1. saleItems[x][s] \in Nat /\ saleItems[x][s] <= Available(s)
      BY <1>11 DEF CompleteSale, SaleCovered
    <3> QED
      BY <3>1, AvailableIsOnHand
  <2>3. onHand' \in [Skus -> Nat] /\ issued' \in [Skus -> Nat]
    BY <1>11, <2>2 DEF CompleteSale, Deduct
  <2> QED
    BY <1>11, <2>3 DEF CompleteSale
<1>12. ASSUME NEW s \in Skus, NEW n \in 1..StockCap, AddOpeningStock(s, n)
       PROVE  TypeOK'
  BY <1>12 DEF AddOpeningStock
<1>14. ASSUME NEW x \in Sales, VoidSale(x)
       PROVE  TypeOK'
  BY <1>14 DEF VoidSale
<1>13. CASE UNCHANGED vars
  BY <1>13 DEF vars
<1> QED
  BY <1>1, <1>2, <1>3, <1>4, <1>5, <1>6, <1>7, <1>8, <1>9, <1>10, <1>11, <1>12,
     <1>13, <1>14 DEF Next, OrderStep, SaleStep

\* Every variable keeps its type, whatever requests are made.
THEOREM TypeCorrect == Spec => []TypeOK
<1>1. Init => TypeOK
  BY DEF Init, TypeOK, Statuses, Quantities, Empty
<1> QED
  BY <1>1, TypeStep, PTL DEF Spec

-----------------------------------------------------------------------------
(* The rows of one order agree with each other *)

Consistent(k) ==
    /\ reservation[k] = "ACTIVE"    <=> status[k] \in Open
    /\ reservation[k] = "CONSUMED"  <=> status[k] = "DELIVERED"
    /\ reservation[k] = "CANCELLED" <=> status[k] = "CANCELLED"
    /\ cash[k] # "NONE" <=> status[k] = "DELIVERED"
    /\ status[k] = "DELIVERED" => payment[k] = "PAID"
    /\ status[k] = "NONE" => payment[k] = "PENDING"
    /\ assignment[k] = "COMPLETED" <=> status[k] = "DELIVERED" /\ kind[k] = "DELIVERY"

OrderInv == TypeOK /\ \A k \in Keys : Consistent(k)

LEMMA OrderInvStep == OrderInv /\ [Next]_vars => OrderInv'
<1> SUFFICES ASSUME OrderInv, [Next]_vars, NEW j \in Keys
             PROVE  Consistent(j)'
  BY TypeStep DEF OrderInv
<1>0. TypeOK /\ Consistent(j)
  BY DEF OrderInv
<1> USE <1>0 DEF Consistent, Open
<1>1. ASSUME NEW k \in Keys, NEW q, NEW type \in {"DELIVERY", "PICKUP"},
             CreateCodOrder(k, q, type)
      PROVE  Consistent(j)'
  BY <1>1 DEF CreateCodOrder, TypeOK
<1>2. ASSUME NEW k \in Keys, CancelCustomerOrder(k) \/ CancelWebOrder(k)
      PROVE  Consistent(j)'
  <2>1. Cancel(k) /\ status[k] \in Open
    BY <1>2 DEF CancelCustomerOrder, CancelWebOrder, ValidStatusTransitions
  <2> QED
    BY <2>1 DEF Cancel, TypeOK
<1>3. ASSUME NEW k \in Keys, NEW to \in {"CONFIRMED", "PICKING", "PACKED"},
             Progress(k, to)
      PROVE  Consistent(j)'
  <2>1. status[k] \in Open
    BY <1>3 DEF Progress, ValidStatusTransitions
  <2> QED
    BY <1>3, <2>1 DEF Progress, TypeOK
<1>4. ASSUME NEW k \in Keys, AssignDelivery(k)
      PROVE  Consistent(j)'
  BY <1>4 DEF AssignDelivery, TypeOK
<1>5. ASSUME NEW k \in Keys, Dispatch(k)
      PROVE  Consistent(j)'
  <2>1. status[k] \in Open
    BY <1>5 DEF Dispatch, ValidStatusTransitions
  <2> QED
    BY <1>5, <2>1 DEF Dispatch, TypeOK
<1>6. ASSUME NEW k \in Keys, Deliver(k)
      PROVE  Consistent(j)'
  <2>1. status[k] \in Open
    BY <1>6 DEF Deliver, ValidStatusTransitions
  <2> QED
    BY <1>6, <2>1 DEF Deliver, TypeOK
<1>7. ASSUME NEW k \in Keys, NEW to \in {"PENDING", "PAID", "FAILED"},
             UpdatePaymentStatus(k, to)
      PROVE  Consistent(j)'
  <2>1. payment[k] # "PAID"
    BY <1>7 DEF UpdatePaymentStatus, ValidPaymentTransitions
  <2> QED
    BY <1>7, <2>1 DEF UpdatePaymentStatus, TypeOK
<1>8. ASSUME NEW k \in Keys, NEW verdict \in {"MATCHED", "DISCREPANCY"},
             SettleCash(k, verdict)
      PROVE  Consistent(j)'
  BY <1>8 DEF SettleCash, TypeOK
<1>9. CASE UNCHANGED orderVars
  BY <1>9 DEF orderVars
<1>10. ASSUME NEW x \in Sales, SaleStep(x)
       PROVE  Consistent(j)'
  BY <1>10, <1>9 DEF SaleStep, CreateSale, UpdateOpenSale, CompleteSale,
                      VoidSale
<1>11. ASSUME NEW s \in Skus, NEW n \in 1..StockCap, AddOpeningStock(s, n)
       PROVE  Consistent(j)'
  BY <1>11, <1>9 DEF AddOpeningStock
<1> QED
  BY <1>1, <1>2, <1>3, <1>4, <1>5, <1>6, <1>7, <1>8, <1>9, <1>10, <1>11
     DEF Next, OrderStep, vars

LEMMA OrdersConsistent == Spec => []OrderInv
<1>1. Init => OrderInv
  BY DEF Init, OrderInv, TypeOK, Consistent, Statuses, Open, Quantities, Empty
<1> QED
  BY <1>1, OrderInvStep, PTL DEF Spec

\* Reserved units are held exactly while an order is open.
THEOREM ReservationsAlwaysFollowOrders == Spec => []ReservationsFollowOrders
<1>1. OrderInv => ReservationsFollowOrders
  BY DEF OrderInv, Consistent, ReservationsFollowOrders
<1> QED
  BY <1>1, OrdersConsistent, PTL

\* Cash evidence, payment and courier agree with the delivery of an order.
THEOREM CashAlwaysMatchesDelivery == Spec => []CashMatchesDelivery
<1>1. OrderInv => CashMatchesDelivery
  BY DEF OrderInv, Consistent, CashMatchesDelivery
<1> QED
  BY <1>1, OrdersConsistent, PTL

-----------------------------------------------------------------------------
(* How reservations change *)

\* A new order reserves its quantities on top.
LEMMA ReservedMore ==
    ASSUME TypeOK, NEW k \in Keys, NEW q \in Quantities, NEW s \in Skus,
           k \notin Reserving, Reserving' = Reserving \cup {k},
           items' = [items EXCEPT ![k] = q]
    PROVE  Reserved(s)' = Reserved(s) + q[s]
<1>1. PICK p : p = items'
  OBVIOUS
<1>2. p[k] = q /\ \A r \in Reserving : p[r][s] = items[r][s]
  BY <1>1 DEF TypeOK, Reserving
<1>3. TotalOf(Reserving, p, s, MaxQty) = TotalOf(Reserving, items, s, MaxQty)
  BY <1>2, TotalCongruent
<1>4. IsFiniteSet(Reserving)
  BY ReservedIsNat
<1>5. p[k][s] \in 0..MaxQty
  BY <1>2 DEF Quantities
<1>6. TotalOf(Reserving \cup {k}, p, s, MaxQty) = TotalOf(Reserving, p, s, MaxQty) + p[k][s]
  BY <1>4, <1>5, TotalOneMore
<1> QED
  BY <1>1, <1>2, <1>3, <1>6 DEF Reserved

\* An order that stops reserving gives its quantities free.
LEMMA ReservedLess ==
    ASSUME TypeOK, NEW k \in Reserving, NEW s \in Skus,
           Reserving' = Reserving \ {k}, items' = items
    PROVE  /\ Reserved(s) = Reserved(s)' + items[k][s]
           /\ items[k][s] <= Reserved(s)
           /\ Reserved(s)' \in Nat
<1>1. IsFiniteSet(Reserving)
  BY ReservedIsNat
<1>2. items[k][s] \in 0..MaxQty
  BY DEF TypeOK, Quantities, Reserving
<1>3. /\ TotalOf(Reserving, items, s, MaxQty)
           = TotalOf(Reserving \ {k}, items, s, MaxQty) + items[k][s]
      /\ items[k][s] <= TotalOf(Reserving, items, s, MaxQty)
  BY <1>1, <1>2, TotalOneLess
<1>4. TotalOf(Reserving \ {k}, items, s, MaxQty) \in Nat
  BY <1>1, FS_RemoveElement, TotalIsNat
<1> QED
  BY <1>3, <1>4 DEF Reserved

-----------------------------------------------------------------------------
(* Reserved units are on hand *)

\* The effect of every step on what is reserved and on hand, in one place: the
\* five ways the promise about the stock can move, or nothing at all.
Promising(k, q) ==
    /\ k \notin Reserving /\ Reserving' = Reserving \cup {k}
    /\ q \in Quantities /\ items' = [items EXCEPT ![k] = q]
    /\ \A s \in Skus : q[s] <= Available(s)
    /\ UNCHANGED stockVars
Releasing(k) ==
    /\ k \in Reserving /\ Reserving' = Reserving \ {k}
    /\ items' = items
    /\ UNCHANGED stockVars
Fulfilling(k) ==
    /\ k \in Reserving /\ Reserving' = Reserving \ {k}
    /\ items' = items
    /\ DeliveryCovered(k) /\ Deduct(items[k]) /\ UNCHANGED received
Selling(x) ==
    /\ Reserving' = Reserving /\ items' = items
    /\ \A s \in Skus : saleItems[x][s] <= Available(s)
    /\ Deduct(saleItems[x]) /\ UNCHANGED received
Receiving(s, n) ==
    /\ Reserving' = Reserving /\ items' = items
    /\ onHand'   = [onHand EXCEPT ![s] = @ + n]
    /\ received' = [received EXCEPT ![s] = @ + n]
    /\ UNCHANGED issued
Resting == Reserving' = Reserving /\ items' = items /\ UNCHANGED stockVars

LEMMA StepMovesPromise ==
    ASSUME OrderInv, [Next]_vars
    PROVE  \/ \E k \in Keys, q \in Quantities : Promising(k, q)
           \/ \E k \in Keys : Releasing(k) \/ Fulfilling(k)
           \/ \E x \in Sales : Selling(x)
           \/ \E s \in Skus, n \in 1..StockCap : Receiving(s, n)
           \/ Resting
<1> USE DEF OrderInv, TypeOK, Consistent, Open, Reserving, stockVars
<1>1. ASSUME NEW k \in Keys, NEW q \in NonEmpty, NEW type \in {"DELIVERY", "PICKUP"},
             CreateCodOrder(k, q, type)
      PROVE  \E j \in Keys, p \in Quantities : Promising(j, p)
  <2>1. q \in Quantities
    BY DEF NonEmpty
  <2>2. reservation[k] # "ACTIVE"
    BY <1>1 DEF CreateCodOrder
  <2>3. Promising(k, q)
    BY <1>1, <2>1, <2>2 DEF CreateCodOrder, Promising
  <2> QED
    BY <2>1, <2>3
<1>2. ASSUME NEW k \in Keys, CancelCustomerOrder(k) \/ CancelWebOrder(k)
      PROVE  Releasing(k)
  <2>1. Cancel(k) /\ status[k] \in Open
    BY <1>2 DEF CancelCustomerOrder, CancelWebOrder, ValidStatusTransitions
  <2>2. reservation[k] = "ACTIVE"
    BY <2>1
  <2> QED
    BY <2>1, <2>2 DEF Cancel, Releasing
<1>3. ASSUME NEW k \in Keys, Deliver(k)
      PROVE  Fulfilling(k)
  <2>1. status[k] \in Open
    BY <1>3 DEF Deliver, ValidStatusTransitions
  <2>2. reservation[k] = "ACTIVE"
    BY <2>1
  <2> QED
    BY <1>3, <2>2 DEF Deliver, Fulfilling
<1>4. ASSUME NEW k \in Keys,
             \/ \E to \in {"CONFIRMED", "PICKING", "PACKED"} : Progress(k, to)
             \/ AssignDelivery(k)
             \/ Dispatch(k)
             \/ \E to \in {"PENDING", "PAID", "FAILED"} : UpdatePaymentStatus(k, to)
             \/ \E verdict \in {"MATCHED", "DISCREPANCY"} : SettleCash(k, verdict)
      PROVE  Resting
  BY <1>4 DEF Progress, AssignDelivery, Dispatch, UpdatePaymentStatus, SettleCash,
              Resting
<1>5. ASSUME NEW x \in Sales, CompleteSale(x)
      PROVE  Selling(x)
  BY <1>5 DEF CompleteSale, SaleCovered, Selling, orderVars
<1>6. ASSUME NEW x \in Sales,
             \/ \E q \in NonEmpty : CreateSale(x, q)
             \/ \E to \in {"PENDING", "VOIDED"} : UpdateOpenSale(x, to)
             \/ VoidSale(x)
      PROVE  Resting
  BY <1>6 DEF CreateSale, UpdateOpenSale, VoidSale, Resting, orderVars
<1>7. ASSUME NEW s \in Skus, NEW n \in 1..StockCap, AddOpeningStock(s, n)
      PROVE  Receiving(s, n)
  BY <1>7 DEF AddOpeningStock, Receiving, orderVars
<1>8. CASE UNCHANGED vars
  BY <1>8 DEF vars, orderVars, Resting
<1> QED
  BY <1>1, <1>2, <1>3, <1>4, <1>5, <1>6, <1>7, <1>8 DEF Next, OrderStep, SaleStep

StockInv == OrderInv /\ NoOversell

LEMMA NoOversellStep == StockInv /\ [Next]_vars => NoOversell'
<1> SUFFICES ASSUME StockInv, [Next]_vars, NEW s \in Skus
             PROVE  Reserved(s)' <= onHand'[s]
  BY DEF NoOversell
<1> OrderInv /\ TypeOK /\ Reserved(s) <= onHand[s]
  BY DEF StockInv, OrderInv, NoOversell
<1>1. PICK r \in Nat, h \in Nat : r = Reserved(s) /\ h = onHand[s] /\ r <= h
  BY ReservedIsNat DEF TypeOK
<1>2. ASSUME NEW k \in Keys, NEW q \in Quantities, Promising(k, q)
      PROVE  Reserved(s)' <= onHand'[s]
  <2>1. Reserved(s)' = Reserved(s) + q[s]
    BY <1>2, ReservedMore DEF Promising
  <2>2. q[s] \in Nat /\ q[s] <= Available(s)
    BY <1>2 DEF Promising, Quantities
  <2>3. Reserved(s) + q[s] <= onHand[s]
    BY <2>2, AvailableIsOnHand DEF TypeOK
  <2> QED
    BY <1>2, <2>1, <2>3 DEF Promising, stockVars
<1>3. ASSUME NEW k \in Keys, Releasing(k)
      PROVE  Reserved(s)' <= onHand'[s]
  <2>1. Reserved(s) = Reserved(s)' + items[k][s] /\ Reserved(s)' \in Nat
    BY <1>3, ReservedLess DEF Releasing
  <2>2. items[k][s] \in Nat
    BY DEF TypeOK, Quantities
  <2>3. Reserved(s)' <= r
    BY <1>1, <2>1, <2>2
  <2> QED
    BY <1>1, <1>3, <2>1, <2>3 DEF Releasing, stockVars
<1>4. ASSUME NEW k \in Keys, Fulfilling(k)
      PROVE  Reserved(s)' <= onHand'[s]
  <2>1. Reserved(s) = Reserved(s)' + items[k][s] /\ Reserved(s)' \in Nat
    BY <1>4, ReservedLess DEF Fulfilling
  <2>2. PICK n \in Nat : n = items[k][s]
    BY DEF TypeOK, Quantities
  <2>3. onHand'[s] = h - n
    BY <1>1, <1>4, <2>2 DEF Fulfilling, Deduct
  <2> QED
    BY <1>1, <2>1, <2>2, <2>3
<1>5. ASSUME NEW x \in Sales, Selling(x)
      PROVE  Reserved(s)' <= onHand'[s]
  <2>1. Reserved(s)' = Reserved(s)
    BY <1>5 DEF Selling, Reserved
  <2>2. PICK n \in Nat : n = saleItems[x][s] /\ n <= Available(s)
    BY <1>5 DEF Selling, TypeOK, Quantities
  <2>3. Reserved(s) + n <= onHand[s]
    BY <2>2, AvailableIsOnHand DEF TypeOK
  <2>4. onHand'[s] = h - n
    BY <1>1, <1>5, <2>2 DEF Selling, Deduct
  <2>5. r + n <= h
    BY <1>1, <2>3
  <2> QED
    BY <1>1, <2>1, <2>4, <2>5
<1>6. ASSUME NEW i \in Skus, NEW n \in 1..StockCap, Receiving(i, n)
      PROVE  Reserved(s)' <= onHand'[s]
  <2>1. Reserved(s)' = Reserved(s)
    BY <1>6 DEF Receiving, Reserved
  <2>2. PICK g \in Nat : g = onHand'[s] /\ h <= g
    BY <1>1, <1>6 DEF Receiving, TypeOK
  <2> QED
    BY <1>1, <2>1, <2>2
<1>7. CASE Resting
  BY <1>1, <1>7 DEF Resting, Reserved, stockVars
<1> QED
  BY <1>2, <1>3, <1>4, <1>5, <1>6, <1>7, StepMovesPromise

LEMMA StockInvariant == Spec => []StockInv
<1>1. Init => StockInv
  <2> SUFFICES ASSUME Init PROVE StockInv
    OBVIOUS
  <2>1. OrderInv
    BY DEF Init, OrderInv, TypeOK, Consistent, Statuses, Open, Quantities, Empty
  <2>2. Reserving = {}
    BY DEF Init, Reserving
  <2>3. \A s \in Skus : Reserved(s) = 0 /\ onHand[s] = 0
    BY <2>2, TotalEmpty DEF Init, Reserved, Empty
  <2> QED
    BY <2>1, <2>3 DEF StockInv, NoOversell
<1>2. StockInv /\ [Next]_vars => StockInv'
  BY OrderInvStep, NoOversellStep DEF StockInv
<1> QED
  BY <1>1, <1>2, PTL DEF Spec

\* The shop never promises a unit twice: what open web orders reserve is on
\* hand, however checkouts, deliveries, cancellations and sales follow each other.
THEOREM NeverOversold == Spec => []NoOversell
<1>1. StockInv => NoOversell
  BY DEF StockInv
<1> QED
  BY <1>1, StockInvariant, PTL

\* The courier never stands at the door with an order the shop cannot hand out.
THEOREM DeliveryIsNeverShort == Spec => []DeliveryNeverShort
<1>1. StockInv => DeliveryNeverShort
  <2> SUFFICES ASSUME StockInv, NEW k \in Keys, status[k] = "OUT_FOR_DELIVERY",
                      NEW s \in Skus
               PROVE  items[k][s] <= onHand[s]
    BY DEF DeliveryNeverShort, DeliveryCovered
  <2>1. k \in Reserving
    BY DEF StockInv, OrderInv, Consistent, Open, Reserving
  <2>2. IsFiniteSet(Reserving) /\ Reserved(s) \in Nat
    BY ReservedIsNat
  <2>3. items[k][s] \in 0..MaxQty /\ onHand[s] \in Nat
    BY DEF StockInv, OrderInv, TypeOK, Quantities
  <2>4. items[k][s] <= Reserved(s)
    BY <2>1, <2>2, <2>3, TotalOneLess DEF Reserved
  <2>5. Reserved(s) <= onHand[s]
    BY DEF StockInv, NoOversell
  <2>6. \A a, b, c \in Nat : a <= b /\ b <= c => a <= c
    OBVIOUS
  <2>7. items[k][s] \in Nat
    BY <2>3
  <2> QED
    BY <2>2, <2>3, <2>4, <2>5, <2>6, <2>7
<1> QED
  BY <1>1, StockInvariant, PTL

-----------------------------------------------------------------------------
(* Orders and sales keep the promise about the stock *)

LEMMA StepKeepsPromise ==
    ASSUME StockInv, StockInv', [Next]_vars
    PROVE  [Promise!Next]_(Promise!vars)
<1> DEFINE P == [s \in Skus |-> Reserved(s)]
<1>0. /\ onHand \in [Skus -> Nat] /\ onHand' \in [Skus -> Nat]
      /\ received \in [Skus -> Nat] /\ received' \in [Skus -> Nat]
      /\ issued \in [Skus -> Nat] /\ issued' \in [Skus -> Nat]
      /\ TypeOK
  BY DEF StockInv, OrderInv, TypeOK
<1>1. \A s \in Skus : P[s] = Reserved(s) /\ P'[s] = Reserved(s)'
  OBVIOUS
<1>2. \A s \in Skus : /\ P[s] \in Nat /\ P'[s] \in Nat
                      /\ P[s] <= onHand[s] /\ P'[s] <= onHand'[s]
  BY <1>1, ReservedIsNat, ReservedIsNatNext DEF StockInv, NoOversell
<1>3. ASSUME NEW k \in Keys, NEW q \in Quantities, Promising(k, q)
      PROVE  Promise!Promise
  <2>1. \A s \in Skus : P'[s] = P[s] + q[s] /\ q[s] \in Nat
    <3> TAKE s \in Skus
    <3>1. Reserved(s)' = Reserved(s) + q[s]
      BY <1>0, <1>3, ReservedMore DEF Promising
    <3>2. q[s] \in Nat
      BY DEF Quantities
    <3> QED
      BY <1>1, <3>1, <3>2
  <2>2. \A s \in Skus : P'[s] \in P[s]..onHand[s]
    BY <1>0, <1>2, <1>3, <2>1 DEF Promising, stockVars
  <2> QED
    BY <1>3, <2>2 DEF Promise!Promise, Promising, stockVars
<1>4. ASSUME NEW k \in Keys, Releasing(k)
      PROVE  Promise!Release
  <2>1. \A s \in Skus : P[s] = P'[s] + items[k][s] /\ items[k][s] \in Nat
    BY <1>0, <1>1, <1>4, ReservedLess DEF Releasing, TypeOK, Quantities
  <2>2. \A s \in Skus : P'[s] \in 0..P[s]
    BY <1>2, <2>1
  <2> QED
    BY <1>4, <2>2 DEF Promise!Release, Releasing, stockVars
<1>5. ASSUME NEW k \in Keys, Fulfilling(k)
      PROVE  Promise!Fulfil
  <2>1. \A s \in Skus : P[s] = P'[s] + items[k][s] /\ items[k][s] \in Nat
    BY <1>0, <1>1, <1>5, ReservedLess DEF Fulfilling, TypeOK, Quantities
  <2>2. \A s \in Skus : /\ onHand'[s] = onHand[s] - items[k][s]
                        /\ issued'[s] = issued[s] + items[k][s]
    BY <1>5 DEF Fulfilling, Deduct
  <2>3. \A s \in Skus : /\ P'[s] \in 0..P[s]
                        /\ issued'[s] + onHand'[s] = issued[s] + onHand[s]
                        /\ onHand'[s] + P[s] = onHand[s] + P'[s]
    BY <1>0, <1>2, <2>1, <2>2
  <2> QED
    BY <1>5, <2>3 DEF Promise!Fulfil, Fulfilling
<1>6. ASSUME NEW x \in Sales, Selling(x)
      PROVE  Promise!Sell
  <2>1. P' = P
    BY <1>6 DEF Selling, Reserved
  <2>2. \A s \in Skus : /\ onHand'[s] = onHand[s] - saleItems[x][s]
                        /\ issued'[s] = issued[s] + saleItems[x][s]
                        /\ saleItems[x][s] \in Nat
    BY <1>0, <1>6 DEF Selling, Deduct, TypeOK, Quantities
  <2>3. \A s \in Skus : /\ onHand'[s] \in P[s]..onHand[s]
                        /\ issued'[s] + onHand'[s] = issued[s] + onHand[s]
    BY <1>0, <1>2, <2>1, <2>2
  <2> QED
    BY <1>6, <2>1, <2>3 DEF Promise!Sell, Selling
<1>7. ASSUME NEW i \in Skus, NEW n \in 1..StockCap, Receiving(i, n)
      PROVE  Promise!Receive
  <2>1. P' = P
    BY <1>7 DEF Receiving, Reserved
  <2>2. \A s \in Skus : /\ onHand'[s] >= onHand[s]
                        /\ onHand'[s] + received[s] = onHand[s] + received'[s]
    BY <1>0, <1>7 DEF Receiving
  <2> QED
    BY <1>7, <2>1, <2>2 DEF Promise!Receive, Receiving
<1>8. CASE Resting
  BY <1>8 DEF Resting, Reserved, stockVars, Promise!vars
<1>9. OrderInv
  BY DEF StockInv
<1> QED
  BY <1>3, <1>4, <1>5, <1>6, <1>7, <1>8, <1>9, StepMovesPromise DEF Promise!Next

\* Every run of orders and sales is a run of the promise about the stock.
THEOREM PromiseKept == Spec => KeepsStockPromise
<1>1. Init => Promise!Init
  <2> SUFFICES ASSUME Init PROVE Promise!Init
    OBVIOUS
  <2>1. Reserving = {}
    BY DEF Init, Reserving
  <2>2. \A s \in Skus : Reserved(s) = 0
    BY <2>1, TotalEmpty DEF Reserved
  <2> QED
    BY <2>2 DEF Init, Empty, Promise!Init
<1>2. StockInv /\ StockInv' /\ [Next]_vars => [Promise!Next]_(Promise!vars)
  BY StepKeepsPromise
<1> QED
  BY <1>1, <1>2, StockInvariant, PTL DEF Spec, KeepsStockPromise, Promise!Spec

-----------------------------------------------------------------------------
(* Nothing is lost or handed out twice *)

DeliveredUnits(s) == TotalOf(DeliveredKeys, items, s, MaxQty)
SoldUnits(s)      == TotalOf(CompletedSales, saleItems, s, MaxQty)

\* Which rows become final in a step, and what it does to the stock.
LEMMA StepConserves ==
    ASSUME OrderInv, [Next]_vars
    PROVE  \/ \E k \in Keys : /\ k \notin DeliveredKeys
                              /\ DeliveredKeys' = DeliveredKeys \cup {k}
                              /\ CompletedSales' = CompletedSales
                              /\ UNCHANGED <<items, saleItems, received>>
                              /\ DeliveryCovered(k) /\ Deduct(items[k])
           \/ \E x \in Sales : /\ x \notin CompletedSales
                               /\ CompletedSales' = CompletedSales \cup {x}
                               /\ DeliveredKeys' = DeliveredKeys
                               /\ UNCHANGED <<items, saleItems, received>>
                               /\ Deduct(saleItems[x])
           \/ /\ DeliveredKeys' = DeliveredKeys /\ CompletedSales' = CompletedSales
              /\ \A k \in DeliveredKeys : items'[k] = items[k]
              /\ \A x \in CompletedSales : saleItems'[x] = saleItems[x]
              /\ \/ UNCHANGED stockVars
                 \/ \E s \in Skus, n \in 1..StockCap :
                        /\ onHand'   = [onHand EXCEPT ![s] = @ + n]
                        /\ received' = [received EXCEPT ![s] = @ + n]
<1> USE DEF OrderInv, TypeOK, DeliveredKeys, CompletedSales, stockVars
<1>1. ASSUME NEW k \in Keys, NEW q \in NonEmpty, NEW type \in {"DELIVERY", "PICKUP"},
             CreateCodOrder(k, q, type)
      PROVE  /\ DeliveredKeys' = DeliveredKeys /\ CompletedSales' = CompletedSales
             /\ \A j \in DeliveredKeys : items'[j] = items[j]
             /\ UNCHANGED <<saleItems, stockVars>>
  BY <1>1 DEF CreateCodOrder, saleVars
<1>2. ASSUME NEW k \in Keys,
             \/ CancelCustomerOrder(k) \/ CancelWebOrder(k)
             \/ \E to \in {"CONFIRMED", "PICKING", "PACKED"} : Progress(k, to)
             \/ AssignDelivery(k)
             \/ Dispatch(k)
             \/ \E to \in {"PENDING", "PAID", "FAILED"} : UpdatePaymentStatus(k, to)
             \/ \E verdict \in {"MATCHED", "DISCREPANCY"} : SettleCash(k, verdict)
      PROVE  /\ DeliveredKeys' = DeliveredKeys /\ CompletedSales' = CompletedSales
             /\ UNCHANGED <<items, saleItems, stockVars>>
  BY <1>2 DEF CancelCustomerOrder, CancelWebOrder, Cancel, Progress, AssignDelivery,
              Dispatch, UpdatePaymentStatus, SettleCash, ValidStatusTransitions, Open,
              saleVars
<1>3. ASSUME NEW k \in Keys, Deliver(k)
      PROVE  /\ k \notin DeliveredKeys /\ DeliveredKeys' = DeliveredKeys \cup {k}
             /\ CompletedSales' = CompletedSales
             /\ UNCHANGED <<items, saleItems, received>>
             /\ DeliveryCovered(k) /\ Deduct(items[k])
  BY <1>3 DEF Deliver, ValidStatusTransitions, Open, saleVars
<1>4. ASSUME NEW x \in Sales, CompleteSale(x)
      PROVE  /\ x \notin CompletedSales /\ CompletedSales' = CompletedSales \cup {x}
             /\ DeliveredKeys' = DeliveredKeys
             /\ UNCHANGED <<items, saleItems, received>>
             /\ Deduct(saleItems[x])
  BY <1>4 DEF CompleteSale, SaleOpen, orderVars
<1>5. ASSUME NEW x \in Sales,
             \/ \E q \in NonEmpty : CreateSale(x, q)
             \/ \E to \in {"PENDING", "VOIDED"} : UpdateOpenSale(x, to)
             \/ VoidSale(x)
      PROVE  /\ DeliveredKeys' = DeliveredKeys /\ CompletedSales' = CompletedSales
             /\ \A y \in CompletedSales : saleItems'[y] = saleItems[y]
             /\ UNCHANGED <<items, stockVars>>
  BY <1>5 DEF CreateSale, UpdateOpenSale, VoidSale, SaleOpen, orderVars
<1>6. ASSUME NEW s \in Skus, NEW n \in 1..StockCap, AddOpeningStock(s, n)
      PROVE  /\ DeliveredKeys' = DeliveredKeys /\ CompletedSales' = CompletedSales
             /\ UNCHANGED <<items, saleItems>>
             /\ onHand'   = [onHand EXCEPT ![s] = @ + n]
             /\ received' = [received EXCEPT ![s] = @ + n]
  BY <1>6 DEF AddOpeningStock, orderVars, saleVars
<1>7. CASE UNCHANGED vars
  BY <1>7 DEF vars, orderVars, saleVars
<1>8. CASE \E k \in Keys : OrderStep(k)
  BY <1>1, <1>2, <1>3, <1>8 DEF OrderStep
<1>9. CASE \E x \in Sales : SaleStep(x)
  BY <1>4, <1>5, <1>9 DEF SaleStep
<1> QED
  BY <1>6, <1>7, <1>8, <1>9 DEF Next

LEMMA StockConservedStep ==
    ASSUME OrderInv, OrderInv', StockConserved, [Next]_vars, NEW s \in Skus
    PROVE  received'[s] = onHand'[s] + DeliveredUnits(s)' + SoldUnits(s)'
<1>1. IsFiniteSet(DeliveredKeys) /\ IsFiniteSet(CompletedSales)
  BY FS_Subset DEF DeliveredKeys, CompletedSales
<1>2. PICK R, p, T, z :
            /\ R = DeliveredKeys' /\ p = items'
            /\ T = CompletedSales' /\ z = saleItems'
  OBVIOUS
<1>3. /\ DeliveredUnits(s)' = TotalOf(R, p, s, MaxQty)
      /\ SoldUnits(s)' = TotalOf(T, z, s, MaxQty)
  BY <1>2 DEF DeliveredUnits, SoldUnits
<1>4. PICK d \in Nat, c \in Nat, h \in Nat :
            d = DeliveredUnits(s) /\ c = SoldUnits(s) /\ h = onHand[s]
  BY <1>1, TotalIsNat DEF DeliveredUnits, SoldUnits, OrderInv, TypeOK
<1>5. received[s] = h + d + c
  BY <1>4 DEF StockConserved, DeliveredUnits, SoldUnits
<1>6. /\ \A k \in Keys : items[k][s] \in 0..MaxQty
      /\ \A x \in Sales : saleItems[x][s] \in 0..MaxQty
      /\ DeliveredKeys \subseteq Keys /\ CompletedSales \subseteq Sales
  BY DEF OrderInv, TypeOK, Quantities, DeliveredKeys, CompletedSales
<1>7. ASSUME NEW k \in Keys, k \notin DeliveredKeys,
             DeliveredKeys' = DeliveredKeys \cup {k}, CompletedSales' = CompletedSales,
             UNCHANGED <<items, saleItems, received>>, Deduct(items[k])
      PROVE  received'[s] = onHand'[s] + DeliveredUnits(s)' + SoldUnits(s)'
  <2>1. PICK n \in Nat : n = items[k][s]
    BY <1>6
  <2>2. DeliveredUnits(s)' = d + n
    <3>1. TotalOf(DeliveredKeys \cup {k}, items, s, MaxQty)
            = TotalOf(DeliveredKeys, items, s, MaxQty) + items[k][s]
      BY <1>1, <1>6, <1>7, TotalOneMore
    <3> QED
      BY <1>4, <1>7, <2>1, <3>1 DEF DeliveredUnits
  <2>3. SoldUnits(s)' = c
    BY <1>4, <1>7 DEF SoldUnits
  <2>4. onHand'[s] = h - n
    BY <1>4, <1>7, <2>1 DEF Deduct
  <2> QED
    BY <1>5, <1>7, <2>2, <2>3, <2>4
<1>8. ASSUME NEW x \in Sales, x \notin CompletedSales,
             CompletedSales' = CompletedSales \cup {x}, DeliveredKeys' = DeliveredKeys,
             UNCHANGED <<items, saleItems, received>>, Deduct(saleItems[x])
      PROVE  received'[s] = onHand'[s] + DeliveredUnits(s)' + SoldUnits(s)'
  <2>1. PICK n \in Nat : n = saleItems[x][s]
    BY <1>6
  <2>2. SoldUnits(s)' = c + n
    <3>1. TotalOf(CompletedSales \cup {x}, saleItems, s, MaxQty)
            = TotalOf(CompletedSales, saleItems, s, MaxQty) + saleItems[x][s]
      BY <1>1, <1>6, <1>8, TotalOneMore
    <3> QED
      BY <1>4, <1>8, <2>1, <3>1 DEF SoldUnits
  <2>3. DeliveredUnits(s)' = d
    BY <1>4, <1>8 DEF DeliveredUnits
  <2>4. onHand'[s] = h - n
    BY <1>4, <1>8, <2>1 DEF Deduct
  <2> QED
    BY <1>5, <1>8, <2>2, <2>3, <2>4
<1>9. ASSUME DeliveredKeys' = DeliveredKeys, CompletedSales' = CompletedSales,
             \A k \in DeliveredKeys : items'[k] = items[k],
             \A x \in CompletedSales : saleItems'[x] = saleItems[x],
             \/ UNCHANGED stockVars
             \/ \E i \in Skus, n \in 1..StockCap :
                    /\ onHand'   = [onHand EXCEPT ![i] = @ + n]
                    /\ received' = [received EXCEPT ![i] = @ + n]
      PROVE  received'[s] = onHand'[s] + DeliveredUnits(s)' + SoldUnits(s)'
  <2>1. TotalOf(DeliveredKeys, p, s, MaxQty) = TotalOf(DeliveredKeys, items, s, MaxQty)
    <3>1. \A k \in DeliveredKeys : p[k][s] = items[k][s]
      BY <1>2, <1>9
    <3> QED
      BY <3>1, TotalCongruent
  <2>2. TotalOf(CompletedSales, z, s, MaxQty) = TotalOf(CompletedSales, saleItems, s, MaxQty)
    <3>1. \A x \in CompletedSales : z[x][s] = saleItems[x][s]
      BY <1>2, <1>9
    <3> QED
      BY <3>1, TotalCongruent
  <2>3. DeliveredUnits(s)' = d /\ SoldUnits(s)' = c
    BY <1>2, <1>3, <1>4, <1>9, <2>1, <2>2 DEF DeliveredUnits, SoldUnits
  <2>4. \/ onHand'[s] = h /\ received'[s] = received[s]
        \/ \E n \in Nat : onHand'[s] = h + n /\ received'[s] = received[s] + n
    BY <1>4, <1>9 DEF stockVars, OrderInv, TypeOK
  <2> QED
    BY <1>5, <2>3, <2>4
<1> QED
  BY <1>7, <1>8, <1>9, StepConserves

\* Every unit that ever came in is on hand, was delivered with a web order, or
\* was sold at the till.
THEOREM StockIsConserved == Spec => []StockConserved
<1>1. Init => StockConserved
  <2> SUFFICES ASSUME Init, NEW s \in Skus
               PROVE  received[s] = onHand[s] + DeliveredUnits(s) + SoldUnits(s)
    BY DEF StockConserved, DeliveredUnits, SoldUnits
  <2>1. DeliveredKeys = {} /\ CompletedSales = {}
    BY DEF Init, DeliveredKeys, CompletedSales
  <2> QED
    BY <2>1, TotalEmpty DEF Init, Empty, DeliveredUnits, SoldUnits
<1>2. OrderInv /\ OrderInv' /\ StockConserved /\ [Next]_vars => StockConserved'
  <2> SUFFICES ASSUME OrderInv, OrderInv', StockConserved, [Next]_vars
               PROVE  StockConserved'
    OBVIOUS
  <2>1. \A s \in Skus : received'[s] = onHand'[s] + DeliveredUnits(s)' + SoldUnits(s)'
    BY StockConservedStep
  <2> QED
    BY <2>1 DEF StockConserved, DeliveredUnits, SoldUnits
<1> QED
  BY <1>1, <1>2, OrdersConsistent, PTL DEF Spec

-----------------------------------------------------------------------------
(* What is final stays final *)

LEMMA StepKeepsFinal ==
    ASSUME OrderInv, [Next]_vars
    PROVE  /\ \A k \in Keys :
                /\ status[k] \in {"DELIVERED", "CANCELLED"} => status'[k] = status[k]
                /\ payment[k] = "PAID" => payment'[k] = "PAID"
                /\ cash[k] \in {"MATCHED", "DISCREPANCY"} => cash'[k] = cash[k]
           /\ \A x \in Sales :
                /\ saleStatus[x] \in {"VOIDED", "VOIDED_SOLD"} => saleStatus'[x] = saleStatus[x]
                /\ saleStatus[x] = "COMPLETED" => saleStatus'[x] \in {"COMPLETED", "VOIDED_SOLD"}
<1> USE DEF OrderInv, TypeOK, Consistent, orderVars, saleVars
<1>1. ASSUME NEW k \in Keys, NEW q, NEW type, CreateCodOrder(k, q, type)
      PROVE  /\ \A j \in Keys \ {k} : status'[j] = status[j] /\ payment'[j] = payment[j]
             /\ status[k] = "NONE" /\ payment[k] # "PAID"
             /\ UNCHANGED <<cash, saleStatus>>
  BY <1>1 DEF CreateCodOrder
<1>2. ASSUME NEW k \in Keys,
             \/ CancelCustomerOrder(k) \/ CancelWebOrder(k)
             \/ \E to \in {"CONFIRMED", "PICKING", "PACKED"} : Progress(k, to)
             \/ AssignDelivery(k)
             \/ Dispatch(k)
      PROVE  /\ \A j \in Keys \ {k} : status'[j] = status[j]
             /\ status[k] \in {"DELIVERED", "CANCELLED"} => status'[k] = status[k]
             /\ UNCHANGED <<payment, cash, saleStatus>>
  BY <1>2 DEF CancelCustomerOrder, CancelWebOrder, Cancel, Progress, AssignDelivery,
              Dispatch, ValidStatusTransitions, Open
<1>3. ASSUME NEW k \in Keys, Deliver(k)
      PROVE  /\ \A j \in Keys \ {k} : /\ status'[j] = status[j]
                                      /\ payment'[j] = payment[j]
                                      /\ cash'[j] = cash[j]
             /\ status[k] \in Open /\ payment'[k] = "PAID"
             /\ cash[k] # "NONE" => cash'[k] = cash[k]
             /\ UNCHANGED saleStatus
  BY <1>3 DEF Deliver, ValidStatusTransitions, Open
<1>4. ASSUME NEW k \in Keys,
             \/ \E to \in {"PENDING", "PAID", "FAILED"} : UpdatePaymentStatus(k, to)
             \/ \E verdict \in {"MATCHED", "DISCREPANCY"} : SettleCash(k, verdict)
      PROVE  /\ \A j \in Keys : payment[j] = "PAID" => payment'[j] = "PAID"
             /\ \A j \in Keys : cash[j] \in {"MATCHED", "DISCREPANCY"} => cash'[j] = cash[j]
             /\ UNCHANGED <<status, saleStatus>>
  BY <1>4 DEF UpdatePaymentStatus, SettleCash, ValidPaymentTransitions
<1>5. ASSUME NEW x \in Sales, SaleStep(x)
      PROVE  /\ \A y \in Sales \ {x} : saleStatus'[y] = saleStatus[y]
             /\ saleStatus[x] \notin {"VOIDED", "VOIDED_SOLD"}
             /\ saleStatus[x] = "COMPLETED" => saleStatus'[x] = "VOIDED_SOLD"
             /\ UNCHANGED <<status, payment, cash>>
  BY <1>5 DEF SaleStep, CreateSale, UpdateOpenSale, CompleteSale, VoidSale, SaleOpen
<1>6. ASSUME NEW s \in Skus, NEW n \in 1..StockCap, AddOpeningStock(s, n)
      PROVE  UNCHANGED <<status, payment, cash, saleStatus>>
  BY <1>6 DEF AddOpeningStock
<1>7. CASE UNCHANGED vars
  BY <1>7 DEF vars
<1>8. CASE \E k \in Keys : OrderStep(k)
  BY <1>1, <1>2, <1>3, <1>4, <1>8 DEF OrderStep, Open
<1> QED
  BY <1>5, <1>6, <1>7, <1>8 DEF Next

\* No later request changes a delivered or cancelled order, a received payment,
\* a cash count, or a voided sale, and a completed sale is at most voided.
THEOREM FinalStatesAlwaysStay == Spec => FinalStatesStay
<1>1. OrderInv /\ [Next]_vars =>
        [/\ \A k \in Keys :
             /\ status[k] \in {"DELIVERED", "CANCELLED"} => status'[k] = status[k]
             /\ payment[k] = "PAID" => payment'[k] = "PAID"
             /\ cash[k] \in {"MATCHED", "DISCREPANCY"} => cash'[k] = cash[k]
         /\ \A x \in Sales :
             /\ saleStatus[x] \in {"VOIDED", "VOIDED_SOLD"} => saleStatus'[x] = saleStatus[x]
             /\ saleStatus[x] = "COMPLETED" => saleStatus'[x] \in {"COMPLETED", "VOIDED_SOLD"}]_vars
  BY StepKeepsFinal
<1> QED
  BY <1>1, OrdersConsistent, PTL DEF Spec, FinalStatesStay
=============================================================================
