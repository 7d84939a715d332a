------------------------------ MODULE CodOrders ------------------------------
(***************************************************************************)
(* Web orders paid in cash on delivery and counter sales, over one stock.  *)
(* Every action is one committed PostgreSQL transaction of the backend: a  *)
(* request that is refused rolls back, so it is no step.  That these       *)
(* transactions, interleaved statement by statement, behave as if they     *)
(* were atomic is the subject of module StockTxns.                         *)
(*                                                                         *)
(* A key names an order: it stands for the (customer, idempotency key)     *)
(* pair that is unique in web_orders.  A product stands for a product at   *)
(* a store, which is what the advisory locks and the stock queries name.   *)
(***************************************************************************)
EXTENDS UnitCount

CONSTANTS Keys,          \* attempts to order, one order each
          Sales,         \* counter sales
          Skus,          \* products, each at one store
          MaxQty,        \* largest quantity of a line (999 in the code)
          StockCap       \* bound: units of a product that ever come in

ASSUME KeysFinite  == IsFiniteSet(Keys)
ASSUME SalesFinite == IsFiniteSet(Sales)
ASSUME MaxQtyIsNat == MaxQty \in Nat
ASSUME StockCapIsNat == StockCap \in Nat

VARIABLES status,        \* web_orders.status, or "NONE"
          kind,          \* web_orders.delivery_type
          items,         \* web_order_items: quantity per product
          reservation,   \* stock_reservations.status of the order's rows
          payment,       \* web_orders.payment_status
          assignment,    \* order_fulfillment.status, or "NONE"
          cash,          \* cod_cash_collections and its settlement
          saleStatus,    \* sales.sale_status, or "NONE"; "VOIDED_SOLD" is
                         \* VOIDED with the ISSUE rows of the completed sale
          saleItems,     \* sale_items: quantity per product
          onHand,        \* sum of batch_inventory.quantity
          received,      \* sum of the OPENING_STOCK transactions
          issued         \* sum of the ISSUE transactions

orderVars == <<status, kind, items, reservation, payment, assignment, cash>>
saleVars  == <<saleStatus, saleItems>>
stockVars == <<onHand, received, issued>>
vars      == <<orderVars, saleVars, stockVars>>

Quantities == [Skus -> 0..MaxQty]
Empty      == [s \in Skus |-> 0]
NonEmpty   == {q \in Quantities : \E s \in Skus : q[s] > 0}

Open     == {"PENDING_PAYMENT", "CONFIRMED", "PICKING", "PACKED",
             "OUT_FOR_DELIVERY"}
Statuses == Open \cup {"NONE", "DELIVERED", "CANCELLED"}

\* Definitions named Bug.. vary the one they precede, as a mistake in the code
\* would; each breaks a property below, and nothing else refers to them.
BugLateCancellation ==
    {<<"PENDING_PAYMENT", "CONFIRMED">>, <<"CONFIRMED", "PICKING">>,
     <<"PICKING", "PACKED">>, <<"PACKED", "OUT_FOR_DELIVERY">>,
     <<"OUT_FOR_DELIVERY", "DELIVERED">>} \cup ((Open \cup {"DELIVERED"}) \X {"CANCELLED"})

\* WebOrderService.validStatusTransitions, for the statuses checkout can lead to.
ValidStatusTransitions ==
    {<<"PENDING_PAYMENT", "CONFIRMED">>, <<"CONFIRMED", "PICKING">>,
     <<"PICKING", "PACKED">>, <<"PACKED", "OUT_FOR_DELIVERY">>,
     <<"OUT_FOR_DELIVERY", "DELIVERED">>} \cup (Open \X {"CANCELLED"})

BugPaymentReopened ==
    {<<"PENDING", "PAID">>, <<"PENDING", "FAILED">>,
     <<"FAILED", "PENDING">>, <<"FAILED", "PAID">>, <<"PAID", "PENDING">>}

\* WebOrderService.validPaymentTransitions.
ValidPaymentTransitions ==
    {<<"PENDING", "PAID">>, <<"PENDING", "FAILED">>,
     <<"FAILED", "PENDING">>, <<"FAILED", "PAID">>}

-----------------------------------------------------------------------------
BugReservingUntilDispatch ==
    {k \in Keys : reservation[k] = "ACTIVE" /\ status[k] # "OUT_FOR_DELIVERY"}

\* The orders whose units count as reserved, and how many that are.
Reserving   == {k \in Keys : reservation[k] = "ACTIVE"}
Reserved(s) == TotalOf(Reserving, items, s, MaxQty)

BugAvailableToAll(s) == onHand[s]

\* available_quantity of loadCanonicalCartItems, and stock - reserved at the till.
Available(s) == IF onHand[s] > Reserved(s) THEN onHand[s] - Reserved(s) ELSE 0

BugIssueUnrecorded(q) ==
    /\ onHand' = [s \in Skus |-> onHand[s] - q[s]]
    /\ UNCHANGED issued

\* The batches of every product of q give up q, first expiring first.
Deduct(q) ==
    /\ onHand' = [s \in Skus |-> onHand[s] - q[s]]
    /\ issued' = [s \in Skus |-> issued[s] + q[s]]

Init == /\ status      = [k \in Keys |-> "NONE"]
        /\ kind        = [k \in Keys |-> "PICKUP"]
        /\ items       = [k \in Keys |-> Empty]
        /\ reservation = [k \in Keys |-> "NONE"]
        /\ payment     = [k \in Keys |-> "PENDING"]
        /\ assignment  = [k \in Keys |-> "NONE"]
        /\ cash        = [k \in Keys |-> "NONE"]
        /\ saleStatus  = [x \in Sales |-> "NONE"]
        /\ saleItems   = [x \in Sales |-> Empty]
        /\ onHand      = Empty
        /\ received    = Empty
        /\ issued      = Empty

\* Opening stock of n units comes in as a new batch.
AddOpeningStock(s, n) ==
    /\ received[s] + n <= StockCap
    /\ onHand'   = [onHand EXCEPT ![s] = @ + n]
    /\ received' = [received EXCEPT ![s] = @ + n]
    /\ UNCHANGED <<orderVars, saleVars, issued>>

-----------------------------------------------------------------------------
\* A cart with contents q becomes an order whose units are reserved.
CreateCodOrder(k, q, type) ==
    /\ status[k] = "NONE"
    /\ \A s \in Skus : q[s] <= Available(s)
    /\ status'      = [status EXCEPT ![k] = "PENDING_PAYMENT"]
    /\ kind'        = [kind EXCEPT ![k] = type]
    /\ items'       = [items EXCEPT ![k] = q]
    /\ reservation' = [reservation EXCEPT ![k] = "ACTIVE"]
    /\ payment'     = [payment EXCEPT ![k] = "PENDING"]
    /\ UNCHANGED <<assignment, cash, saleVars, stockVars>>

BugCancelKeepsReservation(k) ==
    /\ status' = [status EXCEPT ![k] = "CANCELLED"]
    /\ UNCHANGED <<kind, items, reservation, payment, assignment, cash, saleVars, stockVars>>

\* The part both ways to cancel an order share.
Cancel(k) ==
    /\ status' = [status EXCEPT ![k] = "CANCELLED"]
    /\ reservation' = [reservation EXCEPT
                         ![k] = IF @ = "ACTIVE" THEN "CANCELLED" ELSE @]
    /\ UNCHANGED <<kind, items, payment, assignment, cash, saleVars, stockVars>>

\* The customer withdraws an order that nobody started to pick.
CancelCustomerOrder(k) ==
    /\ status[k] \in {"PENDING_PAYMENT", "CONFIRMED"}
    /\ Cancel(k)

\* Staff cancel an order, even one that is on its way.
CancelWebOrder(k) ==
    /\ <<status[k], "CANCELLED">> \in ValidStatusTransitions
    /\ Cancel(k)

\* Staff confirm, pick and pack; the reservation is only prolonged.
Progress(k, to) ==
    /\ <<status[k], to>> \in ValidStatusTransitions
    /\ status' = [status EXCEPT ![k] = to]
    /\ UNCHANGED <<kind, items, reservation, payment, assignment, cash,
                   saleVars, stockVars>>

\* A packed delivery order gets its courier; a repeated request changes nothing.
AssignDelivery(k) ==
    /\ kind[k] = "DELIVERY"
    /\ status[k] = "PACKED"
    /\ assignment[k] = "NONE"
    /\ assignment' = [assignment EXCEPT ![k] = "ASSIGNED"]
    /\ UNCHANGED <<status, kind, items, reservation, payment, cash,
                   saleVars, stockVars>>

\* What updateWebOrderStatus asks for before it lets an order out.
DispatchAllowed(k) == assignment[k] # "NONE"

Dispatch(k) ==
    /\ <<status[k], "OUT_FOR_DELIVERY">> \in ValidStatusTransitions
    /\ DispatchAllowed(k)
    /\ status' = [status EXCEPT ![k] = "OUT_FOR_DELIVERY"]
    /\ assignment' = [assignment EXCEPT
                        ![k] = IF kind[k] = "DELIVERY" THEN "IN_PROGRESS" ELSE @]
    /\ UNCHANGED <<kind, items, reservation, payment, cash, saleVars, stockVars>>

\* Every line of the order finds enough units in its batches.
DeliveryCovered(k) == \A s \in Skus : items[k][s] <= onHand[s]

\* The courier hands the order over and confirms the cash (cod_received).
Deliver(k) ==
    /\ <<status[k], "DELIVERED">> \in ValidStatusTransitions
    /\ kind[k] = "DELIVERY" => assignment[k] # "NONE"
    /\ DeliveryCovered(k)
    /\ Deduct(items[k])
    /\ status'     = [status EXCEPT ![k] = "DELIVERED"]
    /\ payment'    = [payment EXCEPT ![k] = "PAID"]
    /\ assignment' = [assignment EXCEPT
                        ![k] = IF kind[k] = "DELIVERY" THEN "COMPLETED" ELSE @]
    /\ cash'       = [cash EXCEPT ![k] = IF @ = "NONE" THEN "COLLECTED" ELSE @]
    /\ reservation' = [reservation EXCEPT
                         ![k] = IF @ = "ACTIVE" THEN "CONSUMED" ELSE @]
    /\ UNCHANGED <<kind, items, saleVars, received>>

\* Staff record what became of the payment, whatever the order's status.
UpdatePaymentStatus(k, to) ==
    /\ status[k] # "NONE"
    /\ <<payment[k], to>> \in ValidPaymentTransitions
    /\ payment' = [payment EXCEPT ![k] = to]
    /\ UNCHANGED <<status, kind, items, reservation, assignment, cash,
                   saleVars, stockVars>>

\* The cash a courier collected is counted once; a second count changes nothing.
SettleCash(k, verdict) ==
    /\ cash[k] = "COLLECTED"
    /\ cash' = [cash EXCEPT ![k] = verdict]
    /\ UNCHANGED <<status, kind, items, reservation, payment, assignment,
                   saleVars, stockVars>>

-----------------------------------------------------------------------------
CreateSale(x, q) ==
    /\ saleStatus[x] = "NONE"
    /\ saleStatus' = [saleStatus EXCEPT ![x] = "DRAFT"]
    /\ saleItems'  = [saleItems EXCEPT ![x] = q]
    /\ UNCHANGED <<orderVars, stockVars>>

BugSaleReopened(x) == saleStatus[x] \in {"DRAFT", "PENDING", "COMPLETED"}

\* A sale can be changed until it is final; repeating the last change does nothing.
SaleOpen(x) == saleStatus[x] \in {"DRAFT", "PENDING"}

\* A sale that is not completed is parked or voided.
UpdateOpenSale(x, to) ==
    /\ SaleOpen(x)
    /\ saleStatus' = [saleStatus EXCEPT ![x] = to]
    /\ UNCHANGED <<orderVars, saleItems, stockVars>>

BugSaleUnchecked(x) == TRUE

\* The units of a sale are on hand and not reserved.
SaleCovered(x) == \A s \in Skus : saleItems[x][s] <= Available(s)

\* The till takes the units and the sale is final.
CompleteSale(x) ==
    /\ SaleOpen(x)
    /\ SaleCovered(x)
    /\ Deduct(saleItems[x])
    /\ saleStatus' = [saleStatus EXCEPT ![x] = "COMPLETED"]
    /\ UNCHANGED <<orderVars, saleItems, received>>

\* The void route asks only that the sale be not voided, so it voids a completed
\* one as well.  Read and write are two statements; as every status but VOIDED
\* may become VOIDED, what happens in between makes no difference.
VoidSale(x) ==
    /\ saleStatus[x] \in {"DRAFT", "PENDING", "COMPLETED"}
    /\ saleStatus' = [saleStatus EXCEPT
                         ![x] = IF @ = "COMPLETED" THEN "VOIDED_SOLD" ELSE "VOIDED"]
    /\ UNCHANGED <<orderVars, saleItems, stockVars>>

-----------------------------------------------------------------------------
OrderStep(k) ==
    \/ \E q \in NonEmpty, type \in {"DELIVERY", "PICKUP"} : CreateCodOrder(k, q, type)
    \/ CancelCustomerOrder(k)
    \/ CancelWebOrder(k)
    \/ \E to \in {"CONFIRMED", "PICKING", "PACKED"} : Progress(k, to)
    \/ AssignDelivery(k)
    \/ Dispatch(k)
    \/ Deliver(k)
    \/ \E to \in {"PENDING", "PAID", "FAILED"} : UpdatePaymentStatus(k, to)
    \/ \E verdict \in {"MATCHED", "DISCREPANCY"} : SettleCash(k, verdict)

SaleStep(x) ==
    \/ \E q \in NonEmpty : CreateSale(x, q)
    \/ \E to \in {"PENDING", "VOIDED"} : UpdateOpenSale(x, to)
    \/ CompleteSale(x)
    \/ VoidSale(x)

Next ==
    \/ \E k \in Keys : OrderStep(k)
    \/ \E x \in Sales : SaleStep(x)
    \/ \E s \in Skus, n \in 1..StockCap : AddOpeningStock(s, n)

Spec == Init /\ [][Next]_vars

-----------------------------------------------------------------------------
TypeOK ==
    /\ status      \in [Keys -> Statuses]
    /\ kind        \in [Keys -> {"DELIVERY", "PICKUP"}]
    /\ items       \in [Keys -> Quantities]
    /\ reservation \in [Keys -> {"NONE", "ACTIVE", "CONSUMED", "CANCELLED"}]
    /\ payment     \in [Keys -> {"PENDING", "PAID", "FAILED"}]
    /\ assignment  \in [Keys -> {"NONE", "ASSIGNED", "IN_PROGRESS", "COMPLETED"}]
    /\ cash        \in [Keys -> {"NONE", "COLLECTED", "MATCHED", "DISCREPANCY"}]
    /\ saleStatus  \in [Sales -> {"NONE", "DRAFT", "PENDING", "COMPLETED", "VOIDED",
                                "VOIDED_SOLD"}]
    /\ saleItems   \in [Sales -> Quantities]
    /\ onHand      \in [Skus -> Nat]
    /\ received    \in [Skus -> Nat]
    /\ issued      \in [Skus -> Nat]

\* Oversell: web orders and the till compete for the same batches, yet what
\* the open orders reserve is always physically there, as long as the legacy
\* lifecycle and the batch routes, which ask for no advisory lock, rest.
NoOversell == \A s \in Skus : Reserved(s) <= onHand[s]

\* The reservation rows follow the order they belong to: units are held
\* exactly while the order is open, consumed exactly when it was delivered.
ReservationsFollowOrders ==
    \A k \in Keys :
        /\ reservation[k] = "ACTIVE"    <=> status[k] \in Open
        /\ reservation[k] = "CONSUMED"  <=> status[k] = "DELIVERED"
        /\ reservation[k] = "CANCELLED" <=> status[k] = "CANCELLED"

\* An order that left the store can be handed over: the check for
\* "Insufficient inventory to complete delivery" never fires, as long as the legacy
\* lifecycle and the batch routes, which ask for no advisory lock, rest.
DeliveryNeverShort ==
    \A k \in Keys : status[k] = "OUT_FOR_DELIVERY" => DeliveryCovered(k)

\* Nothing is lost or handed out twice: what ever came in is on hand, was
\* delivered with an order, or went over the counter in a sale that was
\* completed; voiding that sale later brings no unit back.  Here, too, the legacy
\* lifecycle and the batch routes rest.
DeliveredKeys  == {k \in Keys : status[k] = "DELIVERED"}
CompletedSales == {x \in Sales : saleStatus[x] \in {"COMPLETED", "VOIDED_SOLD"}}
StockConserved ==
    \A s \in Skus :
        received[s] = onHand[s] + TotalOf(DeliveredKeys, items, s, MaxQty)
                                + TotalOf(CompletedSales, saleItems, s, MaxQty)

\* Cash evidence exists for exactly the delivered orders, which count as paid;
\* an order is handed over only by a courier who was assigned to it.
CashMatchesDelivery ==
    \A k \in Keys :
        /\ cash[k] # "NONE" <=> status[k] = "DELIVERED"
        /\ status[k] = "DELIVERED" => payment[k] = "PAID"
        /\ assignment[k] = "COMPLETED" <=>
               status[k] = "DELIVERED" /\ kind[k] = "DELIVERY"

\* What is final stays final: delivered and cancelled orders, a payment that
\* was received, a cash count, a voided sale; a completed sale is at most voided.
FinalStatesStay ==
    [][/\ \A k \in Keys :
            /\ status[k] \in {"DELIVERED", "CANCELLED"} => status'[k] = status[k]
            /\ payment[k] = "PAID" => payment'[k] = "PAID"
            /\ cash[k] \in {"MATCHED", "DISCREPANCY"} => cash'[k] = cash[k]
       /\ \A x \in Sales :
            /\ saleStatus[x] \in {"VOIDED", "VOIDED_SOLD"} => saleStatus'[x] = saleStatus[x]
            /\ saleStatus[x] = "COMPLETED" => saleStatus'[x] \in {"COMPLETED", "VOIDED_SOLD"}]_vars

\* Pickup orders do not require a delivery assignment (the answer of the
\* assignment route), so a packed one may be handed out.
PickupNeedsNoAssignment ==
    \A k \in Keys : status[k] = "PACKED" /\ kind[k] = "PICKUP" => DispatchAllowed(k)

\* The orders and sales realise the promise about the stock.
Promise == INSTANCE StockPromise WITH promised <- [s \in Skus |-> Reserved(s)]
KeepsStockPromise == Promise!Spec
=============================================================================
