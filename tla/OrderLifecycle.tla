---------------------------- MODULE OrderLifecycle ----------------------------
(***************************************************************************)
(* The status of web orders under both of its owners.  WebOrderService     *)
(* changes it in a transaction that holds the order's row; the legacy      *)
(* OrderLifecycleService reads the status, checks it, and writes the new   *)
(* one in a statement of its own, whatever the status is by then.  So a    *)
(* delivered order can be cancelled, and a cancelled one delivered.        *)
(*                                                                         *)
(* Couriers, cash, reservations and stock are left to CodOrders: here      *)
(* WebOrderService may or may not find what it asks for besides the        *)
(* status, and the legacy service touches none of them.                    *)
(***************************************************************************)
CONSTANTS Orders,
          Clerks         \* requests to the legacy routes, one at a time each

VARIABLES status,        \* web_orders.status, or "NONE"
          legacy         \* per clerk: the change that is under way

orderVars == <<status, legacy>>

Statuses == {"NONE", "PENDING_PAYMENT", "CONFIRMED", "PICKING", "PACKED",
             "OUT_FOR_DELIVERY", "DELIVERED", "CANCELLED"}

NoChange == [pc |-> "idle"]
Change   == [pc : {"idle"}] \cup [pc : {"checked"}, order : Orders, to : Statuses]

\* validStatusTransitions, and also validTransitions of the legacy service: the
\* two agree on the statuses an order can have while returns are disabled.
ValidTransitions ==
    {<<"PENDING_PAYMENT", "CONFIRMED">>, <<"CONFIRMED", "PICKING">>,
     <<"PICKING", "PACKED">>, <<"PACKED", "OUT_FOR_DELIVERY">>,
     <<"OUT_FOR_DELIVERY", "DELIVERED">>}
    \cup ((Statuses \ {"NONE", "DELIVERED", "CANCELLED"}) \X {"CANCELLED"})

OInit ==
    /\ status = [o \in Orders |-> "NONE"]
    /\ legacy = [c \in Clerks |-> NoChange]

CreateOrder(o) ==
    /\ status[o] = "NONE"
    /\ status' = [status EXCEPT ![o] = "PENDING_PAYMENT"]
    /\ UNCHANGED legacy

\* Staff, or a customer who cancels, in one transaction.
UpdateWebOrderStatus(o, to) ==
    /\ <<status[o], to>> \in ValidTransitions
    /\ status' = [status EXCEPT ![o] = to]
    /\ UNCHANGED legacy

\* The legacy transition, or cancellation, finds the change valid.
CheckTransition(c, o, to) ==
    /\ legacy[c] = NoChange
    /\ <<status[o], to>> \in ValidTransitions
    /\ legacy' = [legacy EXCEPT ![c] = [pc |-> "checked", order |-> o, to |-> to]]
    /\ UNCHANGED status

\* It writes the status.
TransitionOrderStatus(c, o) ==
    /\ legacy[c] # NoChange /\ legacy[c].order = o
    /\ status' = [status EXCEPT ![o] = legacy[c].to]
    /\ legacy' = [legacy EXCEPT ![c] = NoChange]

\* The request breaks off between its two statements.
TransitionFails(c, o) ==
    /\ legacy[c] # NoChange /\ legacy[c].order = o
    /\ legacy' = [legacy EXCEPT ![c] = NoChange]
    /\ UNCHANGED status

OrderStep(o) ==
    \/ CreateOrder(o)
    \/ \E to \in Statuses : UpdateWebOrderStatus(o, to)
    \/ \E c \in Clerks, to \in Statuses : CheckTransition(c, o, to)
    \/ \E c \in Clerks : TransitionOrderStatus(c, o) \/ TransitionFails(c, o)

OrderTypeOK ==
    /\ status \in [Orders -> Statuses]
    /\ legacy \in [Clerks -> Change]
=============================================================================
