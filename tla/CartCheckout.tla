----------------------------- MODULE CartCheckout -----------------------------
(***************************************************************************)
(* How the carts of one customer at one store become orders: the checkout  *)
(* transaction of POST /checkout/cod, statement by statement, repeated     *)
(* under idempotency keys, next to the calls that edit the carts.          *)
(*                                                                         *)
(* An edit looks at the cart in one statement and writes in another, each  *)
(* its own transaction (READ COMMITTED), so a checkout or another edit may *)
(* come between.  Repeated requests differ in nothing but the cart and     *)
(* what it holds: address, name and notes are sent again as they were.     *)
(* The batches do not change here (StockTxns), and stock is checked and    *)
(* reserved under the advisory locks of the products, hence in one step.   *)
(***************************************************************************)
EXTENDS Naturals, FiniteSets, FiniteSetsExt

CONSTANTS Requests,      \* calls of POST /checkout/cod
          Editors,       \* clients of the cart routes, one call at a time
          Keys,          \* idempotency keys
          Carts,         \* rows of shopping_carts
          Skus,          \* products
          MaxQty,        \* bound: largest quantity of a line
          MaxRows,       \* bound: rows ever inserted into cart_items
          Stock          \* units in the batches, per product

ASSUME CartCheckoutAssumptions ==
    /\ IsFiniteSet(Requests) /\ IsFiniteSet(Carts) /\ IsFiniteSet(Skus)
    /\ MaxQty \in Nat /\ MaxRows \in Nat
    /\ Stock \in [Skus -> Nat]

VARIABLES cartStatus,    \* shopping_carts.status, or "NONE", or "DELETED"
          rows,          \* cart_items
          lastRow,       \* ids given to rows so far; an id is never used again
          orders,        \* web_orders, with items, stored fingerprint, and the
                         \* cart, even if that is deleted (cart_id is then NULL)
          request,       \* per request: how far it is, and what it has read
          call           \* per editor: what it is about to write

vars == <<cartStatus, rows, lastRow, orders, request, call>>

Lines == [sku : Skus, qty : 1..MaxQty]
Row   == [id : 1..MaxRows, cart : Carts, sku : Skus, qty : 1..MaxQty]

RowsOf(c) == {r \in rows : r.cart = c}

\* What is in a cart, whatever the ids of its rows: the lines, with multiplicity.
Content(R) == [l \in Lines |-> Cardinality({r \in R : r.sku = l.sku /\ r.qty = l.qty})]

Units(R, s) == MapThenSumSet(LAMBDA r : r.qty, {r \in R : r.sku = s})

\* The units of product s that the orders reserve; one id is in one order only.
Reserved(s)  == Units(UNION {o.rows : o \in orders}, s)
Available(s) == IF Stock[s] > Reserved(s) THEN Stock[s] - Reserved(s) ELSE 0

\* Definitions named Bug.. vary the one they precede, as a mistake in the code
\* would; each breaks a property below, and nothing else refers to them.

BugFingerprintWithoutCart(c) == [cart |-> 0, content |-> Content(RowsOf(c))]

\* What requestFingerprint is a hash of: the cart's id and its lines.
Fingerprint(c) == [cart |-> c, content |-> Content(RowsOf(c))]

OrdersOf(k) == {o \in orders : o.key = k}

-----------------------------------------------------------------------------
(* Locks, as the transactions that hold them have come *)

InTransaction(q) == request[q].pc \in {"fingerprinted", "new", "locked"}

BugNoKeyLock(k) == TRUE
BugRefusalKeepsKey(k) ==
    \A q \in Requests : request[q].pc \in {"fingerprinted", "new", "locked", "answered"}
        /\ (request[q].pc = "answered" => request[q].answer = "REFUSED")
        => request[q].key # k

\* Nobody else works on this key (advisory lock checkout:<customer>:<key>).
KeyFree(k) == \A q \in Requests : InTransaction(q) => request[q].key # k

\* Nobody holds the cart's row (SELECT .. FOR UPDATE); an INSERT of a line
\* waits for it too, because the foreign key makes it share the row.
CartFree(c) == \A q \in Requests : request[q].pc = "locked" => request[q].cart # c

BugRowsNotLocked(R) == TRUE

\* Nobody holds one of these lines (checkout reads them FOR UPDATE).
RowsFree(R) == \A q \in Requests : request[q].pc = "locked" =>
                  {r.id : r \in R} \cap {r.id : r \in request[q].rows} = {}

-----------------------------------------------------------------------------
(* A request to check out *)

Submit(q, k, c) ==
    /\ request[q].pc = "idle"
    /\ cartStatus[c] # "NONE"
    /\ request' = [request EXCEPT ![q] = [pc |-> "sent", key |-> k, cart |-> c]]
    /\ UNCHANGED <<cartStatus, rows, lastRow, orders, call>>

\* The end of a request; its transaction is over and its locks are free.
Answer(q, what, print) ==
    request' = [request EXCEPT ![q] = [pc |-> "answered", key |-> @.key, cart |-> @.cart,
                                       answer |-> what, print |-> print]]

\* The key lock is granted and the cart read, not yet locked.
TakeFingerprint(q) ==
    /\ request[q].pc = "sent"
    /\ KeyFree(request[q].key)
    /\ request' = [request EXCEPT ![q] = [pc |-> "fingerprinted", key |-> @.key,
                       cart |-> @.cart, print |-> Fingerprint(@.cart)]]
    /\ UNCHANGED <<cartStatus, rows, lastRow, orders, call>>

\* What a request is told when its key has an order already.
Existing(q, o) == IF o.print = request[q].print THEN "ORDER" ELSE "CONFLICT"

FindExisting(q) ==
    /\ request[q].pc = "fingerprinted"
    /\ IF OrdersOf(request[q].key) = {}
       THEN request' = [request EXCEPT ![q].pc = "new"]
       ELSE \E o \in OrdersOf(request[q].key) : Answer(q, Existing(q, o), request[q].print)
    /\ UNCHANGED <<cartStatus, rows, lastRow, orders, call>>

BugConvertedCart(c) == RowsOf(c) # {}
BugEmptyCart(c)     == cartStatus[c] = "ACTIVE"

Orderable(c) == cartStatus[c] = "ACTIVE" /\ RowsOf(c) # {}

\* The cart and its lines are locked and read once more.
LockCart(q) ==
    LET c == request[q].cart IN
    /\ request[q].pc = "new"
    /\ CartFree(c)
    /\ IF Orderable(c)
       THEN request' = [request EXCEPT ![q] = [pc |-> "locked", key |-> @.key,
                            cart |-> c, print |-> @.print, rows |-> RowsOf(c)]]
       ELSE Answer(q, "REFUSED", request[q].print)
    /\ UNCHANGED <<cartStatus, rows, lastRow, orders, call>>

\* Every line alone is compared with what is available of its product.
InStock(R) == \A r \in R : r.qty <= Available(r.sku)

\* The order is inserted, the cart is converted, and the transaction commits.
PlaceOrder(q) ==
    LET k == request[q].key
        c == request[q].cart IN
    /\ request[q].pc = "locked"
    /\ InStock(request[q].rows)
    /\ OrdersOf(k) = {}
    /\ orders' = orders \cup {[key |-> k, cart |-> c, rows |-> request[q].rows,
                               print |-> request[q].print]}
    /\ cartStatus' = [cartStatus EXCEPT ![c] = "CONVERTED"]
    /\ Answer(q, "ORDER", request[q].print)
    /\ UNCHANGED <<rows, lastRow, call>>

\* Not enough stock, or the unique index on (customer, key) was hit (23505).
RefuseOrder(q) ==
    /\ request[q].pc = "locked"
    /\ IF ~InStock(request[q].rows)
       THEN Answer(q, "REFUSED", request[q].print)
       ELSE \E o \in OrdersOf(request[q].key) : Answer(q, Existing(q, o), request[q].print)
    /\ UNCHANGED <<cartStatus, rows, lastRow, orders, call>>

\* The connection breaks: the transaction is rolled back and nobody answers.
Fail(q) ==
    /\ InTransaction(q)
    /\ Answer(q, "LOST", request[q].print)
    /\ UNCHANGED <<cartStatus, rows, lastRow, orders, call>>

-----------------------------------------------------------------------------
(* Edits of a cart: Look.. is the statement that checks, the rest writes *)

Idle == [op |-> "idle"]

Look(e, next) ==
    /\ call[e] = Idle
    /\ call' = [call EXCEPT ![e] = next]
    /\ UNCHANGED <<cartStatus, rows, lastRow, orders, request>>

\* getOrCreateCart finds no active cart.
LookForCart(e) ==
    /\ \A c \in Carts : cartStatus[c] # "ACTIVE"
    /\ Look(e, [op |-> "create"])

\* What addToCart does when it has looked for a line of the product, and what
\* comes after it.
Additions(c, l, next) ==
    LET found == {r \in RowsOf(c) : r.sku = l.sku} IN
    IF found = {} THEN {[op |-> "insert", cart |-> c, line |-> l, then |-> next]}
    ELSE {[op |-> "increase", id |-> r.id, qty |-> l.qty, then |-> next] : r \in found}

LookForLine(e, c, l) ==
    /\ cartStatus[c] = "ACTIVE"
    /\ \E next \in Additions(c, l, Idle) : Look(e, next)

\* updateCartItem and removeFromCart check that the line is in an active cart.
LookAtLine(e, r) ==
    /\ cartStatus[r.cart] = "ACTIVE"
    /\ \/ \E n \in 1..MaxQty : Look(e, [op |-> "set", id |-> r.id, qty |-> n])
       \/ Look(e, [op |-> "remove", id |-> r.id])

\* clearCart checks that the cart is active.
LookAtCart(e, c) ==
    /\ cartStatus[c] = "ACTIVE"
    /\ Look(e, [op |-> "clear", cart |-> c])

\* mergeCarts checks that both carts are active, and reads the lines of one.
LookAtCarts(e, from, into) ==
    /\ cartStatus[from] = "ACTIVE" /\ cartStatus[into] = "ACTIVE"
    /\ Look(e, [op |-> "merge", from |-> from, into |-> into, lines |-> RowsOf(from)])

Written(e) == call' = [call EXCEPT ![e] = IF "then" \in DOMAIN @ THEN @.then ELSE Idle]

CreateCart(e, c) ==
    /\ call[e].op = "create"
    /\ cartStatus[c] = "NONE"
    /\ cartStatus' = [cartStatus EXCEPT ![c] = "ACTIVE"]
    /\ Written(e)
    /\ UNCHANGED <<rows, lastRow, orders, request>>

\* If the cart is deleted meanwhile, the foreign key refuses the line (CallFails).
InsertLine(e) ==
    /\ call[e].op = "insert"
    /\ cartStatus[call[e].cart] # "DELETED"
    /\ CartFree(call[e].cart)
    /\ lastRow < MaxRows
    /\ rows' = rows \cup {[id |-> lastRow + 1, cart |-> call[e].cart,
                           sku |-> call[e].line.sku, qty |-> call[e].line.qty]}
    /\ lastRow' = lastRow + 1
    /\ Written(e)
    /\ UNCHANGED <<cartStatus, orders, request>>

\* An UPDATE by id: the row gets a new quantity, if it still exists.
UpdateLine(e) ==
    LET target == {r \in rows : r.id = call[e].id}
        New(r) == IF call[e].op = "set" THEN call[e].qty ELSE r.qty + call[e].qty IN
    /\ call[e].op \in {"set", "increase"}
    /\ RowsFree(target)
    /\ \A r \in target : New(r) <= MaxQty
    /\ rows' = (rows \ target) \cup {[r EXCEPT !.qty = New(r)] : r \in target}
    /\ Written(e)
    /\ UNCHANGED <<cartStatus, lastRow, orders, request>>

\* A DELETE by the line's id, or of all lines of the cart.
DeleteLines(e) ==
    LET target == IF call[e].op = "remove" THEN {r \in rows : r.id = call[e].id}
                                           ELSE RowsOf(call[e].cart) IN
    /\ call[e].op \in {"remove", "clear"}
    /\ RowsFree(target)
    /\ rows' = rows \ target
    /\ Written(e)
    /\ UNCHANGED <<cartStatus, lastRow, orders, request>>

\* mergeCarts adds the lines it has read, one by one, with addToCart.
MergeLine(e, r) ==
    /\ call[e].op = "merge" /\ r \in call[e].lines
    /\ cartStatus[call[e].into] = "ACTIVE"
    /\ \E next \in Additions(call[e].into, [sku |-> r.sku, qty |-> r.qty],
                              [call[e] EXCEPT !.lines = @ \ {r}]) :
          call' = [call EXCEPT ![e] = next]
    /\ UNCHANGED <<cartStatus, rows, lastRow, orders, request>>

\* At last the cart is deleted with what is in it now, whatever its status.
DeleteCart(e) ==
    /\ call[e].op = "merge" /\ call[e].lines = {}
    /\ CartFree(call[e].from)
    /\ cartStatus' = [cartStatus EXCEPT ![call[e].from] = "DELETED"]
    /\ rows' = rows \ RowsOf(call[e].from)
    /\ Written(e)
    /\ UNCHANGED <<lastRow, orders, request>>

\* A call breaks off before its next statement; what it wrote stays.
CallFails(e) ==
    /\ call[e] # Idle
    /\ call' = [call EXCEPT ![e] = Idle]
    /\ UNCHANGED <<cartStatus, rows, lastRow, orders, request>>

\* replaceItems is one transaction, under the lock of the cart's row: the lines
\* it writes are of different products.
ReplaceItems(c, q) ==
    LET new == {s \in DOMAIN q : q[s] > 0} IN
    /\ cartStatus[c] = "ACTIVE"
    /\ CartFree(c)
    /\ new # {}
    /\ lastRow + Cardinality(new) <= MaxRows
    /\ \E id \in [new -> lastRow + 1 .. lastRow + Cardinality(new)] :
          /\ \A s, t \in new : s # t => id[s] # id[t]
          /\ rows' = (rows \ RowsOf(c)) \cup
                     {[id |-> id[s], cart |-> c, sku |-> s, qty |-> q[s]] : s \in new}
    /\ lastRow' = lastRow + Cardinality(new)
    /\ UNCHANGED <<cartStatus, orders, request, call>>

-----------------------------------------------------------------------------
Init == /\ cartStatus = [c \in Carts |-> "NONE"]
        /\ rows    = {}
        /\ lastRow = 0
        /\ orders  = {}
        /\ request = [q \in Requests |-> [pc |-> "idle"]]
        /\ call    = [e \in Editors |-> Idle]

CheckoutStep(q) ==
    \/ TakeFingerprint(q) \/ FindExisting(q) \/ LockCart(q)
    \/ PlaceOrder(q) \/ RefuseOrder(q)

Edit(e) ==
    \/ LookForCart(e)
    \/ \E c \in Carts, l \in Lines : LookForLine(e, c, l)
    \/ \E r \in rows : LookAtLine(e, r)
    \/ \E c \in Carts : LookAtCart(e, c) \/ CreateCart(e, c)
    \/ InsertLine(e) \/ UpdateLine(e) \/ DeleteLines(e)
    \/ \E from, into \in Carts : LookAtCarts(e, from, into)
    \/ \E r \in Row : MergeLine(e, r)
    \/ DeleteCart(e) \/ CallFails(e)

Next ==
    \/ \E q \in Requests, k \in Keys, c \in Carts : Submit(q, k, c)
    \/ \E q \in Requests : CheckoutStep(q) \/ Fail(q)
    \/ \E e \in Editors : Edit(e)
    \/ \E c \in Carts, q \in [Skus -> 0..MaxQty] : ReplaceItems(c, q)

\* The server runs a request to its end, and a lock is granted to those who
\* wait for it in the order they came.  Nobody has to edit or submit.
Fairness == \A q \in Requests : SF_vars(CheckoutStep(q))

Spec     == Init /\ [][Next]_vars
FairSpec == Spec /\ Fairness

-----------------------------------------------------------------------------
TypeOK ==
    /\ cartStatus \in [Carts -> {"NONE", "ACTIVE", "CONVERTED", "DELETED"}]
    /\ \A r \in rows : r \in Row
    /\ lastRow \in 0..MaxRows
    /\ \A o \in orders : /\ o.key \in Keys /\ o.cart \in Carts /\ o.rows # {}
                         /\ \A r \in o.rows : r \in Row
    /\ \A r, s \in rows : r.id = s.id => r = s
    /\ \A q \in Requests : request[q].pc \in {"idle", "sent", "fingerprinted", "new",
                                              "locked", "answered"}
    /\ \A e \in Editors : call[e].op \in {"idle", "create", "insert", "increase",
                                          "set", "remove", "clear", "merge"}

\* Duplicate checkout: a cart is ordered at most once, however many requests
\* with whatever keys compete for it.
OneOrderPerCart == \A o, p \in orders : o.cart = p.cart => o = p

\* An order holds what its cart holds when it commits: no edit slips in
\* between the moment checkout reads the lines and the moment it converts the
\* cart.
OrderIsCartAsConverted ==
    [][\A o \in orders' \ orders : o.rows = RowsOf(o.cart)]_vars

\* The order a request is answered with was made from the cart the request names.
AnswerIsForTheCart ==
    \A q \in Requests : request[q].pc = "answered" /\ request[q].answer = "ORDER" =>
        \E o \in OrdersOf(request[q].key) : o.cart = request[q].cart

\* A request whose key has its order is never sent away as if it were new
\* ("Cart is not available"): concurrent duplicates wait for the first.
RepeatIsRecognised ==
    [][\A q \in Requests : request[q].pc # "answered" /\ request'[q].pc = "answered"
           /\ request'[q].answer = "REFUSED" => OrdersOf(request[q].key) = {}]_vars

\* Whoever submits gets an answer, or loses the connection.
EveryRequestAnswered ==
    \A q \in Requests : request[q].pc = "sent" ~> request[q].pc = "answered"

\* "Duplicate submissions with the same idempotency key return the existing
\* order": a conflict means another cart, or other lines than were ordered.
DuplicateReturnsOrder ==
    \A q \in Requests : request[q].pc = "answered" /\ request[q].answer = "CONFLICT" =>
        \A o \in OrdersOf(request[q].key) :
            \/ request[q].cart # o.cart
            \/ request[q].print.content # Content(o.rows)

\* "Prevent duplicate checkout and overselling": the orders reserve no more
\* units than there are.
NoOversell == \A s \in Skus : Reserved(s) <= Stock[s]
=============================================================================
