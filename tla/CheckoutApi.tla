------------------------------ MODULE CheckoutApi ------------------------------
(***************************************************************************)
(* A customer's application and the server it checks out with: three kinds *)
(* of calls, over a network on which calls and answers get lost, and a     *)
(* call that nobody waits for any more may still arrive.  All clients are  *)
(* of one customer, at one store.                                          *)
(*                                                                         *)
(* The server works on a call in two steps: what it looks at first, in     *)
(* statements that lock no cart, and what it writes then.  Other calls may *)
(* come between, and a call that has begun goes on when its client waits   *)
(* no longer.  CartCheckout has the checkout statement by statement, and   *)
(* the routes that take units out of carts, which applications do not use. *)
(***************************************************************************)
EXTENDS Naturals, Sequences

CONSTANTS Clients,       \* telephones with the application
          Skus,          \* products
          Forms,         \* what the customer fills in: name, telephone, notes
          MaxQty,        \* bound: units of a product in a client's own cart
          MaxUnits,      \* bound: units of a product in a cart of the server
          MaxCarts,      \* bound: rows ever inserted into shopping_carts
          MaxKeys        \* bound: idempotency keys ever made

ASSUME CheckoutApiAssumptions ==
    MaxQty \in Nat /\ MaxUnits \in Nat /\ MaxCarts \in Nat /\ MaxKeys \in Nat

VARIABLES carts,         \* shopping_carts with their cart_items, by creation
          orders,        \* web_orders; print is the stored fingerprint; from and
                         \* asked are in no column: which client placed the
                         \* order, and what it was to hold
          awaited,       \* per client: the call it waits for, if any
          late,          \* per client: one it no longer waits for, on its way
          items,         \* per client: its own cart, as the customer sees it
          lastKey        \* idempotency keys made so far

serverVars == <<carts, orders>>
apiVars    == <<carts, orders, awaited, late, items, lastKey>>

Lines   == [Skus -> 0..MaxQty]
Nothing == [s \in Skus |-> 0]

NoCall  == [op |-> "none"]
Idle    == [stage |-> "idle"]
Answers == [kind : {"ok", "conflict"}, cart : 1..MaxCarts]

ApiInit ==
    /\ carts = <<>>
    /\ orders = {}
    /\ awaited = [c \in Clients |-> Idle]
    /\ late = [c \in Clients |-> NoCall]
    /\ items = [c \in Clients |-> Nothing]
    /\ lastKey = 0

-----------------------------------------------------------------------------
(* The server *)

Active      == {i \in DOMAIN carts : carts[i].status = "ACTIVE"}
OrdersOf(k) == {o \in orders : o.key = k}

HoldsKey(k, key) == k.op = "checkout" /\ k.begun /\ k.key = key

\* No checkout of this key is under way (advisory lock checkout:<customer>:<key>).
KeyFree(key) == \A c \in Clients :
    /\ awaited[c].stage = "sent" => ~HoldsKey(awaited[c].call, key)
    /\ ~HoldsKey(late[c], key)

\* The first look, if it is neither the answer nor a refusal: there is no active
\* cart; the cart to add to is active; the key of the checkout has no order.
MayBegin(k) ==
    /\ ~k.begun
    /\ \/ k.op = "cart" /\ Active = {}
       \/ k.op = "add" /\ k.cart \in Active
       \/ k.op = "checkout" /\ KeyFree(k.key) /\ OrdersOf(k.key) = {}

\* What is remembered of it.  A checkout has read the lines for its fingerprint.
Begun(k) == IF k.op = "checkout"
            THEN [k EXCEPT !.begun = TRUE, !.print = carts[k.cart].lines]
            ELSE [k EXCEPT !.begun = TRUE]

\* POST /shopping-cart: the latest cart that is active, or, if there was none at
\* first, a new one.
FindCart(k, a) ==
    /\ ~k.begun
    /\ a.kind = "ok" /\ a.cart \in Active /\ \A i \in Active : i <= a.cart
    /\ UNCHANGED serverVars

CreateCart(k, a) ==
    /\ k.begun
    /\ Len(carts) < MaxCarts
    /\ a = [kind |-> "ok", cart |-> Len(carts) + 1]
    /\ carts' = Append(carts, [status |-> "ACTIVE", lines |-> Nothing])
    /\ UNCHANGED orders

\* POST /shopping-cart/:id/items: the units come on top of what is there, in a
\* row of their own or not.  The cart's status is not looked at any more.
AddToCart(k, a) ==
    /\ k.begun
    /\ carts[k.cart].lines[k.sku] + k.qty <= MaxUnits
    /\ carts' = [carts EXCEPT ![k.cart].lines[k.sku] = @ + k.qty]
    /\ a = [kind |-> "ok", cart |-> k.cart]
    /\ UNCHANGED orders

\* The fingerprint of the call is compared with the one in the order: the cart,
\* its lines, and the form (createCodOrder hashes them).  Two rows of one product
\* count as their sum.
SameRequest(o, k) == o.cart = k.cart /\ o.print = carts[k.cart].lines /\ o.form = k.form

\* Definitions named Bug.. vary the one they precede, as a mistake in the code
\* would; each breaks a property of the client, and nothing else refers to them.
BugRepeatNeedsActiveCart(k, a) ==
    /\ ~k.begun /\ KeyFree(k.key) /\ k.cart \in Active
    /\ \E o \in OrdersOf(k.key) :
           a = [kind |-> IF SameRequest(o, k) THEN "ok" ELSE "conflict", cart |-> k.cart]
    /\ UNCHANGED serverVars

\* A key that has an order is answered with it, if the request is the same.
RepeatOrder(k, a) ==
    /\ ~k.begun /\ KeyFree(k.key)
    /\ \E o \in OrdersOf(k.key) :
           a = [kind |-> IF SameRequest(o, k) THEN "ok" ELSE "conflict", cart |-> k.cart]
    /\ UNCHANGED serverVars

\* The order holds what the cart holds when it is locked, under the fingerprint
\* taken before.
CreateOrder(k, a) ==
    /\ k.begun /\ OrdersOf(k.key) = {}
    /\ k.cart \in Active /\ carts[k.cart].lines # Nothing
    /\ orders' = orders \cup {[key |-> k.key, cart |-> k.cart, form |-> k.form,
                               lines |-> carts[k.cart].lines, print |-> k.print,
                               from |-> k.from, asked |-> k.asked]}
    /\ carts' = [carts EXCEPT ![k.cart].status = "CONVERTED"]
    /\ a = [kind |-> "ok", cart |-> k.cart]

\* The server comes to an end with a call k, and answers.
Serve(k, a) ==
    \/ k.op = "cart" /\ (FindCart(k, a) \/ CreateCart(k, a))
    \/ k.op = "add" /\ AddToCart(k, a)
    \/ k.op = "checkout" /\ (RepeatOrder(k, a) \/ CreateOrder(k, a))

-----------------------------------------------------------------------------
(* The network *)

Send(c, k) == awaited' = [awaited EXCEPT ![c] = [stage |-> "sent", call |-> k]]

Answer(c, a) == awaited' = [awaited EXCEPT ![c] =
                    [stage |-> "answered", call |-> @.call, answer |-> a]]

Begin(c) ==
    /\ awaited[c].stage = "sent" /\ MayBegin(awaited[c].call)
    /\ awaited' = [awaited EXCEPT ![c].call = Begun(@)]
    /\ UNCHANGED <<carts, orders, late, items, lastKey>>

Process(c) ==
    /\ awaited[c].stage = "sent"
    /\ \E a \in Answers : Serve(awaited[c].call, a) /\ Answer(c, a)
    /\ UNCHANGED <<late, items, lastKey>>

BeginLate(c) ==
    /\ late[c] # NoCall /\ MayBegin(late[c])
    /\ late' = [late EXCEPT ![c] = Begun(@)]
    /\ UNCHANGED <<carts, orders, awaited, items, lastKey>>

\* The answer is of no interest any more.
ProcessLate(c) ==
    /\ late[c] # NoCall
    /\ \E a \in Answers : Serve(late[c], a)
    /\ late' = [late EXCEPT ![c] = NoCall]
    /\ UNCHANGED <<awaited, items, lastKey>>

LoseLate(c) ==
    /\ late[c] # NoCall
    /\ late' = [late EXCEPT ![c] = NoCall]
    /\ UNCHANGED <<carts, orders, awaited, items, lastKey>>

\* A client waits no longer: its time is up, or an answer or an error came, or got
\* lost.  The server may refuse a call at either step (the cart is not active any
\* more, stock or a price is missing, it fails), and then has changed nothing.  A
\* call without an answer is lost or refused, or goes on as far as it has come;
\* one call of a client at a time does.
Leave(c) ==
    /\ awaited' = [awaited EXCEPT ![c] = Idle]
    /\ \/ UNCHANGED late
       \/ /\ awaited[c].stage = "sent" /\ late[c] = NoCall
          /\ late' = [late EXCEPT ![c] = awaited[c].call]

Network(c) == Begin(c) \/ Process(c) \/ BeginLate(c) \/ ProcessLate(c) \/ LoseLate(c)

-----------------------------------------------------------------------------
(* What a client and its customer do *)

\* The customer puts a unit of a product into the client's own cart, or takes one out.
Change(c) == \E s \in Skus :
    \/ items[c][s] < MaxQty /\ items' = [items EXCEPT ![c][s] = @ + 1]
    \/ items[c][s] > 0 /\ items' = [items EXCEPT ![c][s] = @ - 1]

Answered(c, op) ==
    awaited[c].stage = "answered" /\ awaited[c].call.op = op /\ awaited[c].answer.kind = "ok"

\* The calls: k.cart is a row of shopping_carts, asked what the customer submitted.
CartCall         == [op |-> "cart", begun |-> FALSE]
AddCall(i, s, n) == [op |-> "add", begun |-> FALSE, cart |-> i, sku |-> s, qty |-> n]
CheckoutCall(c, key, i, form, lines) ==
    [op |-> "checkout", begun |-> FALSE, from |-> c, key |-> key, cart |-> i,
     form |-> form, asked |-> lines, print |-> Nothing]

Units == [Skus -> 0..MaxUnits]
Cart  == [status : {"ACTIVE", "CONVERTED"}, lines : Units]
Order == [key : 1..MaxKeys, cart : 1..MaxCarts, form : Forms, lines : Units,
          print : Units, from : Clients, asked : Lines]
Calls == [op : {"cart"}, begun : BOOLEAN]
    \cup [op : {"add"}, begun : BOOLEAN, cart : 1..MaxCarts, sku : Skus, qty : 1..MaxQty]
    \cup [op : {"checkout"}, begun : BOOLEAN, from : Clients, key : 1..MaxKeys,
          cart : 1..MaxCarts, form : Forms, asked : Lines, print : Units]
Waits == [stage : {"idle", "confirmed", "disputed"}] \cup [stage : {"sent"}, call : Calls]
    \cup [stage : {"answered"}, call : Calls, answer : Answers]

ApiTypeOK ==
    /\ carts \in Seq(Cart) /\ Len(carts) <= MaxCarts
    /\ orders \subseteq Order
    /\ awaited \in [Clients -> Waits]
    /\ late \in [Clients -> Calls \cup {NoCall}]
    /\ items \in [Clients -> Lines]
    /\ lastKey \in 0..MaxKeys
=============================================================================
