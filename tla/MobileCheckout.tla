---------------------------- MODULE MobileCheckout ----------------------------
(***************************************************************************)
(* The checkout of the mobile application.  A try is kept on the telephone *)
(* (SharedPreferences) after each answer: its key, the server's cart, and  *)
(* the products that are in that already; the next try goes on from there, *)
(* even after a restart, as long as the products are the same.  Products   *)
(* are added to the server's cart one by one.  What was submitted once may *)
(* come to the server's cart twice, then, or after its order.              *)
(*                                                                         *)
(* These are orders for pickup: the server asks deliveries for an address  *)
(* id that the application does not send.                                  *)
(***************************************************************************)
EXTENDS CheckoutApi

VARIABLES attempt,       \* per telephone: checkout_attempt_v1
          form           \* per telephone: what was submitted last

vars == <<apiVars, attempt, form>>

NoAttempt == [key |-> 0, lines |-> Nothing, cart |-> 0, uploaded |-> {}]

Init ==
    /\ ApiInit
    /\ attempt = [c \in Clients |-> NoAttempt]
    /\ form \in [Clients -> Forms]

-----------------------------------------------------------------------------

ChangeItems(c) ==
    /\ Change(c)
    /\ UNCHANGED <<carts, orders, awaited, late, lastKey, attempt, form>>

Missing(t) == {s \in Skus : t.lines[s] > 0} \ t.uploaded

\* The attempt is saved as t, and the next call made.
Continue(c, t, f) ==
    /\ attempt' = [attempt EXCEPT ![c] = t]
    /\ \/ t.cart = 0 /\ Send(c, CartCall)
       \/ t.cart # 0 /\ \E s \in Missing(t) : Send(c, AddCall(t.cart, s, t.lines[s]))
       \/ /\ t.cart # 0 /\ Missing(t) = {}
          /\ Send(c, CheckoutCall(c, t.key, t.cart, f, t.lines))

Kept(c)       == attempt[c].key # 0 /\ attempt[c].lines = items[c]
NewAttempt(c) == [key |-> lastKey + 1, lines |-> items[c], cart |-> 0, uploaded |-> {}]

BugCartForgotten(c) == IF Kept(c) THEN [attempt[c] EXCEPT !.cart = 0] ELSE NewAttempt(c)
BugKeepsUploads(c)  == IF Kept(c) THEN attempt[c]
                       ELSE [NewAttempt(c) EXCEPT !.uploaded = attempt[c].uploaded]

\* The attempt that was kept, if it is for the same products, or a new one.
AttemptFor(c) == IF Kept(c) THEN attempt[c] ELSE NewAttempt(c)

\* The button is disabled until the order or an error has come.
Submit(c, f) ==
    /\ awaited[c] = Idle
    /\ items[c] # Nothing
    /\ lastKey' = IF Kept(c) THEN lastKey ELSE lastKey + 1
    /\ lastKey' <= MaxKeys
    /\ Continue(c, AttemptFor(c), f)
    /\ form' = [form EXCEPT ![c] = f]
    /\ UNCHANGED <<carts, orders, late, items>>

CartReady(c) ==
    /\ Answered(c, "cart")
    /\ Continue(c, [attempt[c] EXCEPT !.cart = awaited[c].answer.cart], form[c])
    /\ UNCHANGED <<carts, orders, late, items, lastKey, form>>

Uploaded(c) ==
    /\ Answered(c, "add")
    /\ Continue(c, [attempt[c] EXCEPT !.uploaded = @ \cup {awaited[c].call.sku}], form[c])
    /\ UNCHANGED <<carts, orders, late, items, lastKey, form>>

\* The order is confirmed, and the attempt forgotten.
Confirm(c) ==
    /\ Answered(c, "checkout")
    /\ attempt' = [attempt EXCEPT ![c] = NoAttempt]
    /\ awaited' = [awaited EXCEPT ![c] = [stage |-> "confirmed"]]
    /\ UNCHANGED <<carts, orders, late, items, lastKey, form>>

\* Then all that is in the telephone's cart is removed.
ClearCart(c) ==
    /\ awaited[c].stage = "confirmed"
    /\ items' = [items EXCEPT ![c] = Nothing]
    /\ awaited' = [awaited EXCEPT ![c] = Idle]
    /\ UNCHANGED <<carts, orders, late, lastKey, attempt, form>>

\* The order exists, but for another request: the conflict is shown as an error.
Dispute(c) ==
    /\ awaited[c].stage = "answered" /\ awaited[c].answer.kind = "conflict"
    /\ awaited' = [awaited EXCEPT ![c] = [stage |-> "disputed"]]
    /\ UNCHANGED <<carts, orders, late, items, lastKey, attempt, form>>

\* An error is shown, or the application is closed: what is kept stays.
Stop(c) ==
    /\ awaited[c] # Idle
    /\ Leave(c)
    /\ UNCHANGED <<carts, orders, items, lastKey, attempt, form>>

Handle(c) == CartReady(c) \/ Uploaded(c) \/ Confirm(c) \/ ClearCart(c) \/ Dispute(c)

Phone(c) ==
    \/ ChangeItems(c) \/ Handle(c) \/ Stop(c)
    \/ \E f \in Forms : Submit(c, f)

Transmit(c) == Network(c) /\ UNCHANGED <<attempt, form>>

Next == \E c \in Clients : Phone(c) \/ Transmit(c)

Spec == Init /\ [][Next]_vars

\* The customer does not give up, neither the network nor the server fails for
\* ever, and no call is waited for longer than its time-out.
Fairness == \A c \in Clients :
    /\ WF_vars(Stop(c))
    /\ SF_vars(\E f \in Forms : Submit(c, f))
    /\ SF_vars(Process(c) /\ UNCHANGED <<attempt, form>>)
    /\ SF_vars(Handle(c))

FairSpec == Spec /\ Fairness

-----------------------------------------------------------------------------

Attempt == [key : 0..MaxKeys, lines : Lines, cart : 0..MaxCarts, uploaded : SUBSET Skus]

TypeOK == ApiTypeOK /\ attempt \in [Clients -> Attempt] /\ form \in [Clients -> Forms]

\* A customer who submits once more with the form as it was is told of a conflict
\* only if the server's cart holds more than was submitted: an upload was made
\* twice, or came late, or the cart was not empty.  A lost answer to the checkout
\* itself, or a restart, never does that.
ConflictOnlyAfterExtras == \A c \in Clients :
    awaited[c].stage = "answered" /\ awaited[c].answer.kind = "conflict" =>
        LET k == awaited[c].call IN
        \A o \in OrdersOf(k.key) :
            o.form = k.form => \E s \in Skus : carts[k.cart].lines[s] > k.asked[s]

\* Nothing that the customer submitted is missing in the order, although the
\* attempt skips products that it believes to be in the server's cart.
NothingMissing == \A o \in orders : \A s \in Skus : o.asked[s] <= o.lines[s]

\* A customer whose order was placed hears of it in the end, even if each answer
\* gets lost many times: it is confirmed, or the error says that the key has an
\* order for another request.  Who changes the cart or the form asks for another
\* order.
HeardInTheEnd == \A c \in Clients, f \in Forms, k \in 1..MaxKeys :
    (attempt[c].key = k /\ \E o \in OrdersOf(k) : o.from = c /\ o.form = f)
        ~> \/ awaited[c].stage \in {"confirmed", "disputed"}
           \/ attempt[c].lines # items[c] \/ form[c] # f
=============================================================================
