------------------------ MODULE MobileCheckout_proofs ------------------------
(***************************************************************************)
(* Proofs about MobileCheckout for any telephones, products and forms and  *)
(* any bounds: a key stays bound to one cart of the server and to what was *)
(* submitted; all is in that cart that the attempt believes to be there;   *)
(* and carts only grow, whatever comes between the two steps of a call.    *)
(***************************************************************************)
EXTENDS MobileCheckout, TLAPS

Waiting(c) == awaited[c].stage \in {"sent", "answered"}

\* All calls that are on their way, and what they and the orders tie to keys.
Sent      == {awaited[c].call : c \in {d \in Clients : Waiting(d)}}
        \cup {late[c] : c \in {d \in Clients : late[d] # NoCall}}
Checkouts == {k \in Sent : k.op = "checkout"}
Bindings  == {<<k.key, k.cart, k.asked>> : k \in Checkouts}
        \cup {<<o.key, o.cart, o.asked>> : o \in orders}

\* A key belongs to one attempt, ...
KeysApart == \A c \in Clients :
    /\ attempt[c].key <= lastKey
    /\ \A d \in Clients : attempt[d].key = attempt[c].key /\ attempt[c].key # 0 => d = c

\* ... which is for one cart and some products.
OneTryPerKey == \A b \in Bindings :
    /\ b[1] \in 1..lastKey /\ b[2] \in 1..Len(carts)
    /\ \A e \in Bindings : e[1] = b[1] => e[2] = b[2] /\ e[3] = b[3]
    /\ \A c \in Clients : attempt[c].key = b[1] => attempt[c].cart = b[2] /\ attempt[c].lines = b[3]

\* What counts as uploaded is in the cart.
InCart(t) ==
    /\ t.cart = 0 => t.uploaded = {}
    /\ t.cart # 0 => /\ t.cart \in 1..Len(carts)
                     /\ \A s \in t.uploaded : t.lines[s] <= carts[t.cart].lines[s]

UploadsThere == \A c \in Clients : InCart(attempt[c])

\* What is asked for was there when the fingerprint was taken, and is there still.
AskedThere == \A k \in Checkouts : \A s \in Skus :
    /\ k.asked[s] <= carts[k.cart].lines[s]
    /\ k.begun => k.asked[s] <= k.print[s] /\ k.print[s] <= carts[k.cart].lines[s]

AddsThere == \A k \in Sent : k.op = "add" => k.cart \in 1..Len(carts)

\* An order holds what was asked for, and its cart what its fingerprint tells.
OrdersKept == \A o \in orders :
    /\ \A s \in Skus : /\ o.asked[s] <= o.lines[s] /\ o.asked[s] <= o.print[s]
                       /\ o.print[s] <= carts[o.cart].lines[s]
    /\ \A p \in orders : p.key = o.key => p = o

\* The call that a telephone waits for belongs to its attempt.
CallFits(c) == LET k == awaited[c].call  t == attempt[c] IN
    /\ t.key # 0
    /\ k.op = "cart" => t.cart = 0
    /\ k.op = "add" => t.cart # 0 /\ k.cart = t.cart /\ k.qty = t.lines[k.sku]

\* More of some product is in the cart of the call than was submitted.
Extras(k) == \E s \in Skus : carts[k.cart].lines[s] > k.asked[s]

\* What an answer tells is so.
AnswerTrue(c) == LET k == awaited[c].call  a == awaited[c].answer IN
    /\ a.kind = "ok" /\ k.op = "cart" => a.cart \in 1..Len(carts)
    /\ a.kind = "ok" /\ k.op = "add" => k.qty <= carts[k.cart].lines[k.sku]
    /\ a.kind = "conflict" => /\ k.op = "checkout" /\ OrdersOf(k.key) # {}
                              /\ \A o \in OrdersOf(k.key) : o.form = k.form => Extras(k)

CallsFit     == \A c \in Clients : Waiting(c) => CallFits(c)
AnswersTrue  == \A c \in Clients : awaited[c].stage = "answered" => AnswerTrue(c)

Inv == /\ TypeOK /\ KeysApart /\ OneTryPerKey /\ UploadsThere /\ AskedThere
       /\ AddsThere /\ OrdersKept /\ CallsFit /\ AnswersTrue

-----------------------------------------------------------------------------

\* What the types say of the numbers that proofs compare.
LEMMA Numbers ==
  ASSUME CheckoutApiAssumptions, TypeOK
  PROVE  /\ lastKey \in Nat /\ Len(carts) \in Nat /\ DOMAIN carts = 1..Len(carts)
         /\ \A i \in 1..Len(carts) : carts[i] \in Cart
         /\ \A c \in Clients :
               /\ attempt[c].key \in Nat /\ attempt[c].cart \in Nat
               /\ attempt[c].uploaded \subseteq Skus
               /\ \A s \in Skus : attempt[c].lines[s] \in 0..MaxQty
         /\ \A i \in 1..Len(carts), s \in Skus : carts[i].lines[s] \in 0..MaxUnits
<1> USE DEF CheckoutApiAssumptions
<1>1. \A c \in Clients : attempt[c] \in Attempt
  BY DEF TypeOK
<1>2. \A t \in Attempt : /\ t.key \in Nat /\ t.cart \in Nat /\ t.uploaded \subseteq Skus
                        /\ \A s \in Skus : t.lines[s] \in 0..MaxQty
  BY DEF Attempt, Lines
<1>3. \A i \in 1..Len(carts) : carts[i] \in Cart
  BY DEF TypeOK, ApiTypeOK
<1>4. \A x \in Cart, s \in Skus : x.lines[s] \in 0..MaxUnits
  BY DEF Cart, Units
<1> QED BY <1>1, <1>2, <1>3, <1>4 DEF TypeOK, ApiTypeOK

LEMMA CallTypes ==
  ASSUME TypeOK
  PROVE  /\ \A c \in Clients : Waiting(c) => awaited[c].call \in Calls
         /\ \A c \in Clients : late[c] # NoCall => late[c] \in Calls
         /\ Sent \subseteq Calls /\ Checkouts \subseteq Sent
<1>1. \A c \in Clients : awaited[c] \in Waits /\ late[c] \in Calls \cup {NoCall}
  BY DEF TypeOK, ApiTypeOK
<1>2. \A c \in Clients : Waiting(c) => awaited[c].call \in Calls
  BY <1>1 DEF Waits, Waiting
<1> QED BY <1>1, <1>2 DEF Checkouts, Sent, NoCall

LEMMA CheckoutTypes ==
  ASSUME CheckoutApiAssumptions, TypeOK, NEW k \in Checkouts
  PROVE  /\ k \in [op : {"checkout"}, begun : BOOLEAN, from : Clients, key : 1..MaxKeys,
                   cart : 1..MaxCarts, form : Forms, asked : Lines, print : Units]
         /\ \A s \in Skus : k.asked[s] \in Nat /\ k.print[s] \in Nat
<1>1. k \in Calls /\ k.op = "checkout"
  BY CallTypes DEF Checkouts
<1>2. k \in [op : {"checkout"}, begun : BOOLEAN, from : Clients, key : 1..MaxKeys,
             cart : 1..MaxCarts, form : Forms, asked : Lines, print : Units]
  BY <1>1 DEF Calls
<1>3. k.asked \in Lines /\ k.print \in Units
  BY <1>2
<1> QED BY <1>2, <1>3 DEF Lines, Units, CheckoutApiAssumptions

LEMMA OrderTypes ==
  ASSUME CheckoutApiAssumptions, TypeOK, NEW o \in orders
  PROVE  /\ o \in Order /\ o.print \in Units
         /\ \A s \in Skus : o.asked[s] \in Nat /\ o.print[s] \in Nat /\ o.lines[s] \in Nat
<1>1. o \in Order
  BY DEF TypeOK, ApiTypeOK
<1>2. o.asked \in Lines /\ o.print \in Units /\ o.lines \in Units
  BY <1>1 DEF Order
<1> QED BY <1>1, <1>2 DEF Lines, Units, CheckoutApiAssumptions

LEMMA InitInv ==
  ASSUME CheckoutApiAssumptions
  PROVE  Init => Inv
<1> SUFFICES ASSUME Init PROVE Inv
  OBVIOUS
<1> USE DEF CheckoutApiAssumptions, Init, ApiInit, NoAttempt, Idle, NoCall, Nothing
<1>1. /\ carts = <<>> /\ orders = {} /\ lastKey = 0
      /\ \A c \in Clients : awaited[c] = Idle /\ attempt[c] = NoAttempt /\ late[c] = NoCall
  OBVIOUS
<1>2. TypeOK
  <2>1. Nothing \in Lines
    BY DEF Lines
  <2>2. carts \in Seq(Cart) /\ Len(carts) = 0
    OBVIOUS
  <2>3. Idle \in Waits /\ NoAttempt \in Attempt
    BY <2>1 DEF Waits, Attempt
  <2> QED BY <2>1, <2>2, <2>3 DEF TypeOK, ApiTypeOK
<1>3. Sent = {} /\ Checkouts = {} /\ Bindings = {}
  BY <1>1 DEF Sent, Checkouts, Bindings, Waiting
<1>4. KeysApart /\ UploadsThere
  BY <1>1 DEF KeysApart, UploadsThere, InCart
<1>5. OneTryPerKey /\ AskedThere /\ AddsThere /\ OrdersKept
  BY <1>1, <1>3 DEF OneTryPerKey, AskedThere, AddsThere, OrdersKept
<1>6. CallsFit /\ AnswersTrue
  BY <1>1 DEF CallsFit, AnswersTrue, Waiting
<1> QED BY <1>2, <1>4, <1>5, <1>6 DEF Inv

\* A call j is the call k, or what has become of it by its first step.
Follows(j, k) ==
    /\ j.op = k.op
    /\ j.op = "add" => j.cart = k.cart
    /\ j.op = "checkout" =>
          /\ j.key = k.key /\ j.cart = k.cart /\ j.asked = k.asked
          /\ j.begun => (k.begun /\ j.print = k.print) \/ j.print = carts[k.cart].lines

\* A step of no consequence to carts and orders, after which nothing new is on its
\* way, and attempts are as before or gone.
LEMMA QuietInv ==
  ASSUME CheckoutApiAssumptions, Inv, TypeOK', CallsFit', AnswersTrue',
         UNCHANGED <<carts, orders, lastKey>>,
         \A j \in Sent' : \E k \in Sent : Follows(j, k),
         \A c \in Clients : attempt'[c] \in {attempt[c], NoAttempt}
  PROVE  Inv'
<1>1. \A j \in Checkouts' : \E k \in Checkouts : Follows(j, k)
  BY DEF Checkouts, Follows
<1>2. Bindings' \subseteq Bindings
  BY <1>1 DEF Bindings, Checkouts, Follows
<1>3. NoAttempt.key = 0 /\ NoAttempt.cart = 0 /\ NoAttempt.uploaded = {}
  BY DEF NoAttempt
<1>4. KeysApart'
  BY <1>3, Numbers DEF Inv, KeysApart
<1>5. OneTryPerKey'
  BY <1>2, <1>3, Numbers DEF Inv, OneTryPerKey
<1>6. UploadsThere'
  BY <1>3 DEF Inv, UploadsThere, InCart
<1>7. AskedThere'
  <2> SUFFICES ASSUME NEW j \in Checkouts', NEW s \in Skus
               PROVE  /\ j.asked[s] <= carts[j.cart].lines[s]
                      /\ j.begun => /\ j.asked[s] <= j.print[s]
                                    /\ j.print[s] <= carts[j.cart].lines[s]
    BY DEF AskedThere
  <2>1. PICK k \in Checkouts : Follows(j, k)
    BY <1>1
  <2>2. j.op = "checkout"
    BY DEF Checkouts
  <2>3. k.cart \in 1..Len(carts)
    <3>1. <<k.key, k.cart, k.asked>> \in Bindings
      BY DEF Bindings
    <3> QED BY <3>1 DEF Inv, OneTryPerKey
  <2>4. carts[k.cart].lines[s] \in Nat
    BY <2>3, Numbers DEF Inv, CheckoutApiAssumptions
  <2> QED BY <2>1, <2>2, <2>4 DEF Follows, Inv, AskedThere
<1>8. AddsThere' /\ OrdersKept'
  BY DEF Inv, AddsThere, OrdersKept, Follows
<1> QED BY <1>4, <1>5, <1>6, <1>7, <1>8 DEF Inv

\* The calls after a step that made none.
LEMMA NothingNew ==
  ASSUME Sent' \subseteq Sent
  PROVE  \A j \in Sent' : \E k \in Sent : Follows(j, k)
<1> QED BY DEF Follows

-----------------------------------------------------------------------------
(* What a telephone does *)

\* The call a telephone makes fits its types.
LEMMA ContinueTypes ==
  ASSUME CheckoutApiAssumptions, TypeOK,
         NEW c \in Clients, NEW t \in Attempt, NEW f \in Forms,
         t.key # 0, Continue(c, t, f), UNCHANGED <<carts, orders, late, items>>,
         lastKey' \in 0..MaxKeys, form' \in [Clients -> Forms]
  PROVE  /\ TypeOK'
         /\ attempt' = [attempt EXCEPT ![c] = t]
         /\ \E k \in Calls :
               /\ awaited' = [awaited EXCEPT ![c] = [stage |-> "sent", call |-> k]]
               /\ \/ k = CartCall /\ t.cart = 0
                  \/ t.cart # 0 /\ \E s \in Missing(t) : k = AddCall(t.cart, s, t.lines[s])
                  \/ /\ t.cart # 0 /\ Missing(t) = {}
                     /\ k = CheckoutCall(c, t.key, t.cart, f, t.lines)
<1> USE DEF CheckoutApiAssumptions
<1>1. /\ t.key \in 1..MaxKeys /\ t.cart \in 0..MaxCarts /\ t.lines \in Lines
      /\ \A s \in Missing(t) : s \in Skus /\ t.lines[s] \in 1..MaxQty
  BY DEF Attempt, Lines, Missing
<1>2. CartCall \in Calls /\ Nothing \in Units
  BY DEF Calls, CartCall, Nothing, Units
<1>3. ASSUME t.cart # 0, NEW s \in Missing(t)
      PROVE  AddCall(t.cart, s, t.lines[s]) \in Calls
  BY <1>1, <1>3 DEF Calls, AddCall, CartCall
<1>4. ASSUME t.cart # 0
      PROVE  CheckoutCall(c, t.key, t.cart, f, t.lines) \in Calls
  BY <1>1, <1>2, <1>4 DEF Calls, CheckoutCall
<1>5. PICK k \in Calls :
         /\ awaited' = [awaited EXCEPT ![c] = [stage |-> "sent", call |-> k]]
         /\ \/ k = CartCall /\ t.cart = 0
            \/ t.cart # 0 /\ \E s \in Missing(t) : k = AddCall(t.cart, s, t.lines[s])
            \/ /\ t.cart # 0 /\ Missing(t) = {}
               /\ k = CheckoutCall(c, t.key, t.cart, f, t.lines)
  BY <1>2, <1>3, <1>4 DEF Continue, Send
<1>6. [stage |-> "sent", call |-> k] \in Waits
  BY DEF Waits
<1>7. TypeOK'
  BY <1>5, <1>6 DEF Continue, TypeOK, ApiTypeOK
<1> QED BY <1>5, <1>7 DEF Continue

\* A telephone goes on with the attempt it has, or with a new one.
LEMMA ContinueInv ==
  ASSUME CheckoutApiAssumptions, Inv,
         NEW c \in Clients, NEW t \in Attempt, NEW f \in Forms,
         Continue(c, t, f), UNCHANGED <<carts, orders, late, items>>,
         lastKey' \in 0..MaxKeys, form' \in [Clients -> Forms],
         lastKey <= lastKey', t.key \in 1..lastKey', InCart(t),
         \/ /\ t.key = attempt[c].key /\ t.lines = attempt[c].lines
            /\ attempt[c].cart \in {0, t.cart}
         \/ t.key > lastKey /\ t.cart = 0
  PROVE  Inv'
<1> USE DEF CheckoutApiAssumptions
<1>1. TypeOK /\ TypeOK' /\ attempt' = [attempt EXCEPT ![c] = t] /\ t.key # 0
  BY ContinueTypes DEF Inv
<1>2. PICK k \in Calls :
         /\ awaited' = [awaited EXCEPT ![c] = [stage |-> "sent", call |-> k]]
         /\ \/ k = CartCall /\ t.cart = 0
            \/ t.cart # 0 /\ \E s \in Missing(t) : k = AddCall(t.cart, s, t.lines[s])
            \/ /\ t.cart # 0 /\ Missing(t) = {}
               /\ k = CheckoutCall(c, t.key, t.cart, f, t.lines)
  BY <1>1, ContinueTypes DEF Inv
<1>3. /\ awaited'[c] = [stage |-> "sent", call |-> k] /\ attempt'[c] = t
      /\ \A d \in Clients : d # c => awaited'[d] = awaited[d] /\ attempt'[d] = attempt[d]
  BY <1>1, <1>2 DEF TypeOK, ApiTypeOK
<1>4. Sent' \subseteq Sent \cup {k}
  BY <1>3 DEF Sent, Waiting
<1>5. \A b \in Bindings' : b \in Bindings \/ (k.op = "checkout" /\ b = <<t.key, t.cart, t.lines>>)
  <2>1. k.op = "checkout" => k.key = t.key /\ k.cart = t.cart /\ k.asked = t.lines /\ ~k.begun
    BY <1>2 DEF CheckoutCall, CartCall, AddCall
  <2>2. \A j \in Checkouts' : j \in Checkouts \/ (j = k /\ k.op = "checkout")
    BY <1>4 DEF Checkouts
  <2> QED BY <2>1, <2>2 DEF Bindings
<1>6. \A b \in Bindings : b[1] = t.key => b[2] = t.cart /\ b[3] = t.lines
  <2>1. \A b \in Bindings : b[1] <= lastKey /\ b[2] # 0
    BY Numbers, <1>1 DEF Inv, OneTryPerKey
  <2> QED BY <2>1, Numbers, <1>1 DEF Inv, OneTryPerKey
<1>7. k.op \in {"checkout", "add"} => t.cart \in 1..Len(carts) /\ k.cart = t.cart
  BY <1>2 DEF InCart, CartCall, AddCall, CheckoutCall
<1>8. KeysApart'
  BY <1>1, <1>3, Numbers DEF Inv, KeysApart
<1>9. OneTryPerKey'
  <2> SUFFICES ASSUME NEW b \in Bindings'
               PROVE  /\ b[1] \in 1..lastKey' /\ b[2] \in 1..Len(carts)
                      /\ \A e \in Bindings' : e[1] = b[1] => e[2] = b[2] /\ e[3] = b[3]
                      /\ \A d \in Clients : attempt'[d].key = b[1] =>
                             attempt'[d].cart = b[2] /\ attempt'[d].lines = b[3]
    BY DEF OneTryPerKey
  <2>1. b[1] \in 1..lastKey' /\ b[2] \in 1..Len(carts)
    BY <1>5, <1>7, <1>1, Numbers DEF Inv, OneTryPerKey
  <2>2. \A e \in Bindings' : e[1] = b[1] => e[2] = b[2] /\ e[3] = b[3]
    BY <1>5, <1>6 DEF Inv, OneTryPerKey
  <2>3. ASSUME NEW d \in Clients, attempt'[d].key = b[1]
        PROVE  attempt'[d].cart = b[2] /\ attempt'[d].lines = b[3]
    <3>1. CASE d = c
      BY <3>1, <2>3, <1>3, <1>5, <1>6
    <3>2. CASE d # c
      <4>1. b[1] # t.key
        BY <3>2, <2>3, <1>3, <1>8, <1>1 DEF KeysApart
      <4> QED BY <4>1, <3>2, <2>3, <1>3, <1>5 DEF Inv, OneTryPerKey
    <3> QED BY <3>1, <3>2
  <2> QED BY <2>1, <2>2, <2>3
<1>10. UploadsThere'
  BY <1>3 DEF Inv, UploadsThere, InCart
<1>11. AskedThere' /\ AddsThere'
  <2>1. ASSUME k.op = "checkout", NEW s \in Skus
        PROVE  k.asked[s] <= carts[k.cart].lines[s] /\ ~k.begun
    <3>1. /\ k.asked = t.lines /\ k.cart = t.cart /\ t.cart \in 1..Len(carts) /\ ~k.begun
          /\ t.lines[s] > 0 => s \in t.uploaded
      BY <2>1, <1>2, <1>7 DEF CartCall, AddCall, CheckoutCall, Missing
    <3>2. t.lines[s] \in Nat /\ carts[t.cart].lines[s] \in Nat
      BY <3>1, <1>1, Numbers DEF Attempt, Lines
    <3> QED BY <3>1, <3>2 DEF InCart
  <2>2. AskedThere'
    BY <2>1, <1>4 DEF Inv, AskedThere, Checkouts
  <2>3. AddsThere'
    BY <1>4, <1>7 DEF Inv, AddsThere
  <2> QED BY <2>2, <2>3
<1>12. OrdersKept'
  BY DEF Inv, OrdersKept
<1>13. CallsFit'
  <2>1. CallFits(c)'
    BY <1>1, <1>2, <1>3 DEF CallFits, CartCall, AddCall, CheckoutCall
  <2>2. \A d \in Clients : d # c /\ Waiting(d)' => CallFits(d)'
    BY <1>3 DEF Inv, CallsFit, CallFits, Waiting
  <2> QED BY <2>1, <2>2 DEF CallsFit
<1>14. AnswersTrue'
  BY <1>3 DEF Inv, AnswersTrue, AnswerTrue, OrdersOf, Extras
<1> QED BY <1>1, <1>8, <1>9, <1>10, <1>11, <1>12, <1>13, <1>14 DEF Inv

LEMMA PhoneInv ==
  ASSUME CheckoutApiAssumptions, Inv, NEW c \in Clients, Phone(c)
  PROVE  Inv'
<1> USE DEF CheckoutApiAssumptions
<1>1. TypeOK /\ attempt[c] \in Attempt /\ awaited[c] \in Waits /\ items[c] \in Lines
  BY DEF Inv, TypeOK, ApiTypeOK
<1>2. NoAttempt \in Attempt /\ Nothing \in Lines /\ Idle \in Waits
      /\ [stage |-> "confirmed"] \in Waits /\ [stage |-> "disputed"] \in Waits
  BY DEF NoAttempt, Attempt, Nothing, Lines, Idle, Waits
<1>3. CASE ChangeItems(c)
  <2>1. PICK s \in Skus, n \in 0..MaxQty : items' = [items EXCEPT ![c][s] = n]
    BY <1>1, <1>3 DEF ChangeItems, Change, Lines
  <2>2. items' \in [Clients -> Lines]
    BY <1>1, <2>1 DEF TypeOK, ApiTypeOK, Lines
  <2>3. TypeOK'
    BY <1>1, <1>3, <2>2 DEF ChangeItems, TypeOK, ApiTypeOK
  <2>4. /\ UNCHANGED <<carts, orders, lastKey, attempt>> /\ Sent' \subseteq Sent
        /\ CallsFit' /\ AnswersTrue'
    BY <1>3 DEF ChangeItems, Inv, Sent, Waiting, CallsFit, CallFits, AnswersTrue, AnswerTrue,
                OrdersOf, Extras
  <2> QED BY <2>3, <2>4, NothingNew, QuietInv
<1>4. ASSUME NEW f \in Forms, Submit(c, f)
      PROVE  Inv'
  <2>0. /\ Continue(c, AttemptFor(c), f) /\ UNCHANGED <<carts, orders, late, items>>
        /\ form' \in [Clients -> Forms] /\ lastKey \in 0..MaxKeys
    BY <1>1, <1>4 DEF Submit, TypeOK, ApiTypeOK
  <2>1. CASE Kept(c)
    <3>1. AttemptFor(c) = attempt[c] /\ lastKey' = lastKey /\ attempt[c].key \in 1..lastKey
      BY <1>1, <2>1, <1>4, Numbers DEF Submit, AttemptFor, Kept, Inv, KeysApart
    <3>2. InCart(attempt[c]) /\ attempt[c].cart \in {0, attempt[c].cart} /\ lastKey <= lastKey'
      BY <1>1, <3>1, Numbers DEF Inv, UploadsThere
    <3> QED BY <1>1, <2>0, <3>1, <3>2, ContinueInv
  <2>2. CASE ~Kept(c)
    <3>1. AttemptFor(c) = NewAttempt(c) /\ lastKey' = lastKey + 1 /\ lastKey' \in 0..MaxKeys
      BY <2>2, <1>1, <1>4, Numbers DEF Submit, AttemptFor
    <3>2. NewAttempt(c) \in Attempt /\ NewAttempt(c).key = lastKey' /\ NewAttempt(c).cart = 0
          /\ InCart(NewAttempt(c))
      BY <1>1, <3>1, Numbers DEF NewAttempt, Attempt, InCart
    <3>3. NewAttempt(c).key > lastKey /\ NewAttempt(c).key \in 1..lastKey' /\ lastKey <= lastKey'
      BY <1>1, <3>1, <3>2, Numbers
    <3> QED BY <2>0, <3>1, <3>2, <3>3, ContinueInv
  <2> QED BY <2>1, <2>2
<1>5. CASE CartReady(c)
  <2> DEFINE t == [attempt[c] EXCEPT !.cart = awaited[c].answer.cart]
  <2>1. /\ awaited[c].answer.cart \in 1..Len(carts) /\ attempt[c].cart = 0 /\ attempt[c].key # 0
        /\ Len(carts) <= MaxCarts
    BY <1>1, <1>5 DEF CartReady, Answered, Inv, CallsFit, CallFits, AnswersTrue, AnswerTrue,
                      Waiting, TypeOK, ApiTypeOK
  <2>2. t \in Attempt /\ t.key = attempt[c].key /\ t.cart # 0 /\ InCart(t)
    BY <1>1, <2>1, Numbers DEF Attempt, InCart, Inv, UploadsThere
  <2>3. t.key \in 1..lastKey
    BY <2>1, <2>2, Numbers, <1>1 DEF Inv, KeysApart
  <2>4. /\ Continue(c, t, form[c]) /\ UNCHANGED <<carts, orders, late, items>>
        /\ lastKey' = lastKey /\ lastKey \in 0..MaxKeys /\ lastKey <= lastKey'
        /\ form' \in [Clients -> Forms] /\ form[c] \in Forms
    BY <1>1, <1>5 DEF CartReady, TypeOK, ApiTypeOK
  <2>5. attempt[c].cart \in {0, t.cart} /\ t.lines = attempt[c].lines
    BY <2>1, <1>1 DEF Attempt
  <2> HIDE DEF t
  <2> QED BY <2>2, <2>3, <2>4, <2>5, ContinueInv
<1>6. CASE Uploaded(c)
  <2> DEFINE k == awaited[c].call
             t == [attempt[c] EXCEPT !.uploaded = @ \cup {k.sku}]
  <2>1. /\ k.sku \in Skus /\ attempt[c].cart = k.cart /\ k.cart # 0 /\ attempt[c].key # 0
        /\ attempt[c].lines[k.sku] <= carts[k.cart].lines[k.sku]
    <3>1. awaited[c].stage = "answered" /\ k.op = "add" /\ awaited[c].answer.kind = "ok"
      BY <1>6 DEF Uploaded, Answered
    <3>2. k \in Calls
      BY <1>1, <3>1 DEF Waits
    <3>3. k.sku \in Skus
      BY <3>1, <3>2 DEF Calls, CartCall
    <3> QED BY <3>1, <3>3 DEF Inv, CallsFit, CallFits, AnswersTrue, AnswerTrue, Waiting
  <2>2. t \in Attempt /\ t.key = attempt[c].key /\ t.cart = attempt[c].cart /\ InCart(t)
    BY <1>1, <2>1 DEF Attempt, InCart, Inv, UploadsThere
  <2>3. t.key \in 1..lastKey
    BY <2>1, <2>2, Numbers, <1>1 DEF Inv, KeysApart
  <2>4. /\ Continue(c, t, form[c]) /\ UNCHANGED <<carts, orders, late, items>>
        /\ lastKey' = lastKey /\ lastKey \in 0..MaxKeys /\ lastKey <= lastKey'
        /\ form' \in [Clients -> Forms] /\ form[c] \in Forms
    BY <1>1, <1>6 DEF Uploaded, TypeOK, ApiTypeOK
  <2>5. attempt[c].cart \in {0, t.cart} /\ t.lines = attempt[c].lines
    BY <2>2, <1>1 DEF Attempt
  <2> HIDE DEF t
  <2> QED BY <2>2, <2>3, <2>4, <2>5, ContinueInv
<1>7. CASE Confirm(c) \/ Dispute(c)
  <2>1. /\ awaited[c].stage = "answered"
        /\ awaited'[c] \in {[stage |-> "confirmed"], [stage |-> "disputed"]}
        /\ \A d \in Clients : d # c => awaited'[d] = awaited[d]
        /\ UNCHANGED <<carts, orders, late, items, lastKey, form>>
    BY <1>1, <1>7 DEF Confirm, Dispute, Answered, TypeOK, ApiTypeOK
  <2>2. TypeOK' /\ \A d \in Clients : attempt'[d] \in {attempt[d], NoAttempt}
    BY <1>1, <1>2, <1>7 DEF Confirm, Dispute, TypeOK, ApiTypeOK
  <2>3. \A d \in Clients : d # c => attempt'[d] = attempt[d]
    BY <1>1, <1>7 DEF Confirm, Dispute, TypeOK
  <2>4. Sent' \subseteq Sent
    BY <2>1 DEF Sent, Waiting
  <2>5. CallsFit' /\ AnswersTrue'
    BY <2>1, <2>3 DEF Inv, Waiting, CallsFit, CallFits, AnswersTrue, AnswerTrue, OrdersOf, Extras
  <2> QED BY <2>1, <2>2, <2>4, <2>5, NothingNew, QuietInv
<1>8. CASE ClearCart(c) \/ Stop(c)
  <2>1. /\ awaited'[c] = Idle
        /\ \A d \in Clients : d # c => awaited'[d] = awaited[d]
        /\ \A d \in Clients : \/ late'[d] = late[d]
                              \/ d = c /\ awaited[c].stage = "sent" /\ late'[c] = awaited[c].call
        /\ UNCHANGED <<carts, orders, lastKey, attempt, form>>
    BY <1>1, <1>8 DEF ClearCart, Stop, Leave, TypeOK, ApiTypeOK
  <2>2. TypeOK'
    <3>1. awaited[c].stage = "sent" => awaited[c].call \in Calls
      BY <1>1 DEF Waits
    <3> QED BY <1>1, <1>2, <1>8, <3>1 DEF ClearCart, Stop, Leave, TypeOK, ApiTypeOK
  <2>3. Sent' \subseteq Sent
    BY <2>1 DEF Sent, Waiting, Idle
  <2>4. CallsFit' /\ AnswersTrue'
    BY <2>1 DEF Inv, Waiting, CallsFit, CallFits, AnswersTrue, AnswerTrue, OrdersOf, Extras, Idle
  <2> QED BY <2>1, <2>2, <2>3, <2>4, NothingNew, QuietInv
<1> QED BY <1>3, <1>4, <1>5, <1>6, <1>7, <1>8 DEF Phone, Handle

-----------------------------------------------------------------------------
(* What the server does *)

\* Carts are only added and filled.
CartsGrow ==
    /\ Len(carts) <= Len(carts')
    /\ \A i \in 1..Len(carts), s \in Skus : carts[i].lines[s] <= carts'[i].lines[s]

\* Orders stay, with at most one more, under a key that had none.
OrdersGrow(k) ==
    /\ orders \subseteq orders'
    /\ \A o \in orders' \ orders :
          /\ k.op = "checkout" /\ o.key = k.key /\ o.cart = k.cart /\ o.asked = k.asked
          /\ OrdersOf(k.key) = {}

\* What an answer a to the call k tells is so (AnswerTrue says it of a client).
ReplyTrue(k, a) ==
    /\ a.kind = "ok" /\ k.op = "cart" => a.cart \in 1..Len(carts)
    /\ a.kind = "ok" /\ k.op = "add" => k.qty <= carts[k.cart].lines[k.sku]
    /\ a.kind = "conflict" => /\ k.op = "checkout" /\ OrdersOf(k.key) # {}
                              /\ \A o \in OrdersOf(k.key) : o.form = k.form => Extras(k)

LEMMA BoundToCarts ==
  ASSUME Inv
  PROVE  /\ \A k \in Checkouts : k.cart \in 1..Len(carts)
         /\ \A o \in orders : o.cart \in 1..Len(carts)
         /\ \A k \in Checkouts, o \in orders : k.key = o.key => k.cart = o.cart /\ k.asked = o.asked
<1>1. ASSUME NEW k \in Checkouts PROVE <<k.key, k.cart, k.asked>> \in Bindings
  BY DEF Bindings
<1>2. ASSUME NEW o \in orders PROVE <<o.key, o.cart, o.asked>> \in Bindings
  BY DEF Bindings
<1>3. ASSUME NEW k \in Checkouts PROVE k.cart \in 1..Len(carts)
  BY <1>1 DEF Inv, OneTryPerKey
<1>4. ASSUME NEW o \in orders PROVE o.cart \in 1..Len(carts)
  BY <1>2 DEF Inv, OneTryPerKey
<1>5. ASSUME NEW k \in Checkouts, NEW o \in orders, k.key = o.key
      PROVE  k.cart = o.cart /\ k.asked = o.asked
  BY <1>1, <1>2, <1>5 DEF Inv, OneTryPerKey
<1> QED BY <1>3, <1>4, <1>5

\* What was in a cart is in it after a step that lets carts grow.
LEMMA StillThere ==
  ASSUME CheckoutApiAssumptions, TypeOK, CartsGrow, carts' \in Seq(Cart)
  PROVE  \A i \in 1..Len(carts), s \in Skus :
            /\ i \in 1..Len(carts') /\ carts[i].lines[s] <= carts'[i].lines[s]
            /\ carts[i].lines[s] \in Nat /\ carts'[i].lines[s] \in Nat
<1> USE DEF CheckoutApiAssumptions
<1> SUFFICES ASSUME NEW i \in 1..Len(carts), NEW s \in Skus
             PROVE  /\ i \in 1..Len(carts') /\ carts[i].lines[s] <= carts'[i].lines[s]
                    /\ carts[i].lines[s] \in Nat /\ carts'[i].lines[s] \in Nat
  OBVIOUS
<1>1. i \in 1..Len(carts') /\ carts[i].lines[s] <= carts'[i].lines[s]
  BY Numbers DEF CartsGrow
<1>2. carts'[i] \in Cart
  BY <1>1
<1>3. carts'[i].lines[s] \in 0..MaxUnits
  BY <1>2 DEF Cart, Units
<1>4. carts[i].lines[s] \in 0..MaxUnits
  BY Numbers
<1> QED BY <1>1, <1>3, <1>4

LEMMA OrdersStay ==
  ASSUME CheckoutApiAssumptions, Inv, CartsGrow, carts' \in Seq(Cart), orders' = orders
  PROVE  OrdersKept'
<1> SUFFICES ASSUME NEW o \in orders, NEW s \in Skus
             PROVE  o.print[s] <= carts'[o.cart].lines[s]
  BY DEF Inv, OrdersKept
<1>1. TypeOK /\ o.cart \in 1..Len(carts) /\ o.print[s] <= carts[o.cart].lines[s]
  BY BoundToCarts DEF Inv, OrdersKept
<1>2. o.print[s] \in Nat
  BY <1>1, OrderTypes
<1>3. /\ carts[o.cart].lines[s] <= carts'[o.cart].lines[s]
      /\ carts[o.cart].lines[s] \in Nat /\ carts'[o.cart].lines[s] \in Nat
  BY <1>1, StillThere
<1> QED BY <1>1, <1>2, <1>3

\* A conflict: if the form is as it was, the cart holds more than the fingerprint.
LEMMA ConflictTrue ==
  ASSUME CheckoutApiAssumptions, Inv, NEW k \in Checkouts, NEW o \in OrdersOf(k.key),
         ~SameRequest(o, k), o.form = k.form
  PROVE  Extras(k)
<1>1. TypeOK /\ o \in orders /\ o.key = k.key
  BY DEF OrdersOf, Inv
<1>2. o.cart = k.cart /\ o.asked = k.asked /\ k.cart \in 1..Len(carts)
  BY <1>1, BoundToCarts
<1>3. o.print \in Units /\ carts[k.cart].lines \in Units
  <2>1. carts[k.cart] \in Cart
    BY <1>1, <1>2, Numbers
  <2> QED BY <1>1, <2>1, OrderTypes DEF Cart
<1>4. o.print # carts[k.cart].lines
  BY <1>2 DEF SameRequest
<1>5. PICK s \in Skus : o.print[s] # carts[k.cart].lines[s]
  BY <1>3, <1>4 DEF Units
<1>6. /\ o.asked[s] <= o.print[s] /\ o.print[s] <= carts[o.cart].lines[s]
      /\ o.asked[s] \in Nat /\ o.print[s] \in Nat
  BY <1>1, OrderTypes DEF Inv, OrdersKept
<1>7. carts[k.cart].lines[s] \in Nat
  BY <1>1, <1>2, Numbers DEF CheckoutApiAssumptions
<1> QED BY <1>2, <1>5, <1>6, <1>7 DEF Extras

LEMMA ServeGrows ==
  ASSUME CheckoutApiAssumptions, Inv, NEW k \in Calls, k \in Sent, NEW a \in Answers, Serve(k, a)
  PROVE  /\ carts' \in Seq(Cart) /\ Len(carts') <= MaxCarts /\ orders' \subseteq Order
         /\ CartsGrow /\ OrdersGrow(k) /\ OrdersKept' /\ ReplyTrue(k, a)'
<1> USE DEF CheckoutApiAssumptions
<1>1. TypeOK /\ carts \in Seq(Cart) /\ Len(carts) <= MaxCarts /\ orders \subseteq Order
      /\ DOMAIN carts = 1..Len(carts) /\ Len(carts) \in Nat
  BY DEF Inv, TypeOK, ApiTypeOK
<1>2. \A i \in 1..Len(carts) : carts[i] \in Cart /\ \A s \in Skus : carts[i].lines[s] \in Nat
  BY <1>1, Numbers
<1>3. CASE k.op = "cart" /\ FindCart(k, a)
  <2>1. UNCHANGED <<carts, orders>> /\ a.cart \in 1..Len(carts) /\ a.kind = "ok"
    BY <1>1, <1>3 DEF FindCart, Active, serverVars
  <2>2. CartsGrow /\ OrdersGrow(k)
    BY <1>1, <1>2, <2>1 DEF CartsGrow, OrdersGrow
  <2>3. ReplyTrue(k, a)'
    BY <1>3, <2>1 DEF ReplyTrue
  <2> QED BY <1>1, <2>1, <2>2, <2>3, OrdersStay
<1>4. CASE k.op = "cart" /\ CreateCart(k, a)
  <2>1. /\ Len(carts) < MaxCarts /\ orders' = orders
        /\ a = [kind |-> "ok", cart |-> Len(carts) + 1]
        /\ carts' = Append(carts, [status |-> "ACTIVE", lines |-> Nothing])
    BY <1>4 DEF CreateCart
  <2>2. [status |-> "ACTIVE", lines |-> Nothing] \in Cart
    BY DEF Cart, Units, Nothing
  <2>3. /\ carts' \in Seq(Cart) /\ Len(carts') = Len(carts) + 1
        /\ \A i \in 1..Len(carts) : carts'[i] = carts[i]
    BY <1>1, <2>1, <2>2
  <2>4. CartsGrow
    BY <1>1, <1>2, <2>3 DEF CartsGrow
  <2>5. OrdersGrow(k) /\ orders' \subseteq Order
    BY <1>1, <2>1 DEF OrdersGrow
  <2>6. ReplyTrue(k, a)'
    <3>1. a.kind = "ok" /\ a.cart \in 1..Len(carts')
      BY <1>1, <2>1, <2>3
    <3> QED BY <1>4, <3>1 DEF ReplyTrue
  <2>7. Len(carts') <= MaxCarts
    BY <1>1, <2>1, <2>3
  <2> QED BY <2>1, <2>3, <2>4, <2>5, <2>6, <2>7, OrdersStay
<1>5. CASE k.op = "add" /\ AddToCart(k, a)
  <2> DEFINE n == carts[k.cart].lines[k.sku] + k.qty
  <2>1. /\ k.sku \in Skus /\ k.qty \in Nat /\ k.cart \in 1..Len(carts)
        /\ n \in 0..MaxUnits /\ a.kind = "ok"
    <3>1. k.sku \in Skus /\ k.qty \in Nat
      BY <1>5 DEF Calls
    <3>2. k.cart \in 1..Len(carts)
      BY <1>5 DEF Inv, AddsThere
    <3> QED BY <1>1, <1>2, <1>5, <3>1, <3>2 DEF AddToCart
  <2>2. carts' = [carts EXCEPT ![k.cart].lines[k.sku] = n] /\ orders' = orders
    BY <1>5 DEF AddToCart
  <2>3. /\ carts' \in Seq(Cart) /\ Len(carts') = Len(carts)
        /\ \A i \in 1..Len(carts) : i # k.cart => carts'[i] = carts[i]
        /\ carts'[k.cart].lines[k.sku] = n
        /\ \A s \in Skus : s # k.sku => carts'[k.cart].lines[s] = carts[k.cart].lines[s]
    <3> DEFINE new == [carts[k.cart] EXCEPT !.lines[k.sku] = n]
    <3>1. /\ new \in Cart /\ new.lines[k.sku] = n
          /\ \A s \in Skus : s # k.sku => new.lines[s] = carts[k.cart].lines[s]
      BY <1>2, <2>1 DEF Cart, Units
    <3>2. carts' = [carts EXCEPT ![k.cart] = new]
      BY <2>2
    <3> HIDE DEF new, n
    <3> QED BY <1>1, <2>1, <3>1, <3>2
  <2>4. carts[k.cart].lines[k.sku] <= n /\ k.qty <= n
    BY <1>2, <2>1
  <2>5. CartsGrow
    <3> HIDE DEF n
    <3> QED BY <1>1, <1>2, <2>1, <2>3, <2>4 DEF CartsGrow
  <2>6. ReplyTrue(k, a)' /\ OrdersGrow(k)
    <3> HIDE DEF n
    <3> QED BY <1>5, <2>1, <2>2, <2>3, <2>4 DEF OrdersGrow, ReplyTrue
  <2> HIDE DEF n
  <2> QED BY <1>1, <2>2, <2>3, <2>5, <2>6, OrdersStay
<1>6. CASE k.op = "checkout" /\ RepeatOrder(k, a)
  <2>1. UNCHANGED <<carts, orders>> /\ k \in Checkouts
    BY <1>6 DEF RepeatOrder, serverVars, Checkouts
  <2>2. CartsGrow /\ OrdersGrow(k)
    BY <1>1, <1>2, <2>1 DEF CartsGrow, OrdersGrow
  <2>3. PICK o \in OrdersOf(k.key) :
            a = [kind |-> IF SameRequest(o, k) THEN "ok" ELSE "conflict", cart |-> k.cart]
    BY <1>6 DEF RepeatOrder
  <2>4. \A p \in OrdersOf(k.key) : p = o
    BY <2>3 DEF OrdersOf, Inv, OrdersKept
  <2>5. a.kind = "conflict" /\ o.form = k.form => Extras(k)
    BY <2>1, <2>3, ConflictTrue
  <2>6. ReplyTrue(k, a)
    BY <1>6, <2>3, <2>4, <2>5 DEF ReplyTrue
  <2>7. ReplyTrue(k, a)'
    BY <2>1, <2>6 DEF ReplyTrue, OrdersOf, Extras
  <2> QED BY <1>1, <2>1, <2>2, <2>7, OrdersStay
<1>7. CASE k.op = "checkout" /\ CreateOrder(k, a)
  <2> DEFINE new == [key |-> k.key, cart |-> k.cart, form |-> k.form,
                     lines |-> carts[k.cart].lines, print |-> k.print,
                     from |-> k.from, asked |-> k.asked]
  <2>1. /\ k \in Checkouts /\ k.key \in 1..MaxKeys /\ k.cart \in 1..MaxCarts /\ k.form \in Forms
        /\ k.from \in Clients /\ k.asked \in Lines /\ k.print \in Units
    <3>1. k \in Checkouts
      BY <1>7 DEF Checkouts
    <3> QED BY <1>1, <3>1, CheckoutTypes
  <2>2. /\ k.cart \in 1..Len(carts) /\ k.begun /\ OrdersOf(k.key) = {}
        /\ orders' = orders \cup {new} /\ a.kind = "ok"
        /\ carts' = [carts EXCEPT ![k.cart].status = "CONVERTED"]
    BY <1>1, <1>7 DEF CreateOrder, Active
  <2>3. /\ carts' \in Seq(Cart) /\ Len(carts') = Len(carts)
        /\ \A i \in 1..Len(carts) : carts'[i].lines = carts[i].lines
    <3> DEFINE c == [carts[k.cart] EXCEPT !.status = "CONVERTED"]
    <3>1. c \in Cart /\ c.lines = carts[k.cart].lines
      BY <1>2, <2>2 DEF Cart
    <3>2. carts' = [carts EXCEPT ![k.cart] = c]
      BY <2>2
    <3> HIDE DEF c
    <3> QED BY <1>1, <2>2, <3>1, <3>2
  <2>4. orders' \subseteq Order
    BY <1>1, <1>2, <2>1, <2>2 DEF Order, Cart
  <2>5. CartsGrow
    BY <1>1, <1>2, <2>3 DEF CartsGrow
  <2>6. OrdersGrow(k)
    BY <1>7, <2>2 DEF OrdersGrow
  <2>7. OrdersKept'
    <3>1. \A o \in orders : o.cart \in 1..Len(carts) /\ o.key # k.key
      BY <2>2, BoundToCarts DEF OrdersOf
    <3>2. \A s \in Skus : /\ new.asked[s] <= new.lines[s] /\ new.asked[s] <= new.print[s]
                          /\ new.print[s] <= carts[k.cart].lines[s]
      BY <2>1, <2>2 DEF Inv, AskedThere
    <3>3. new.key = k.key /\ new.cart = k.cart
      OBVIOUS
    <3> HIDE DEF new
    <3> QED BY <2>2, <2>3, <3>1, <3>2, <3>3 DEF Inv, OrdersKept
  <2>8. ReplyTrue(k, a)'
    BY <1>7, <2>2 DEF ReplyTrue
  <2> QED BY <1>1, <2>3, <2>4, <2>5, <2>6, <2>7, <2>8
<1> QED BY <1>3, <1>4, <1>5, <1>6, <1>7 DEF Serve

\* A step of the server, and what it does to what is on its way.
LEMMA ServedInv ==
  ASSUME CheckoutApiAssumptions, Inv, NEW k \in Calls, k \in Sent, NEW a \in Answers, Serve(k, a),
         TypeOK', UNCHANGED <<attempt, lastKey>>, Sent' \subseteq Sent,
         \A c \in Clients : /\ awaited'[c].stage \in {"sent", "answered"} =>
                                   Waiting(c) /\ awaited'[c].call = awaited[c].call
                            /\ \/ awaited'[c] = awaited[c]
                               \/ awaited'[c].answer = a /\ awaited'[c].call = k
  PROVE  Inv'
<1> USE DEF CheckoutApiAssumptions
<1>1. CartsGrow /\ OrdersGrow(k) /\ OrdersKept' /\ ReplyTrue(k, a)'
  BY ServeGrows
<1>2. TypeOK /\ Len(carts) \in Nat /\ Len(carts') \in Nat
  BY Numbers, ServeGrows DEF Inv
<1>3. Checkouts' \subseteq Checkouts
  BY DEF Checkouts
<1>4. Bindings' \subseteq Bindings
  <2>1. \A o \in orders' \ orders : <<o.key, o.cart, o.asked>> \in Bindings
    BY <1>1 DEF OrdersGrow, Bindings, Checkouts
  <2> QED BY <1>3, <2>1 DEF Bindings
<1>5. KeysApart' /\ OneTryPerKey'
  BY <1>1, <1>2, <1>4 DEF Inv, KeysApart, OneTryPerKey, CartsGrow
<1>6. \A i \in 1..Len(carts), s \in Skus :
          /\ i \in 1..Len(carts') /\ carts[i].lines[s] <= carts'[i].lines[s]
          /\ carts[i].lines[s] \in Nat /\ carts'[i].lines[s] \in Nat
  <2>1. carts' \in Seq(Cart)
    BY ServeGrows
  <2> QED BY <1>1, <1>2, <2>1, StillThere
<1>7. UploadsThere'
  <2> SUFFICES ASSUME NEW c \in Clients, attempt[c].cart # 0
               PROVE  /\ attempt[c].cart \in 1..Len(carts')
                      /\ \A s \in attempt[c].uploaded :
                            attempt[c].lines[s] <= carts'[attempt[c].cart].lines[s]
    BY DEF Inv, UploadsThere, InCart
  <2>1. attempt[c].cart \in 1..Len(carts)
        /\ \A s \in attempt[c].uploaded : s \in Skus /\ attempt[c].lines[s] \in Nat
    BY <1>2, Numbers DEF Inv, UploadsThere, InCart
  <2>2. attempt[c].cart \in 1..Len(carts')
    BY <1>1, <1>2, <2>1 DEF CartsGrow
  <2>3. ASSUME NEW s \in attempt[c].uploaded
        PROVE  attempt[c].lines[s] <= carts'[attempt[c].cart].lines[s]
    <3>1. attempt[c].lines[s] <= carts[attempt[c].cart].lines[s]
      BY <2>3 DEF Inv, UploadsThere, InCart
    <3>2. /\ carts[attempt[c].cart].lines[s] <= carts'[attempt[c].cart].lines[s]
          /\ carts[attempt[c].cart].lines[s] \in Nat /\ carts'[attempt[c].cart].lines[s] \in Nat
      BY <1>6, <2>1
    <3> QED BY <2>1, <3>1, <3>2
  <2> QED BY <2>2, <2>3
<1>8. AskedThere' /\ AddsThere'
  <2>1. AskedThere'
    <3> SUFFICES ASSUME NEW j \in Checkouts, NEW s \in Skus
                 PROVE  /\ j.asked[s] <= carts'[j.cart].lines[s]
                        /\ j.begun => /\ j.asked[s] <= j.print[s]
                                      /\ j.print[s] <= carts'[j.cart].lines[s]
      BY <1>3 DEF AskedThere
    <3>1. /\ j.asked[s] <= carts[j.cart].lines[s] /\ j.cart \in 1..Len(carts)
          /\ j.begun => /\ j.asked[s] <= j.print[s] /\ j.print[s] <= carts[j.cart].lines[s]
      BY BoundToCarts DEF Inv, AskedThere
    <3>2. j.asked[s] \in Nat /\ j.print[s] \in Nat
      BY <1>2, CheckoutTypes
    <3>3. /\ carts[j.cart].lines[s] <= carts'[j.cart].lines[s]
          /\ carts[j.cart].lines[s] \in Nat /\ carts'[j.cart].lines[s] \in Nat
      BY <1>6, <3>1
    <3> QED BY <3>1, <3>2, <3>3
  <2>2. AddsThere'
    BY <1>1, <1>2 DEF Inv, AddsThere, CartsGrow
  <2> QED BY <2>1, <2>2
<1>9. CallsFit'
  BY DEF Inv, CallsFit, CallFits, Waiting
<1>10. AnswersTrue'
  <2> SUFFICES ASSUME NEW c \in Clients, awaited'[c].stage = "answered"
               PROVE  ReplyTrue(awaited[c].call, awaited[c].answer)'
    BY DEF AnswersTrue, AnswerTrue, ReplyTrue
  <2>1. CASE awaited'[c].answer = a /\ awaited'[c].call = k
    BY <1>1, <2>1 DEF ReplyTrue
  <2>2. CASE awaited'[c] = awaited[c]
    <3> DEFINE j == awaited[c].call
               b == awaited[c].answer
    <3>1. AnswerTrue(c) /\ CallFits(c) /\ j \in Calls
      BY <1>2, <2>2, CallTypes DEF Inv, AnswersTrue, CallsFit, Waiting
    <3>2. b.kind = "ok" /\ j.op = "cart" => b.cart \in 1..Len(carts')
      BY <1>1, <1>2, <3>1 DEF AnswerTrue, CartsGrow
    <3>3. b.kind = "ok" /\ j.op = "add" => j.qty <= carts'[j.cart].lines[j.sku]
      <4>1. SUFFICES ASSUME b.kind = "ok" /\ j.op = "add"
                     PROVE  j.qty <= carts'[j.cart].lines[j.sku]
        OBVIOUS
      <4>2. j.qty <= carts[j.cart].lines[j.sku] /\ j.cart \in 1..Len(carts)
        BY <3>1, <4>1 DEF AnswerTrue, CallFits, Inv, UploadsThere, InCart
      <4>3. j.sku \in Skus /\ j.qty \in Nat
        BY <3>1, <4>1 DEF Calls, CartCall
      <4>4. /\ carts[j.cart].lines[j.sku] <= carts'[j.cart].lines[j.sku]
            /\ carts[j.cart].lines[j.sku] \in Nat /\ carts'[j.cart].lines[j.sku] \in Nat
        BY <1>6, <4>2, <4>3
      <4> HIDE DEF j
      <4> QED BY <4>2, <4>3, <4>4
    <3>4. b.kind = "conflict" => /\ j.op = "checkout" /\ OrdersOf(j.key)' # {}
                                /\ \A o \in OrdersOf(j.key)' : o.form = j.form =>
                                      \E s \in Skus : carts'[j.cart].lines[s] > j.asked[s]
      <4> SUFFICES ASSUME b.kind = "conflict"
                   PROVE  /\ j.op = "checkout" /\ OrdersOf(j.key)' # {}
                          /\ \A o \in OrdersOf(j.key)' : o.form = j.form =>
                                \E s \in Skus : carts'[j.cart].lines[s] > j.asked[s]
        OBVIOUS
      <4>1. /\ j.op = "checkout" /\ OrdersOf(j.key) # {}
            /\ \A o \in OrdersOf(j.key) : o.form = j.form => Extras(j)
        BY <3>1 DEF AnswerTrue
      <4>2. OrdersOf(j.key)' = OrdersOf(j.key)
        BY <1>1, <4>1 DEF OrdersOf, OrdersGrow
      <4>3. j \in Checkouts
        BY <2>2, <4>1 DEF Checkouts, Sent, Waiting
      <4>4. j.cart \in 1..Len(carts) /\ \A s \in Skus : j.asked[s] \in Nat
        BY <1>2, <4>3, BoundToCarts, CheckoutTypes
      <4> HIDE DEF j
      <4>5. ASSUME Extras(j) PROVE \E s \in Skus : carts'[j.cart].lines[s] > j.asked[s]
        <5>1. PICK s \in Skus : carts[j.cart].lines[s] > j.asked[s]
          BY <4>5 DEF Extras
        <5>2. /\ carts[j.cart].lines[s] <= carts'[j.cart].lines[s]
              /\ carts[j.cart].lines[s] \in Nat /\ carts'[j.cart].lines[s] \in Nat
          BY <1>6, <4>4
        <5> QED BY <4>4, <5>1, <5>2
      <4> QED BY <4>1, <4>2, <4>5
    <3> QED BY <2>2, <3>2, <3>3, <3>4 DEF ReplyTrue, OrdersOf, Extras
  <2> QED BY <2>1, <2>2
<1> QED BY <1>1, <1>5, <1>7, <1>8, <1>9, <1>10 DEF Inv

\* The first step on a call leaves what the call asks for.
LEMMA BegunIs ==
  ASSUME CheckoutApiAssumptions, Inv, NEW k \in Sent, MayBegin(k)
  PROVE  /\ k \in Calls /\ Begun(k) \in Calls /\ Follows(Begun(k), k)
         /\ Begun(k).op = k.op
         /\ k.op = "add" => /\ Begun(k).cart = k.cart /\ Begun(k).sku = k.sku
                            /\ Begun(k).qty = k.qty
<1>1. TypeOK /\ k \in Calls
  BY CallTypes DEF Inv
<1>2. CASE k.op = "checkout"
  <2>1. k \in Checkouts
    BY <1>2 DEF Checkouts
  <2>2. k \in [op : {"checkout"}, begun : BOOLEAN, from : Clients, key : 1..MaxKeys,
               cart : 1..MaxCarts, form : Forms, asked : Lines, print : Units]
    BY <1>1, <2>1, CheckoutTypes
  <2>3. carts[k.cart].lines \in Units
    <3>1. carts[k.cart] \in Cart
      BY <1>1, <2>1, BoundToCarts, Numbers
    <3> QED BY <3>1 DEF Cart
  <2>4. Begun(k) = [k EXCEPT !.begun = TRUE, !.print = carts[k.cart].lines]
    BY <1>2 DEF Begun
  <2> QED BY <1>1, <1>2, <2>2, <2>3, <2>4 DEF Calls, Follows
<1>3. CASE k.op # "checkout"
  <2>1. Begun(k) = [k EXCEPT !.begun = TRUE]
    BY <1>3 DEF Begun
  <2>2. \/ k \in [op : {"cart"}, begun : BOOLEAN]
        \/ k \in [op : {"add"}, begun : BOOLEAN, cart : 1..MaxCarts, sku : Skus, qty : 1..MaxQty]
    BY <1>1, <1>3 DEF Calls
  <2> QED BY <1>1, <1>3, <2>1, <2>2 DEF Calls, Follows
<1> QED BY <1>2, <1>3

LEMMA NetworkInv ==
  ASSUME CheckoutApiAssumptions, Inv, NEW c \in Clients, Transmit(c)
  PROVE  Inv'
<1> USE DEF CheckoutApiAssumptions
<1>1. TypeOK /\ UNCHANGED <<attempt, form, items, lastKey>>
  BY DEF Transmit, Network, Begin, Process, BeginLate, ProcessLate, LoseLate, Inv
<1>2. CASE Process(c)
  <2> DEFINE k == awaited[c].call
  <2>1. PICK a \in Answers : Answer(c, a) /\ Serve(k, a)
    BY <1>2 DEF Process
  <2>2. k \in Calls /\ k \in Sent /\ awaited[c].stage = "sent" /\ late' = late
    BY <1>1, <1>2, CallTypes DEF Process, Sent, Waiting
  <2>3. /\ awaited'[c] = [stage |-> "answered", call |-> k, answer |-> a]
        /\ \A d \in Clients : d # c => awaited'[d] = awaited[d]
    BY <1>1, <2>1 DEF Answer, TypeOK, ApiTypeOK
  <2>4. TypeOK'
    <3>1. awaited' \in [Clients -> Waits]
      BY <1>1, <2>1, <2>2 DEF Answer, TypeOK, ApiTypeOK, Waits
    <3> QED BY <1>1, <2>1, <2>2, <3>1, ServeGrows DEF TypeOK, ApiTypeOK
  <2>5. Sent' \subseteq Sent
    BY <2>2, <2>3 DEF Sent, Waiting
  <2>6. \A d \in Clients : /\ awaited'[d].stage \in {"sent", "answered"} =>
                                 Waiting(d) /\ awaited'[d].call = awaited[d].call
                          /\ \/ awaited'[d] = awaited[d]
                             \/ awaited'[d].answer = a /\ awaited'[d].call = k
    BY <2>2, <2>3 DEF Waiting
  <2> HIDE DEF k
  <2> QED BY <1>1, <2>1, <2>2, <2>4, <2>5, <2>6, ServedInv
<1>3. CASE Begin(c)
  <2> DEFINE k == awaited[c].call
             j == Begun(k)
  <2>1. /\ awaited[c].stage = "sent" /\ k \in Sent /\ MayBegin(k)
        /\ UNCHANGED <<carts, orders, late>>
    BY <1>3 DEF Begin, Sent, Waiting
  <2>2. /\ k \in Calls /\ j \in Calls /\ Follows(j, k) /\ j.op = k.op
        /\ k.op = "add" => j.cart = k.cart /\ j.sku = k.sku /\ j.qty = k.qty
    <3> HIDE DEF k
    <3> QED BY <2>1, BegunIs
  <2>3. /\ awaited' = [awaited EXCEPT ![c].call = j] /\ awaited[c] \in Waits
        /\ awaited[c] = [stage |-> "sent", call |-> k]
    <3>1. awaited[c] \in Waits /\ awaited' = [awaited EXCEPT ![c].call = j]
      BY <1>1, <1>3 DEF TypeOK, ApiTypeOK, Begin
    <3>2. awaited[c] \in [stage : {"sent"}, call : Calls]
      BY <2>1, <3>1 DEF Waits
    <3> QED BY <3>1, <3>2
  <2> HIDE DEF k, j
  <2>4. /\ awaited'[c] = [stage |-> "sent", call |-> j]
        /\ \A d \in Clients : d # c => awaited'[d] = awaited[d]
    BY <1>1, <2>3 DEF TypeOK, ApiTypeOK
  <2>5. TypeOK'
    <3>1. [stage |-> "sent", call |-> j] \in Waits
      BY <2>2 DEF Waits
    <3>2. awaited' \in [Clients -> Waits]
      BY <1>1, <2>3, <2>4, <3>1 DEF TypeOK, ApiTypeOK
    <3> QED BY <1>1, <2>1, <3>1, <3>2 DEF TypeOK, ApiTypeOK
  <2>6. \A i \in Sent' : \E h \in Sent : Follows(i, h)
    <3>1. \A i \in Sent' : i \in Sent \/ i = j
      BY <2>1, <2>4 DEF Sent, Waiting
    <3> QED BY <2>1, <2>2, <3>1 DEF Follows
  <2>7. CallsFit'
    <3>1. CallFits(c)
      BY <2>1 DEF Inv, CallsFit, Waiting
    <3>2. CallFits(c)'
      BY <1>1, <2>2, <2>3, <2>4, <3>1 DEF CallFits
    <3>3. \A d \in Clients : d # c /\ Waiting(d)' => CallFits(d)'
      BY <1>1, <2>4 DEF Inv, CallsFit, CallFits, Waiting
    <3> QED BY <3>2, <3>3 DEF CallsFit
  <2>8. AnswersTrue'
    BY <2>1, <2>4 DEF Inv, AnswersTrue, AnswerTrue, OrdersOf, Extras
  <2> QED BY <1>1, <2>1, <2>5, <2>6, <2>7, <2>8, QuietInv
<1>4. CASE ProcessLate(c)
  <2>1. PICK a \in Answers : Serve(late[c], a)
    BY <1>4 DEF ProcessLate
  <2>2. late[c] \in Calls /\ late[c] \in Sent /\ awaited' = awaited
    BY <1>1, <1>4, CallTypes DEF ProcessLate, Sent
  <2>3. late'[c] = NoCall /\ \A d \in Clients : d # c => late'[d] = late[d]
    BY <1>1, <1>4 DEF ProcessLate, TypeOK, ApiTypeOK
  <2>4. Sent' \subseteq Sent
    BY <2>2, <2>3 DEF Sent, Waiting
  <2>5. TypeOK'
    BY <1>1, <1>4, <2>1, <2>2, ServeGrows DEF ProcessLate, TypeOK, ApiTypeOK
  <2> QED BY <1>1, <2>1, <2>2, <2>4, <2>5, ServedInv DEF Waiting
<1>5. CASE LoseLate(c)
  <2>1. UNCHANGED <<carts, orders, awaited>> /\ late'[c] = NoCall
        /\ \A d \in Clients : d # c => late'[d] = late[d]
    BY <1>1, <1>5 DEF LoseLate, TypeOK, ApiTypeOK
  <2>2. Sent' \subseteq Sent
    BY <2>1 DEF Sent, Waiting
  <2>3. TypeOK'
    BY <1>1, <1>5 DEF LoseLate, TypeOK, ApiTypeOK
  <2>4. CallsFit' /\ AnswersTrue'
    BY <1>1, <2>1 DEF Inv, CallsFit, CallFits, AnswersTrue, AnswerTrue, OrdersOf, Extras, Waiting
  <2> QED BY <1>1, <2>1, <2>2, <2>3, <2>4, NothingNew, QuietInv
<1>6. CASE BeginLate(c)
  <2> DEFINE k == late[c]
             j == Begun(k)
  <2>1. k \in Sent /\ MayBegin(k) /\ UNCHANGED <<carts, orders, awaited>>
    BY <1>6 DEF BeginLate, Sent
  <2>2. k \in Calls /\ j \in Calls /\ Follows(j, k)
    <3> HIDE DEF k
    <3> QED BY <2>1, BegunIs
  <2>3. late' = [late EXCEPT ![c] = j]
    BY <1>6 DEF BeginLate
  <2> HIDE DEF k, j
  <2>4. late'[c] = j /\ \A d \in Clients : d # c => late'[d] = late[d]
    BY <1>1, <2>3 DEF TypeOK, ApiTypeOK
  <2>5. TypeOK'
    BY <1>1, <2>1, <2>2, <2>3 DEF TypeOK, ApiTypeOK
  <2>6. \A i \in Sent' : \E h \in Sent : Follows(i, h)
    <3>1. \A i \in Sent' : i \in Sent \/ i = j
      BY <2>1, <2>4 DEF Sent, Waiting
    <3> QED BY <2>1, <2>2, <3>1 DEF Follows
  <2>7. CallsFit' /\ AnswersTrue'
    BY <1>1, <2>1 DEF Inv, CallsFit, CallFits, AnswersTrue, AnswerTrue, OrdersOf, Extras, Waiting
  <2> QED BY <1>1, <2>1, <2>5, <2>6, <2>7, QuietInv
<1> QED BY <1>2, <1>3, <1>4, <1>5, <1>6 DEF Transmit, Network

-----------------------------------------------------------------------------

THEOREM InvHolds ==
  ASSUME CheckoutApiAssumptions
  PROVE  Spec => []Inv
<1>1. Inv /\ [Next]_vars => Inv'
  <2> SUFFICES ASSUME Inv, [Next]_vars PROVE Inv'
    OBVIOUS
  <2>1. CASE Next
    BY <2>1, PhoneInv, NetworkInv DEF Next
  <2>2. CASE UNCHANGED vars
    <3>1. Sent' \subseteq Sent /\ TypeOK' /\ CallsFit' /\ AnswersTrue'
      BY <2>2 DEF vars, apiVars, Inv, Sent, Waiting, TypeOK, ApiTypeOK, CallsFit, CallFits,
                  AnswersTrue, AnswerTrue, OrdersOf, Extras
    <3> QED BY <2>2, <3>1, NothingNew, QuietInv DEF vars, apiVars
  <2> QED BY <2>1, <2>2
<1> QED BY <1>1, InitInv, PTL DEF Spec

\* Types.
THEOREM MobileTypeOK ==
  ASSUME CheckoutApiAssumptions
  PROVE  Spec => []TypeOK
<1>1. Inv => TypeOK
  BY DEF Inv
<1> QED BY <1>1, InvHolds, PTL

\* A customer who submits the same form once more, after any number of lost
\* answers and restarts of the application, is told of a conflict only if the
\* server's cart holds more than was submitted.
THEOREM ConflictsAreOverExtras ==
  ASSUME CheckoutApiAssumptions
  PROVE  Spec => []ConflictOnlyAfterExtras
<1>1. Inv => ConflictOnlyAfterExtras
  BY DEF Inv, AnswersTrue, AnswerTrue, ConflictOnlyAfterExtras, Extras
<1> QED BY <1>1, InvHolds, PTL

\* All that was submitted is in the order, whatever got lost, came late or was
\* sent twice on the way to the server's cart.
THEOREM OrdersAreComplete ==
  ASSUME CheckoutApiAssumptions
  PROVE  Spec => []NothingMissing
<1>1. Inv => NothingMissing
  BY DEF Inv, OrdersKept, NothingMissing
<1> QED BY <1>1, InvHolds, PTL
=============================================================================
