------------------------- MODULE CartCheckout_proofs -------------------------
(***************************************************************************)
(* What the checkouts and edits of CartCheckout guarantee for every number *)
(* of requests, editors, keys, carts, products and lines, whatever the     *)
(* order of their statements.                                              *)
(***************************************************************************)
EXTENDS CartCheckout, FiniteSetTheorems, TLAPS

USE CartCheckoutAssumptions

-----------------------------------------------------------------------------
(* The records of the model *)

\* A fingerprint, and a request to check out by how far it is.
Hash == [cart : Carts, content : [Lines -> 0..MaxRows]]

SentRequest     == [pc : {"sent"}, key : Keys, cart : Carts]
ReadRequest     == [pc : {"fingerprinted", "new"}, key : Keys, cart : Carts, print : Hash]
LockedRequest   == [pc : {"locked"}, key : Keys, cart : Carts, print : Hash,
                    rows : SUBSET Row]
AnsweredRequest == [pc : {"answered"}, key : Keys, cart : Carts,
                    answer : {"ORDER", "CONFLICT", "REFUSED", "LOST"}, print : Hash]

Request == [pc : {"idle"}] \cup SentRequest \cup ReadRequest
               \cup LockedRequest \cup AnsweredRequest

\* A call of the cart routes, by what it is about to write.
MergeCall    == [op : {"merge"}, from : Carts, into : Carts, lines : SUBSET Row]
IdleCall     == [op : {"idle"}]
CreateCall   == [op : {"create"}]
InsertCall   == [op : {"insert"}, cart : Carts, line : Lines, then : IdleCall \cup MergeCall]
IncreaseCall == [op : {"increase"}, id : 1..MaxRows, qty : 1..MaxQty,
                 then : IdleCall \cup MergeCall]
SetCall      == [op : {"set"}, id : 1..MaxRows, qty : 1..MaxQty]
RemoveCall   == [op : {"remove"}, id : 1..MaxRows]
ClearCall    == [op : {"clear"}, cart : Carts]

Call == IdleCall \cup CreateCall \cup InsertCall \cup IncreaseCall \cup SetCall
            \cup RemoveCall \cup ClearCall \cup MergeCall

Order == [key : Keys, cart : Carts, rows : SUBSET Row, print : Hash]

Status == {"NONE", "ACTIVE", "CONVERTED", "DELETED"}

-----------------------------------------------------------------------------
(* The inductive invariant *)

\* Every row has an id of its own, given to it by lastRow.
RowsOK ==
    /\ rows \in SUBSET Row
    /\ lastRow \in 0..MaxRows
    /\ \A r \in rows : r.id <= lastRow
    /\ \A r, s \in rows : r.id = s.id => r = s

Typed ==
    /\ cartStatus \in [Carts -> Status]
    /\ RowsOK
    /\ orders \in SUBSET Order
    /\ request \in [Requests -> Request]
    /\ call \in [Editors -> Call]

\* One transaction at a time works on a key, and when it has seen that the key
\* has no order, then there is none until it ends.
KeyIsLocked ==
    /\ \A q, p \in Requests : InTransaction(q) /\ InTransaction(p)
                              /\ request[q].key = request[p].key => q = p
    /\ \A q \in Requests : request[q].pc \in {"new", "locked"} =>
           OrdersOf(request[q].key) = {}

\* One transaction at a time holds a cart, which stays as the transaction has
\* read it: active, with these lines.
CartIsLocked ==
    /\ \A q, p \in Requests : request[q].pc = "locked" /\ request[p].pc = "locked"
                              /\ request[q].cart = request[p].cart => q = p
    /\ \A q \in Requests : request[q].pc = "locked" =>
           /\ cartStatus[request[q].cart] = "ACTIVE"
           /\ request[q].rows = RowsOf(request[q].cart) /\ request[q].rows # {}

\* The cart of an order is never open again, and the order has its fingerprint.
OrderedCartsClosed == \A o \in orders :
    /\ cartStatus[o.cart] \in {"CONVERTED", "DELETED"}
    /\ o.print.cart = o.cart
    /\ o.rows # {}

\* A request compares the fingerprint of the cart that it names.
ReadsItsCart == \A q \in Requests :
    request[q].pc \in {"fingerprinted", "new", "locked", "answered"} =>
        request[q].print.cart = request[q].cart

CInv ==
    /\ Typed /\ KeyIsLocked /\ CartIsLocked /\ OrderedCartsClosed
    /\ ReadsItsCart /\ OneOrderPerCart /\ AnswerIsForTheCart

-----------------------------------------------------------------------------
(* What the type says of a request, of a call, and of a fingerprint *)

LEMMA RequestIs ==
    ASSUME Typed, NEW q \in Requests
    PROVE  /\ request[q].pc = "sent" => request[q] \in SentRequest
           /\ request[q].pc \in {"fingerprinted", "new"} => request[q] \in ReadRequest
           /\ request[q].pc = "locked" => request[q] \in LockedRequest
           /\ request[q].pc = "answered" => request[q] \in AnsweredRequest
           /\ request[q].pc \in {"idle", "sent", "fingerprinted", "new",
                                 "locked", "answered"}
BY DEF Typed, Request, SentRequest, ReadRequest, LockedRequest, AnsweredRequest

LEMMA CallIs ==
    ASSUME Typed, NEW e \in Editors
    PROVE  /\ call[e].op = "insert" => call[e] \in InsertCall
           /\ call[e].op = "increase" => call[e] \in IncreaseCall
           /\ call[e].op = "set" => call[e] \in SetCall
           /\ call[e].op = "remove" => call[e] \in RemoveCall
           /\ call[e].op = "clear" => call[e] \in ClearCall
           /\ call[e].op = "merge" => call[e] \in MergeCall
           /\ call[e].op \in {"idle", "create", "insert", "increase", "set",
                              "remove", "clear", "merge"}
BY DEF Typed, Call, IdleCall, CreateCall, InsertCall, IncreaseCall, SetCall,
       RemoveCall, ClearCall, MergeCall

\* The lines of a cart with one product and quantity can be counted.
LEMMA CountIs ==
    ASSUME RowsOK, NEW R \in SUBSET rows
    PROVE  Cardinality(R) \in 0..MaxRows
<1> DEFINE id == [r \in R |-> r.id]
<1>1. id \in Injection(R, 1..MaxRows)
  BY DEF RowsOK, Row, Injection, IsInjective
<1>2. IsFiniteSet(1..MaxRows) /\ Cardinality(1..MaxRows) <= MaxRows
  BY FS_Interval
<1>3. IsFiniteSet(R) /\ Cardinality(R) <= Cardinality(1..MaxRows)
  <2> HIDE DEF id
  <2> QED BY <1>1, <1>2, FS_Injection
<1>4. Cardinality(R) \in Nat /\ Cardinality(1..MaxRows) \in Nat
  BY <1>2, <1>3, FS_CardinalityType
<1> QED BY <1>2, <1>3, <1>4

LEMMA FingerprintIs ==
    ASSUME RowsOK, NEW c \in Carts
    PROVE  Fingerprint(c) \in Hash /\ Fingerprint(c).cart = c
<1> DEFINE Same(l) == {r \in RowsOf(c) : r.sku = l.sku /\ r.qty = l.qty}
<1>1. ASSUME NEW l \in Lines PROVE Cardinality(Same(l)) \in 0..MaxRows
  <2>1. Same(l) \in SUBSET rows
    BY DEF RowsOf
  <2> HIDE DEF Same
  <2> QED BY <2>1, CountIs
<1>2. Content(RowsOf(c)) \in [Lines -> 0..MaxRows]
  BY <1>1 DEF Content
<1> QED BY <1>2 DEF Fingerprint, Hash

-----------------------------------------------------------------------------
(* The checkouts *)

\* A request moves on, and nothing else changes: the invariant asks of it only
\* what its new state says.
LEMMA RequestMoves ==
    ASSUME CInv, NEW q \in Requests, NEW new \in Request,
           request' = [request EXCEPT ![q] = new],
           UNCHANGED <<cartStatus, rows, lastRow, orders, call>>,
           new.pc \in {"fingerprinted", "new", "locked"} =>
               \A p \in Requests \ {q} : InTransaction(p) => request[p].key # new.key,
           new.pc \in {"new", "locked"} => OrdersOf(new.key) = {},
           new.pc = "locked" =>
               /\ \A p \in Requests \ {q} : request[p].pc = "locked" =>
                      request[p].cart # new.cart
               /\ cartStatus[new.cart] = "ACTIVE"
               /\ new.rows = RowsOf(new.cart) /\ new.rows # {},
           new.pc \in {"fingerprinted", "new", "locked", "answered"} =>
               new.print.cart = new.cart,
           new.pc = "answered" /\ new.answer = "ORDER" =>
               \E o \in OrdersOf(new.key) : o.cart = new.cart
    PROVE  CInv'
<1>1. /\ request' \in [Requests -> Request]
      /\ request'[q] = new
      /\ \A p \in Requests \ {q} : request'[p] = request[p]
  BY DEF CInv, Typed
<1>2. Typed'
  BY <1>1 DEF CInv, Typed, RowsOK
<1>3. KeyIsLocked'
  <2>1. ASSUME NEW p \in Requests, NEW r \in Requests, InTransaction(p)', InTransaction(r)',
               request'[p].key = request'[r].key
        PROVE  p = r
    BY <1>1, <2>1 DEF CInv, KeyIsLocked, InTransaction
  <2>2. ASSUME NEW p \in Requests, request'[p].pc \in {"new", "locked"}
        PROVE  OrdersOf(request[p].key)' = {}
    BY <1>1, <2>2 DEF CInv, KeyIsLocked, OrdersOf
  <2> QED BY <2>1, <2>2 DEF KeyIsLocked
<1>4. CartIsLocked'
  BY <1>1 DEF CInv, CartIsLocked, RowsOf
<1>5. OrderedCartsClosed' /\ OneOrderPerCart'
  BY DEF CInv, OrderedCartsClosed, OneOrderPerCart
<1>6. ReadsItsCart'
  BY <1>1 DEF CInv, ReadsItsCart
<1>7. AnswerIsForTheCart'
  BY <1>1 DEF CInv, AnswerIsForTheCart, OrdersOf
<1> QED BY <1>2, <1>3, <1>4, <1>5, <1>6, <1>7 DEF CInv

LEMMA SubmitStep ==
    ASSUME CInv, NEW q \in Requests, NEW k \in Keys, NEW c \in Carts, Submit(q, k, c)
    PROVE  CInv'
<1> DEFINE new == [pc |-> "sent", key |-> k, cart |-> c]
<1>1. new \in Request
  BY DEF Request, SentRequest
<1>2. request' = [request EXCEPT ![q] = new] /\ new.pc = "sent"
  BY DEF Submit
<1>3. UNCHANGED <<cartStatus, rows, lastRow, orders, call>>
  BY DEF Submit
<1> HIDE DEF new
<1> QED BY <1>1, <1>2, <1>3, RequestMoves

LEMMA TakeFingerprintStep ==
    ASSUME CInv, NEW q \in Requests, TakeFingerprint(q)
    PROVE  CInv'
<1> DEFINE c == request[q].cart
           new == [pc |-> "fingerprinted", key |-> request[q].key, cart |-> c,
                   print |-> Fingerprint(c)]
<1>1. request[q] \in SentRequest
  BY RequestIs DEF TakeFingerprint, CInv
<1>2. c \in Carts /\ Fingerprint(c) \in Hash /\ Fingerprint(c).cart = c
  BY <1>1, FingerprintIs DEF SentRequest, CInv, Typed
<1>3. new \in Request
  <2> HIDE DEF c
  <2> QED BY <1>1, <1>2 DEF Request, ReadRequest, SentRequest, c
<1>4. /\ request' = [request EXCEPT ![q] = new]
      /\ new.pc = "fingerprinted" /\ new.print.cart = new.cart
  BY <1>2 DEF TakeFingerprint
<1>5. \A p \in Requests \ {q} : InTransaction(p) => request[p].key # new.key
  BY DEF TakeFingerprint, KeyFree
<1>6. UNCHANGED <<cartStatus, rows, lastRow, orders, call>>
  BY DEF TakeFingerprint
<1> HIDE DEF new
<1> QED BY <1>3, <1>4, <1>5, <1>6, RequestMoves

\* The end of a request that has taken its fingerprint.
LEMMA AnswerStep ==
    ASSUME CInv, NEW q \in Requests, InTransaction(q),
           NEW what \in {"ORDER", "CONFLICT", "REFUSED", "LOST"},
           Answer(q, what, request[q].print),
           what = "ORDER" => \E o \in OrdersOf(request[q].key) : o.cart = request[q].cart,
           UNCHANGED <<cartStatus, rows, lastRow, orders, call>>
    PROVE  CInv'
<1> DEFINE new == [pc |-> "answered", key |-> request[q].key, cart |-> request[q].cart,
                   answer |-> what, print |-> request[q].print]
<1>1. /\ request[q].key \in Keys /\ request[q].cart \in Carts /\ request[q].print \in Hash
      /\ request[q].print.cart = request[q].cart
  <2>1. request[q] \in ReadRequest \cup LockedRequest
    BY RequestIs DEF InTransaction, CInv
  <2>2. request[q].print.cart = request[q].cart
    BY DEF CInv, ReadsItsCart, InTransaction
  <2> QED BY <2>1, <2>2 DEF ReadRequest, LockedRequest
<1>2. new \in Request
  BY <1>1 DEF Request, AnsweredRequest
<1>3. /\ request' = [request EXCEPT ![q] = new]
      /\ new.pc = "answered" /\ new.print.cart = new.cart
  BY <1>1 DEF Answer
<1>4. new.answer = "ORDER" => \E o \in OrdersOf(new.key) : o.cart = new.cart
  OBVIOUS
<1> HIDE DEF new
<1> QED BY <1>2, <1>3, <1>4, RequestMoves

\* An order whose fingerprint a request repeats is of the cart it names.
LEMMA ExistingIsForTheCart ==
    ASSUME CInv, NEW q \in Requests, InTransaction(q), NEW o \in OrdersOf(request[q].key)
    PROVE  /\ Existing(q, o) \in {"ORDER", "CONFLICT"}
           /\ Existing(q, o) = "ORDER" => o.cart = request[q].cart
BY DEF CInv, OrderedCartsClosed, ReadsItsCart, InTransaction, Existing, OrdersOf

LEMMA FindExistingStep ==
    ASSUME CInv, NEW q \in Requests, FindExisting(q)
    PROVE  CInv'
<1>1. request[q].pc = "fingerprinted" /\ InTransaction(q) /\ request[q] \in ReadRequest
  BY RequestIs DEF FindExisting, CInv, InTransaction
<1>2. UNCHANGED <<cartStatus, rows, lastRow, orders, call>>
  BY DEF FindExisting
<1>3. CASE OrdersOf(request[q].key) = {}
  <2> DEFINE new == [request[q] EXCEPT !.pc = "new"]
  <2>1. /\ new \in ReadRequest /\ new.pc = "new" /\ new.key = request[q].key
        /\ new.cart = request[q].cart /\ new.print = request[q].print
    BY <1>1 DEF ReadRequest
  <2>2. request' = [request EXCEPT ![q] = new]
    BY <1>3 DEF FindExisting
  <2> HIDE DEF new
  <2>3. new \in Request /\ new.print.cart = new.cart
    BY <1>1, <2>1 DEF Request, CInv, ReadsItsCart
  <2>4. \A p \in Requests \ {q} : InTransaction(p) => request[p].key # new.key
    BY <1>1, <2>1 DEF CInv, KeyIsLocked
  <2> QED BY <1>2, <1>3, <2>1, <2>2, <2>3, <2>4, RequestMoves
<1>4. CASE OrdersOf(request[q].key) # {}
  <2>1. PICK o \in OrdersOf(request[q].key) : Answer(q, Existing(q, o), request[q].print)
    BY <1>4 DEF FindExisting
  <2> QED BY <1>1, <1>2, <2>1, ExistingIsForTheCart, AnswerStep
<1> QED BY <1>3, <1>4

LEMMA LockCartStep ==
    ASSUME CInv, NEW q \in Requests, LockCart(q)
    PROVE  CInv'
<1> DEFINE c == request[q].cart
<1>1. request[q].pc = "new" /\ InTransaction(q) /\ request[q] \in ReadRequest
  BY RequestIs DEF LockCart, CInv, InTransaction
<1>2. UNCHANGED <<cartStatus, rows, lastRow, orders, call>>
  BY DEF LockCart
<1>3. CASE Orderable(c)
  <2> DEFINE new == [pc |-> "locked", key |-> request[q].key, cart |-> c,
                     print |-> request[q].print, rows |-> RowsOf(c)]
  <2>1. request' = [request EXCEPT ![q] = new]
    BY <1>3 DEF LockCart
  <2>2. RowsOf(c) \in SUBSET Row
    BY DEF RowsOf, CInv, Typed, RowsOK
  <2>3. new \in Request
    BY <1>1, <2>2 DEF Request, LockedRequest, ReadRequest
  <2>4. cartStatus[new.cart] = "ACTIVE" /\ new.rows = RowsOf(new.cart) /\ new.rows # {}
    BY <1>3 DEF Orderable
  <2>5. \A p \in Requests \ {q} : request[p].pc = "locked" => request[p].cart # new.cart
    BY DEF LockCart, CartFree
  <2>6. new.key = request[q].key /\ new.pc = "locked" /\ new.print.cart = new.cart
    BY <1>1 DEF CInv, ReadsItsCart
  <2> HIDE DEF new, c
  <2>7. \A p \in Requests \ {q} : InTransaction(p) => request[p].key # new.key
    BY <1>1, <2>6 DEF CInv, KeyIsLocked
  <2>8. OrdersOf(new.key) = {}
    BY <1>1, <2>6 DEF CInv, KeyIsLocked
  <2> QED BY <1>2, <2>1, <2>3, <2>4, <2>5, <2>6, <2>7, <2>8, RequestMoves
<1>4. CASE ~Orderable(c)
  <2>1. Answer(q, "REFUSED", request[q].print)
    BY <1>4 DEF LockCart
  <2> QED BY <1>1, <1>2, <2>1, AnswerStep
<1> QED BY <1>3, <1>4

LEMMA RefuseOrderStep ==
    ASSUME CInv, NEW q \in Requests, RefuseOrder(q)
    PROVE  CInv'
<1>1. InTransaction(q) /\ UNCHANGED <<cartStatus, rows, lastRow, orders, call>>
  BY DEF RefuseOrder, InTransaction
<1>2. CASE ~InStock(request[q].rows)
  <2>1. Answer(q, "REFUSED", request[q].print)
    BY <1>2 DEF RefuseOrder
  <2> QED BY <1>1, <2>1, AnswerStep
<1>3. CASE InStock(request[q].rows)
  <2>1. PICK o \in OrdersOf(request[q].key) : Answer(q, Existing(q, o), request[q].print)
    BY <1>3 DEF RefuseOrder
  <2> QED BY <1>1, <2>1, ExistingIsForTheCart, AnswerStep
<1> QED BY <1>2, <1>3

LEMMA FailStep ==
    ASSUME CInv, NEW q \in Requests, Fail(q)
    PROVE  CInv'
BY AnswerStep DEF Fail

\* Only an active cart is ordered, hence a cart without an order.
LEMMA PlaceOrderStep ==
    ASSUME CInv, NEW q \in Requests, PlaceOrder(q)
    PROVE  CInv'
<1> DEFINE k == request[q].key
           c == request[q].cart
           order == [key |-> k, cart |-> c, rows |-> request[q].rows,
                     print |-> request[q].print]
           new == [pc |-> "answered", key |-> k, cart |-> c,
                   answer |-> "ORDER", print |-> request[q].print]
<1>1. request[q].pc = "locked" /\ InTransaction(q) /\ request[q] \in LockedRequest
  BY RequestIs DEF PlaceOrder, CInv, InTransaction
<1>2. /\ k \in Keys /\ c \in Carts /\ request[q].rows \in SUBSET Row
      /\ request[q].print \in Hash /\ request[q].print.cart = c
  BY <1>1 DEF LockedRequest, CInv, ReadsItsCart
<1>3. /\ order \in Order /\ order.key = k /\ order.cart = c /\ order.print.cart = c
      /\ order.rows = request[q].rows /\ request[q].rows # {}
  BY <1>1, <1>2 DEF Order, CInv, CartIsLocked
<1>4. /\ new \in Request /\ new.pc = "answered" /\ new.key = k /\ new.cart = c
      /\ new.print.cart = c
  BY <1>2 DEF Request, AnsweredRequest
<1>5. /\ OrdersOf(k) = {}
      /\ orders' = orders \cup {order}
      /\ cartStatus' = [cartStatus EXCEPT ![c] = "CONVERTED"]
      /\ request' = [request EXCEPT ![q] = new]
      /\ UNCHANGED <<rows, lastRow, call>>
  BY DEF PlaceOrder, Answer
<1>6. cartStatus[c] = "ACTIVE"
  BY <1>1 DEF CInv, CartIsLocked
<1> HIDE DEF new, order
<1>7. /\ request' \in [Requests -> Request]
      /\ request'[q] = new
      /\ \A p \in Requests \ {q} : request'[p] = request[p]
  BY <1>4, <1>5 DEF CInv, Typed
<1>8. /\ cartStatus' \in [Carts -> Status] /\ cartStatus'[c] = "CONVERTED"
      /\ \A d \in Carts \ {c} : cartStatus'[d] = cartStatus[d]
  BY <1>2, <1>5 DEF CInv, Typed, Status
<1>9. \A o \in orders : o.cart # c
  BY <1>6 DEF CInv, OrderedCartsClosed
<1>10. \A p \in Requests \ {q} : InTransaction(p) => request[p].key # k
  BY <1>1 DEF CInv, KeyIsLocked
<1>11. \A p \in Requests \ {q} : request[p].pc = "locked" => request[p].cart # c
  BY <1>1 DEF CInv, CartIsLocked
<1>12. Typed'
  BY <1>3, <1>5, <1>7, <1>8 DEF CInv, Typed, RowsOK
<1>13. KeyIsLocked'
  <2>1. ASSUME NEW p \in Requests, NEW r \in Requests, InTransaction(p)', InTransaction(r)',
               request'[p].key = request'[r].key
        PROVE  p = r
    BY <1>4, <1>7, <2>1 DEF CInv, KeyIsLocked, InTransaction
  <2>2. ASSUME NEW p \in Requests, request'[p].pc \in {"new", "locked"}
        PROVE  OrdersOf(request[p].key)' = {}
    <3>1. p # q /\ request'[p] = request[p]
      BY <1>4, <1>7, <2>2
    <3>2. request[p].key # k /\ OrdersOf(request[p].key) = {}
      BY <1>10, <2>2, <3>1 DEF CInv, KeyIsLocked, InTransaction
    <3> QED BY <1>3, <1>5, <3>1, <3>2 DEF OrdersOf
  <2> QED BY <2>1, <2>2 DEF KeyIsLocked
<1>14. CartIsLocked'
  <2>1. ASSUME NEW p \in Requests, request'[p].pc = "locked"
        PROVE  p # q /\ request'[p] = request[p] /\ request[p].cart # c
               /\ request[p].cart \in Carts
    <3>1. p # q /\ request'[p] = request[p]
      BY <1>4, <1>7, <2>1
    <3>2. request[p] \in LockedRequest
      BY <2>1, <3>1, RequestIs DEF CInv
    <3> QED BY <1>11, <2>1, <3>1, <3>2 DEF LockedRequest
  <2>2. \A d \in Carts : RowsOf(d)' = RowsOf(d)
    BY <1>5 DEF RowsOf
  <2> QED BY <1>8, <2>1, <2>2 DEF CInv, CartIsLocked
<1>15. OrderedCartsClosed'
  <2>1. \A o \in orders : o.cart \in Carts
    BY DEF CInv, Typed, Order
  <2> QED BY <1>3, <1>5, <1>8, <1>9, <2>1 DEF CInv, OrderedCartsClosed
<1>16. ReadsItsCart'
  BY <1>4, <1>7 DEF CInv, ReadsItsCart
<1>17. OneOrderPerCart'
  BY <1>3, <1>5, <1>9 DEF CInv, OneOrderPerCart
<1>18. AnswerIsForTheCart'
  <2>1. ASSUME NEW p \in Requests, request'[p].pc = "answered", request'[p].answer = "ORDER"
        PROVE  \E o \in OrdersOf(request[p].key)' : o.cart = request'[p].cart
    <3>1. CASE p = q
      BY <1>3, <1>4, <1>5, <1>7, <3>1 DEF OrdersOf
    <3>2. CASE p # q
      BY <1>5, <1>7, <2>1, <3>2 DEF CInv, AnswerIsForTheCart, OrdersOf
    <3> QED BY <3>1, <3>2
  <2> QED BY <2>1 DEF AnswerIsForTheCart
<1> QED BY <1>12, <1>13, <1>14, <1>15, <1>16, <1>17, <1>18 DEF CInv

-----------------------------------------------------------------------------
(* The edits *)

\* What an edit may do: write lines of carts nobody holds, open a cart, or
\* delete one nobody holds.
EditEffect ==
    /\ UNCHANGED <<orders, request>>
    /\ cartStatus' \in [Carts -> Status]
    /\ \A c \in Carts : cartStatus[c] \in {"CONVERTED", "DELETED"} =>
           cartStatus'[c] \in {"CONVERTED", "DELETED"}
    /\ \A c \in Carts : ~CartFree(c) =>
           cartStatus'[c] = cartStatus[c] /\ RowsOf(c)' = RowsOf(c)
    /\ RowsOK'
    /\ call' \in [Editors -> Call]

LEMMA EditStep ==
    ASSUME CInv, EditEffect
    PROVE  CInv'
<1>1. UNCHANGED <<orders, request>>
  BY DEF EditEffect
<1>2. Typed'
  BY <1>1 DEF EditEffect, CInv, Typed
<1>3. KeyIsLocked'
  BY <1>1 DEF CInv, KeyIsLocked, InTransaction, OrdersOf
<1>4. CartIsLocked'
  <2>1. ASSUME NEW q \in Requests, request[q].pc = "locked"
        PROVE  LET c == request[q].cart IN
               cartStatus'[c] = cartStatus[c] /\ RowsOf(c)' = RowsOf(c)
    <3>1. request[q].cart \in Carts
      BY <2>1, RequestIs DEF CInv, LockedRequest
    <3>2. ~CartFree(request[q].cart)
      BY <2>1 DEF CartFree
    <3> QED BY <3>1, <3>2 DEF EditEffect
  <2> QED BY <1>1, <2>1 DEF CInv, CartIsLocked
<1>5. OrderedCartsClosed'
  <2>1. \A o \in orders : o.cart \in Carts
    BY DEF CInv, Typed, Order
  <2> QED BY <1>1, <2>1 DEF CInv, OrderedCartsClosed, EditEffect
<1>6. ReadsItsCart' /\ OneOrderPerCart' /\ AnswerIsForTheCart'
  BY <1>1 DEF CInv, ReadsItsCart, OneOrderPerCart, AnswerIsForTheCart, OrdersOf
<1> QED BY <1>2, <1>3, <1>4, <1>5, <1>6 DEF CInv

\* Looking writes nothing.
LEMMA LookStep ==
    ASSUME CInv, NEW e \in Editors, NEW next \in Call,
           call' = [call EXCEPT ![e] = next],
           UNCHANGED <<cartStatus, rows, lastRow, orders, request>>
    PROVE  EditEffect
BY DEF EditEffect, CInv, Typed, RowsOK, RowsOf

LEMMA IdleIs == Idle \in Call /\ Idle \in IdleCall
BY DEF Idle, Call, IdleCall

LEMMA AdditionsAre ==
    ASSUME CInv, NEW c \in Carts, NEW l \in Lines, NEW then \in IdleCall \cup MergeCall,
           NEW next \in Additions(c, l, then)
    PROVE  next \in Call
<1>1. \A r \in RowsOf(c) : r.id \in 1..MaxRows
  BY DEF RowsOf, CInv, Typed, RowsOK, Row
<1>2. l.qty \in 1..MaxQty
  BY DEF Lines
<1> QED BY <1>1, <1>2 DEF Additions, Call, InsertCall, IncreaseCall

\* After a write a call is over, or goes on with the merge it is part of.
LEMMA WrittenIs ==
    ASSUME CInv, NEW e \in Editors, Written(e)
    PROVE  call' \in [Editors -> Call]
<1> DEFINE next == IF "then" \in DOMAIN call[e] THEN call[e].then ELSE Idle
<1>1. call' = [call EXCEPT ![e] = next]
  BY DEF Written
<1>2. next \in Call
  <2>1. CASE call[e] \in InsertCall \cup IncreaseCall
    BY <2>1, IdleIs DEF InsertCall, IncreaseCall, Call
  <2>2. CASE call[e] \in IdleCall \cup CreateCall
    <3>1. DOMAIN call[e] = {"op"}
      BY <2>2 DEF IdleCall, CreateCall
    <3> QED BY <3>1, IdleIs
  <2>3. CASE call[e] \in SetCall \cup RemoveCall \cup ClearCall \cup MergeCall
    <3>1. "then" \notin DOMAIN call[e]
      BY <2>3 DEF SetCall, RemoveCall, ClearCall, MergeCall
    <3> QED BY <3>1, IdleIs
  <2> QED BY <2>1, <2>2, <2>3 DEF CInv, Typed, Call
<1> HIDE DEF next
<1> QED BY <1>1, <1>2 DEF CInv, Typed

\* New rows may only replace rows of carts nobody holds.
LEMMA WriteStep ==
    ASSUME CInv, NEW e \in Editors, Written(e),
           UNCHANGED <<orders, request, cartStatus>>,
           RowsOK',
           \A c \in Carts : ~CartFree(c) => RowsOf(c)' = RowsOf(c)
    PROVE  EditEffect
BY WrittenIs DEF EditEffect, CInv, Typed

LEMMA CreateCartStep ==
    ASSUME CInv, NEW e \in Editors, NEW c \in Carts, CreateCart(e, c)
    PROVE  EditEffect
<1>1. call' \in [Editors -> Call]
  BY WrittenIs DEF CreateCart
<1>2. ~CartFree(c) => cartStatus[c] = "ACTIVE"
  BY DEF CartFree, CInv, CartIsLocked
<1>3. CartFree(c)
  BY <1>2 DEF CreateCart
<1>4. cartStatus' \in [Carts -> Status]
  BY DEF CreateCart, CInv, Typed, Status
<1>5. \A d \in Carts \ {c} : cartStatus'[d] = cartStatus[d]
  BY DEF CreateCart, CInv, Typed
<1>6. /\ cartStatus[c] = "NONE"
      /\ UNCHANGED <<rows, lastRow, orders, request>>
  BY DEF CreateCart
<1>7. RowsOK' /\ \A d \in Carts : RowsOf(d)' = RowsOf(d)
  BY <1>6 DEF CInv, Typed, RowsOK, RowsOf
<1> QED BY <1>1, <1>3, <1>4, <1>5, <1>6, <1>7 DEF EditEffect

LEMMA InsertLineStep ==
    ASSUME CInv, NEW e \in Editors, InsertLine(e)
    PROVE  EditEffect
<1> DEFINE new == [id |-> lastRow + 1, cart |-> call[e].cart,
                   sku |-> call[e].line.sku, qty |-> call[e].line.qty]
<1>1. call[e] \in InsertCall
  BY CallIs DEF InsertLine, CInv
<1>2. /\ call[e].cart \in Carts /\ call[e].line.sku \in Skus
      /\ call[e].line.qty \in 1..MaxQty
  BY <1>1 DEF InsertCall, Lines
<1>3. lastRow \in 0..MaxRows /\ lastRow < MaxRows /\ MaxRows \in Nat
  BY DEF InsertLine, CInv, Typed, RowsOK
<1>4. lastRow + 1 \in 1..MaxRows
  BY <1>3
<1>5. /\ new \in Row /\ new.id = lastRow + 1 /\ new.cart = call[e].cart
  BY <1>2, <1>4 DEF Row
<1>6. rows' = rows \cup {new} /\ lastRow' = lastRow + 1
  BY DEF InsertLine
<1> HIDE DEF new
<1>7. RowsOK'
  <2>1. \A r \in rows : r.id \in 1..MaxRows /\ r.id <= lastRow
    BY DEF CInv, Typed, RowsOK, Row
  <2>2. \A r \in rows : r.id <= lastRow + 1 /\ r.id # lastRow + 1
    BY <1>3, <2>1
  <2>3. lastRow' \in 0..MaxRows
    BY <1>4, <1>6
  <2> QED BY <1>3, <1>4, <1>5, <1>6, <2>2, <2>3 DEF CInv, Typed, RowsOK
<1>8. \A c \in Carts : ~CartFree(c) => RowsOf(c)' = RowsOf(c)
  BY <1>5, <1>6 DEF InsertLine, RowsOf
<1> QED BY <1>7, <1>8, WriteStep DEF InsertLine

\* Lines that no request holds are not in a cart that one holds.
LEMMA FreeRowsAreElsewhere ==
    ASSUME CInv, NEW R \in SUBSET rows, RowsFree(R), NEW c \in Carts, ~CartFree(c)
    PROVE  \A r \in R : r.cart # c
BY DEF RowsFree, CartFree, CInv, CartIsLocked, RowsOf

LEMMA UpdateLineStep ==
    ASSUME CInv, NEW e \in Editors, UpdateLine(e)
    PROVE  EditEffect
<1> DEFINE target == {r \in rows : r.id = call[e].id}
           New(r) == IF call[e].op = "set" THEN call[e].qty ELSE r.qty + call[e].qty
           Changed(r) == [r EXCEPT !.qty = New(r)]
           changed == {Changed(r) : r \in target}
<1>1. /\ rows' = (rows \ target) \cup changed
      /\ RowsFree(target) /\ \A r \in target : New(r) <= MaxQty
      /\ lastRow' = lastRow
  BY DEF UpdateLine
<1>2. call[e].qty \in 1..MaxQty
  <2>1. call[e] \in SetCall \cup IncreaseCall
    BY CallIs DEF UpdateLine, CInv
  <2> QED BY <2>1 DEF SetCall, IncreaseCall
<1>3. \A r \in rows : r \in Row
  BY DEF CInv, Typed, RowsOK
<1>4. ASSUME NEW r \in target
      PROVE  Changed(r) \in Row /\ Changed(r).id = r.id /\ Changed(r).cart = r.cart
  <2>1. r \in Row
    BY <1>3
  <2>2. New(r) \in 1..MaxQty
    <3>1. r.qty \in 1..MaxQty
      BY <2>1 DEF Row
    <3>2. New(r) <= MaxQty
      BY <1>1
    <3> QED BY <1>2, <3>1, <3>2
  <2> HIDE DEF New
  <2> QED BY <2>1, <2>2 DEF Row
<1> HIDE DEF New, Changed
<1>5. ASSUME NEW n \in changed
      PROVE  \E r \in target : /\ n = Changed(r)
                               /\ n \in Row /\ n.id = r.id /\ n.cart = r.cart
  <2>1. PICK r \in target : n = Changed(r)
    OBVIOUS
  <2> QED BY <1>4, <2>1
<1>6. \A r, s \in target : r = s
  BY DEF CInv, Typed, RowsOK
<1>7. RowsOK'
  <2>1. rows' \in SUBSET Row
    BY <1>1, <1>3, <1>5
  <2>2. \A r \in rows' : r.id <= lastRow
    <3>1. \A r \in rows : r.id <= lastRow
      BY DEF CInv, Typed, RowsOK
    <3> QED BY <1>1, <1>5, <3>1
  <2>3. ASSUME NEW r \in rows', NEW s \in rows', r.id = s.id
        PROVE  r = s
    <3>1. CASE r \in rows \ target /\ s \in rows \ target
      BY <2>3, <3>1 DEF CInv, Typed, RowsOK
    <3>2. CASE r \in changed /\ s \in changed
      BY <1>5, <1>6, <3>2
    <3>3. \A n \in changed : n.id = call[e].id
      BY <1>5
    <3>4. \A t \in rows \ target : t.id # call[e].id
      OBVIOUS
    <3> HIDE DEF target, changed
    <3> QED BY <1>1, <2>3, <3>1, <3>2, <3>3, <3>4
  <2> QED BY <1>1, <2>1, <2>2, <2>3 DEF CInv, Typed, RowsOK
<1>8. ASSUME NEW c \in Carts, ~CartFree(c)
      PROVE  RowsOf(c)' = RowsOf(c)
  <2>1. \A r \in target : r.cart # c
    BY <1>1, <1>8, FreeRowsAreElsewhere
  <2>2. \A r \in changed : r.cart # c
    BY <1>5, <2>1
  <2> HIDE DEF target, changed
  <2> QED BY <1>1, <2>1, <2>2 DEF RowsOf
<1> QED BY <1>7, <1>8, WriteStep DEF UpdateLine

\* Fewer rows are still right.
LEMMA FewerRows ==
    ASSUME CInv, rows' \in SUBSET rows, lastRow' = lastRow
    PROVE  RowsOK'
BY DEF CInv, Typed, RowsOK

LEMMA DeleteLinesStep ==
    ASSUME CInv, NEW e \in Editors, DeleteLines(e)
    PROVE  EditEffect
<1> DEFINE target == IF call[e].op = "remove" THEN {r \in rows : r.id = call[e].id}
                                              ELSE RowsOf(call[e].cart)
<1>1. target \in SUBSET rows /\ rows' = rows \ target /\ RowsFree(target)
  BY DEF DeleteLines, RowsOf
<1> HIDE DEF target
<1>2. RowsOK'
  BY <1>1, FewerRows DEF DeleteLines
<1>3. \A c \in Carts : ~CartFree(c) => RowsOf(c)' = RowsOf(c)
  BY <1>1, FreeRowsAreElsewhere DEF RowsOf
<1> QED BY <1>2, <1>3, WriteStep DEF DeleteLines

LEMMA MergeLineStep ==
    ASSUME CInv, NEW e \in Editors, NEW r \in Row, MergeLine(e, r)
    PROVE  EditEffect
<1> DEFINE line == [sku |-> r.sku, qty |-> r.qty]
           rest == [call[e] EXCEPT !.lines = @ \ {r}]
<1>1. call[e] \in MergeCall
  BY CallIs DEF MergeLine, CInv
<1>2. rest \in MergeCall /\ call[e].into \in Carts
  BY <1>1 DEF MergeCall
<1>3. line \in Lines
  BY DEF Row, Lines
<1>4. PICK next \in Additions(call[e].into, line, rest) : call' = [call EXCEPT ![e] = next]
  BY DEF MergeLine
<1> HIDE DEF line, rest
<1>5. next \in Call
  BY <1>2, <1>3, <1>4, AdditionsAre
<1> QED BY <1>4, <1>5, LookStep DEF MergeLine

LEMMA DeleteCartStep ==
    ASSUME CInv, NEW e \in Editors, DeleteCart(e)
    PROVE  EditEffect
<1> DEFINE c == call[e].from
<1>1. c \in Carts
  BY CallIs DEF DeleteCart, CInv, MergeCall
<1>2. /\ cartStatus' = [cartStatus EXCEPT ![c] = "DELETED"]
      /\ rows' = rows \ RowsOf(c)
      /\ CartFree(c)
      /\ UNCHANGED <<lastRow, orders, request>>
  BY DEF DeleteCart
<1>3. call' \in [Editors -> Call]
  BY WrittenIs DEF DeleteCart
<1>4. RowsOK'
  BY <1>2, FewerRows
<1> HIDE DEF c
<1>5. /\ cartStatus' \in [Carts -> Status] /\ cartStatus'[c] = "DELETED"
      /\ \A d \in Carts \ {c} : cartStatus'[d] = cartStatus[d]
  BY <1>1, <1>2 DEF CInv, Typed, Status
<1>6. \A d \in Carts \ {c} : RowsOf(d)' = RowsOf(d)
  BY <1>2 DEF RowsOf
<1> QED BY <1>2, <1>3, <1>4, <1>5, <1>6 DEF EditEffect

LEMMA ReplaceItemsStep ==
    ASSUME CInv, NEW c \in Carts, NEW q \in [Skus -> 0..MaxQty], ReplaceItems(c, q)
    PROVE  EditEffect
<1> DEFINE new == {s \in DOMAIN q : q[s] > 0}
           n == Cardinality(new)
<1>1. PICK id \in [new -> lastRow + 1 .. lastRow + n] :
         /\ \A s, t \in new : s # t => id[s] # id[t]
         /\ rows' = (rows \ RowsOf(c)) \cup
                    {[id |-> id[s], cart |-> c, sku |-> s, qty |-> q[s]] : s \in new}
  BY DEF ReplaceItems
<1>2. n \in Nat
  <2>1. new \in SUBSET Skus
    OBVIOUS
  <2> HIDE DEF new
  <2> QED BY <2>1, FS_Subset, FS_CardinalityType DEF CartCheckoutAssumptions
<1>3. /\ CartFree(c) /\ lastRow + n <= MaxRows /\ lastRow' = lastRow + n
      /\ UNCHANGED <<cartStatus, orders, request, call>>
  BY DEF ReplaceItems
<1>4. \A s \in new : s \in Skus /\ q[s] \in 1..MaxQty
  OBVIOUS
<1> DEFINE Line(s) == [id |-> id[s], cart |-> c, sku |-> s, qty |-> q[s]]
           written == {Line(s) : s \in new}
<1>5. rows' = (rows \ RowsOf(c)) \cup written
  BY <1>1
<1> HIDE DEF new, n
<1>6. lastRow \in Nat /\ lastRow <= MaxRows
  BY DEF CInv, Typed, RowsOK
<1>7. \A s \in new : /\ id[s] \in lastRow + 1 .. lastRow + n
                     /\ id[s] \in 1..MaxRows
                     /\ lastRow < id[s] /\ id[s] <= lastRow'
  BY <1>1, <1>2, <1>3, <1>6
<1>8. \A s \in new : /\ Line(s) \in Row /\ Line(s).id = id[s] /\ Line(s).cart = c
                     /\ lastRow < Line(s).id /\ Line(s).id <= lastRow'
  BY <1>4, <1>7 DEF Row
<1>9. \A s, t \in new : Line(s).id = Line(t).id => s = t
  BY <1>1, <1>8
<1> HIDE DEF Line
<1>10. RowsOK'
  <2>1. rows' \in SUBSET Row /\ lastRow' \in 0..MaxRows
    BY <1>2, <1>3, <1>5, <1>6, <1>8 DEF CInv, Typed, RowsOK
  <2>2. \A r \in rows : r.id \in Nat /\ r.id <= lastRow
    BY DEF CInv, Typed, RowsOK, Row
  <2>3. \A r \in written : r.id \in Nat /\ lastRow < r.id /\ r.id <= lastRow'
    BY <1>8 DEF Row
  <2>4. \A r, s \in written : r.id = s.id => r = s
    BY <1>9
  <2> HIDE DEF written
  <2>5. \A r \in rows' : r.id <= lastRow'
    BY <1>2, <1>3, <1>5, <1>6, <2>2, <2>3
  <2>6. ASSUME NEW r \in rows', NEW s \in rows', r.id = s.id
        PROVE  r = s
    <3>1. CASE r \in rows /\ s \in rows
      BY <2>6, <3>1 DEF CInv, Typed, RowsOK
    <3>2. CASE r \in written /\ s \in written
      BY <2>4, <2>6, <3>2
    <3>3. \A a \in rows, b \in written : a.id # b.id
      BY <1>6, <2>2, <2>3
    <3> QED BY <1>5, <2>6, <3>1, <3>2, <3>3
  <2> QED BY <2>1, <2>5, <2>6 DEF RowsOK
<1>11. \A d \in Carts : ~CartFree(d) => RowsOf(d)' = RowsOf(d)
  <2>1. \A r \in written : r.cart = c
    BY <1>8
  <2> HIDE DEF written
  <2> QED BY <1>3, <1>5, <2>1 DEF RowsOf
<1> QED BY <1>3, <1>10, <1>11 DEF EditEffect, CInv, Typed

LEMMA EditIs ==
    ASSUME CInv, NEW e \in Editors, Edit(e)
    PROVE  EditEffect
<1>1. CASE LookForCart(e)
  <2>1. [op |-> "create"] \in Call
    BY DEF Call, CreateCall
  <2> QED BY <1>1, <2>1, LookStep DEF LookForCart, Look
<1>2. ASSUME NEW c \in Carts, NEW l \in Lines, LookForLine(e, c, l)
      PROVE  EditEffect
  <2>1. PICK next \in Additions(c, l, Idle) : Look(e, next)
    BY <1>2 DEF LookForLine
  <2>2. next \in Call
    BY AdditionsAre, IdleIs
  <2> QED BY <2>1, <2>2, LookStep DEF Look
<1>3. ASSUME NEW r \in rows, LookAtLine(e, r)
      PROVE  EditEffect
  <2>1. r.id \in 1..MaxRows
    BY DEF CInv, Typed, RowsOK, Row
  <2>2. [op |-> "remove", id |-> r.id] \in Call
    BY <2>1 DEF Call, RemoveCall
  <2>3. \A n \in 1..MaxQty : [op |-> "set", id |-> r.id, qty |-> n] \in Call
    BY <2>1 DEF Call, SetCall
  <2>4. PICK next \in Call : Look(e, next)
    BY <1>3, <2>2, <2>3 DEF LookAtLine
  <2> QED BY <2>4, LookStep DEF Look
<1>4. ASSUME NEW c \in Carts, LookAtCart(e, c)
      PROVE  EditEffect
  <2>1. [op |-> "clear", cart |-> c] \in Call
    BY DEF Call, ClearCall
  <2> QED BY <1>4, <2>1, LookStep DEF LookAtCart, Look
<1>5. ASSUME NEW from \in Carts, NEW into \in Carts, LookAtCarts(e, from, into)
      PROVE  EditEffect
  <2>1. RowsOf(from) \in SUBSET Row
    BY DEF RowsOf, CInv, Typed, RowsOK
  <2>2. [op |-> "merge", from |-> from, into |-> into, lines |-> RowsOf(from)] \in Call
    BY <2>1 DEF Call, MergeCall
  <2> QED BY <1>5, <2>2, LookStep DEF LookAtCarts, Look
<1>6. CASE CallFails(e)
  BY <1>6, IdleIs, LookStep DEF CallFails
<1> QED BY <1>1, <1>2, <1>3, <1>4, <1>5, <1>6, CreateCartStep, InsertLineStep,
           UpdateLineStep, DeleteLinesStep, MergeLineStep, DeleteCartStep DEF Edit

-----------------------------------------------------------------------------
(* The invariant *)

LEMMA InitInv == Init => CInv
<1> SUFFICES ASSUME Init PROVE CInv
  OBVIOUS
<1>1. Typed
  BY IdleIs DEF Init, Typed, RowsOK, Request, Status
<1> QED BY <1>1 DEF Init, CInv, KeyIsLocked, CartIsLocked, OrderedCartsClosed,
               ReadsItsCart, OneOrderPerCart, AnswerIsForTheCart, InTransaction

LEMMA NextInv == CInv /\ [Next]_vars => CInv'
<1> SUFFICES ASSUME CInv, [Next]_vars PROVE CInv'
  OBVIOUS
<1>1. ASSUME NEW q \in Requests, NEW k \in Keys, NEW c \in Carts, Submit(q, k, c)
      PROVE  CInv'
  BY <1>1, SubmitStep
<1>2. ASSUME NEW q \in Requests, CheckoutStep(q)
      PROVE  CInv'
  BY <1>2, TakeFingerprintStep, FindExistingStep, LockCartStep, PlaceOrderStep,
     RefuseOrderStep DEF CheckoutStep
<1>3. ASSUME NEW q \in Requests, Fail(q)
      PROVE  CInv'
  BY <1>3, FailStep
<1>4. ASSUME NEW e \in Editors, Edit(e)
      PROVE  CInv'
  BY <1>4, EditIs, EditStep
<1>5. ASSUME NEW c \in Carts, NEW q \in [Skus -> 0..MaxQty], ReplaceItems(c, q)
      PROVE  CInv'
  BY <1>5, ReplaceItemsStep, EditStep
<1>6. CASE UNCHANGED vars
  BY <1>6 DEF vars, CInv, Typed, RowsOK, KeyIsLocked, CartIsLocked, OrderedCartsClosed,
     ReadsItsCart, OneOrderPerCart, AnswerIsForTheCart, InTransaction, OrdersOf, RowsOf
<1> QED BY <1>1, <1>2, <1>3, <1>4, <1>5, <1>6 DEF Next

LEMMA Invariant == Spec => []CInv
<1> QED BY InitInv, NextInv, PTL DEF Spec

\* Every variable has its type, every row its id, and every order has lines.
THEOREM TypeCorrect == Spec => []TypeOK
<1>1. CInv => TypeOK
  <2> SUFFICES ASSUME CInv PROVE TypeOK
    OBVIOUS
  <2>1. cartStatus \in [Carts -> {"NONE", "ACTIVE", "CONVERTED", "DELETED"}]
    BY DEF CInv, Typed, Status
  <2>2. (\A r \in rows : r \in Row) /\ lastRow \in 0..MaxRows
    BY DEF CInv, Typed, RowsOK
  <2>3. \A o \in orders : /\ o.key \in Keys /\ o.cart \in Carts /\ o.rows # {}
                          /\ \A r \in o.rows : r \in Row
    BY DEF CInv, Typed, Order, OrderedCartsClosed
  <2>4. \A r, s \in rows : r.id = s.id => r = s
    BY DEF CInv, Typed, RowsOK
  <2> QED BY <2>1, <2>2, <2>3, <2>4, RequestIs, CallIs DEF CInv, TypeOK
<1> QED BY <1>1, Invariant, PTL

\* Duplicate checkout: POST /checkout/cod makes at most one order of a cart,
\* however many requests under whatever keys compete for it.
THEOREM OneOrderPerCartAlways == Spec => []OneOrderPerCart
<1>1. CInv => OneOrderPerCart
  BY DEF CInv
<1> QED BY <1>1, Invariant, PTL

\* A request that is answered with an order is answered with one of the cart
\* it named, also when it repeats the key of another request.
THEOREM AnswerIsForTheCartAlways == Spec => []AnswerIsForTheCart
<1>1. CInv => AnswerIsForTheCart
  BY DEF CInv
<1> QED BY <1>1, Invariant, PTL

\* No edit slips in between the moment checkout reads the lines of the cart and
\* the moment it converts the cart: the order holds what the cart holds.
THEOREM OrdersAreCartsAsConverted == Spec => OrderIsCartAsConverted
<1>1. CInv /\ [Next]_vars =>
          [\A o \in orders' \ orders : o.rows = RowsOf(o.cart)]_vars
  <2> SUFFICES ASSUME CInv, Next, NEW o \in orders' \ orders
               PROVE  o.rows = RowsOf(o.cart)
    OBVIOUS
  <2>1. PICK q \in Requests : PlaceOrder(q)
    <3>1. orders' # orders
      OBVIOUS
    <3>2. \A e \in Editors : ~Edit(e)
      BY <3>1, EditIs DEF EditEffect
    <3>3. \A c \in Carts, p \in [Skus -> 0..MaxQty] : ~ReplaceItems(c, p)
      BY <3>1, ReplaceItemsStep DEF EditEffect
    <3>4. PICK q \in Requests : CheckoutStep(q)
      BY <3>1, <3>2, <3>3 DEF Next, Submit, Fail
    <3> QED BY <3>1, <3>4 DEF CheckoutStep, TakeFingerprint, FindExisting, LockCart,
               RefuseOrder
  <2>2. o.cart = request[q].cart /\ o.rows = request[q].rows
    BY <2>1 DEF PlaceOrder
  <2>3. request[q].rows = RowsOf(request[q].cart)
    BY <2>1 DEF PlaceOrder, CInv, CartIsLocked
  <2> QED BY <2>2, <2>3
<1> QED BY <1>1, Invariant, PTL DEF Spec, OrderIsCartAsConverted

\* Concurrent duplicates wait for the first: while a key has an order, no
\* request with that key is refused as if it were the first.
THEOREM RepeatIsAlwaysRecognised == Spec => RepeatIsRecognised
<1>1. CInv /\ [Next]_vars =>
          [\A q \in Requests : request[q].pc # "answered" /\ request'[q].pc = "answered"
               /\ request'[q].answer = "REFUSED" => OrdersOf(request[q].key) = {}]_vars
  <2> SUFFICES ASSUME CInv, Next, NEW q \in Requests,
                      request[q].pc # "answered", request'[q].pc = "answered",
                      request'[q].answer = "REFUSED"
               PROVE  OrdersOf(request[q].key) = {}
    OBVIOUS
  <2>1. request[q].pc # "answered" /\ request' # request
    OBVIOUS
  <2>2. request \in [Requests -> Request]
    BY DEF CInv, Typed
  <2>3. ASSUME NEW p \in Requests, NEW what, NEW print, Answer(p, what, print)
        PROVE  p = q /\ what = "REFUSED"
    BY <2>1, <2>2, <2>3 DEF Answer
  <2>4. \A p \in Requests : ~TakeFingerprint(p) /\ ~PlaceOrder(p) /\ ~Fail(p)
    <3> TAKE p \in Requests
    <3>1. ~TakeFingerprint(p)
      BY <2>1, <2>2 DEF TakeFingerprint
    <3> QED BY <2>3, <3>1 DEF PlaceOrder, Fail
  <2>5. \A p \in Requests, k \in Keys, c \in Carts : ~Submit(p, k, c)
    BY <2>1, <2>2 DEF Submit
  <2>6. \A p \in Requests : ~FindExisting(p)
    <3> SUFFICES ASSUME NEW p \in Requests, FindExisting(p) PROVE FALSE
      OBVIOUS
    <3>1. CASE OrdersOf(request[p].key) = {}
      <4>1. request[p] \in ReadRequest /\ request' = [request EXCEPT ![p].pc = "new"]
        BY <3>1, RequestIs DEF FindExisting, CInv
      <4> QED BY <2>1, <2>2, <4>1 DEF ReadRequest
    <3>2. CASE OrdersOf(request[p].key) # {}
      BY <2>3, <3>2 DEF FindExisting, Existing
    <3> QED BY <3>1, <3>2
  <2>7. ASSUME NEW p \in Requests, LockCart(p) \/ RefuseOrder(p)
        PROVE  p = q
    <3>1. CASE RefuseOrder(p)
      BY <2>3, <3>1 DEF RefuseOrder
    <3>2. CASE LockCart(p)
      BY <2>1, <2>2, <2>3, <3>2 DEF LockCart
    <3> QED BY <2>7, <3>1, <3>2
  <2>8. \A e \in Editors : ~Edit(e)
    BY <2>1, EditIs DEF EditEffect
  <2>9. \A c \in Carts, p \in [Skus -> 0..MaxQty] : ~ReplaceItems(c, p)
    BY <2>1, ReplaceItemsStep DEF EditEffect
  <2>10. LockCart(q) \/ RefuseOrder(q)
    BY <2>4, <2>5, <2>6, <2>7, <2>8, <2>9 DEF Next, CheckoutStep
  <2>11. request[q].pc \in {"new", "locked"}
    BY <2>10 DEF LockCart, RefuseOrder
  <2> QED BY <2>11 DEF CInv, KeyIsLocked
<1> QED BY <1>1, Invariant, PTL DEF Spec, RepeatIsRecognised
=============================================================================
