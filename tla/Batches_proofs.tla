---------------------------- MODULE Batches_proofs ----------------------------
(***************************************************************************)
(* Proofs about Batches for any number of batches, deliveries and          *)
(* requests, and any bound: what a delivery has locked is still there, and *)
(* it takes in the order of expiry.                                        *)
(***************************************************************************)
EXTENDS Batches, UnitCount_proofs

Busy(v)   == v.pc \in {"locking", "taking"}
AtWork(d) == Busy(delivery[d])

\* What a transaction holds is there, and as much as it has seen.
Holds(v) ==
    \A b \in Batches : v.held[b] > 0 =>
        Busy(v) /\ batch[b].state = "here" /\ batch[b].quantity = v.held[b]

\* Batches that are still to come expire later than those that are done with,
\* and these are empty, apart from the last of them when nothing is left to take.
Ordered(v) ==
    /\ \A b \in Batches : v.take[b] > 0 => v.pc = "taking"
    /\ \A b \in Batches : v.take[b] <= v.held[b]
    /\ v.pc = "taking" =>
         /\ \A b \in v.todo : v.take[b] = 0
         /\ \A a \in Batches \ v.todo, b \in v.todo : v.held[a] > 0 => a < b
         /\ \A a \in Batches \ v.todo : v.held[a] > 0 /\ v.left > 0 => v.take[a] = v.held[a]
         /\ \A a, b \in Batches : a < b /\ v.take[b] > 0 => v.take[a] = v.held[a]

HeldIsThere  == \A d \in Deliveries : Holds(delivery[d])
TakesInOrder == \A d \in Deliveries : Ordered(delivery[d])
OneAtATime   == \A d, e \in Deliveries : AtWork(d) /\ AtWork(e) => d = e

Inv == TypeOK /\ HeldIsThere /\ OneAtATime /\ TakesInOrder

LEMMA RowsOK ==
  /\ NotBegun \in Delivery /\ Nothing \in Counts
  /\ \A b \in Batches : Nothing[b] = 0
  /\ MaxUnits \in Nat /\ Batches \subseteq Int
  BY BatchesAssumptions DEF NotBegun, Delivery, Nothing, Counts, Batches

LEMMA InitInv == Init => Inv
<1> SUFFICES ASSUME Init PROVE Inv
  OBVIOUS
<1>1. [state |-> "none", quantity |-> 0] \in Row /\ Idle \in Request
  BY RowsOK DEF Row, Idle, Request
<1>2. TypeOK
  BY <1>1, RowsOK DEF Init, TypeOK
<1>3. \A d \in Deliveries : delivery[d].pc = "open" /\ \A b \in Batches :
          delivery[d].held[b] = 0 /\ delivery[d].take[b] = 0
  BY RowsOK DEF Init, NotBegun
<1>4. HeldIsThere /\ OneAtATime /\ TakesInOrder
  BY <1>3 DEF HeldIsThere, OneAtATime, TakesInOrder, AtWork, Holds, Ordered, Busy
<1> QED BY <1>2, <1>4 DEF Inv

\* The rows that deliveries hold stay when a request writes.
LEMMA RoutesInv ==
  ASSUME Inv, UNCHANGED <<lines, delivery>>,
         batch' \in [Batches -> Row], request' \in [Requests -> Request],
         \A b \in Batches : batch'[b] = batch[b] \/ RowFree(b)
  PROVE  Inv'
<1> USE DEF Inv
<1>1. TypeOK'
  BY DEF TypeOK
<1>2. HeldIsThere'
  <2> SUFFICES ASSUME NEW d \in Deliveries, NEW b \in Batches, delivery[d].held[b] > 0
               PROVE  AtWork(d) /\ batch'[b].state = "here"
                      /\ batch'[b].quantity = delivery[d].held[b]
    BY DEF HeldIsThere, AtWork, Holds, Busy
  <2>1. ~RowFree(b)
    BY DEF RowFree
  <2> QED BY <2>1 DEF HeldIsThere, Holds, AtWork
<1>3. OneAtATime' /\ TakesInOrder'
  BY DEF OneAtATime, AtWork, TakesInOrder, Ordered, Busy
<1> QED BY <1>1, <1>2, <1>3

LEMMA UpdateOK ==
  ASSUME TypeOK, NEW b \in Batches, NEW n \in Int, Update(b, n)
  PROVE  /\ batch' \in [Batches -> Row]
         /\ \A a \in Batches : batch'[a] = batch[a] \/ RowFree(a)
<1>1. batch[b] \in Row /\ [batch[b] EXCEPT !.quantity = @ + n] \in Row
  BY DEF Update, TypeOK, Row
<1> QED BY <1>1 DEF Update, TypeOK

LEMMA RequestStepInv ==
  ASSUME Inv, NEW r \in Requests, RequestStep(r)
  PROVE  Inv'
<1> USE DEF Inv
<1>0. /\ batch \in [Batches -> Row] /\ request \in [Requests -> Request]
      /\ \A b \in Batches : batch[b].quantity \in -MaxUnits..MaxUnits
      /\ MaxUnits \in Nat
  BY RowsOK DEF TypeOK, Row
<1>1. ASSUME NEW b \in Batches, NEW n \in 1..MaxUnits, FindBatch(r, b, n) PROVE Inv'
  <2>1. request' \in [Requests -> Request]
    BY <1>0, <1>1 DEF FindBatch, Request
  <2> QED BY <1>0, <1>1, <2>1, RoutesInv DEF FindBatch
<1>2. CASE AddBatchInventory(r)
  <2> DEFINE b == request[r].batch
             n == request[r].units
  <2>1. b \in Batches /\ n \in 1..MaxUnits /\ n \in Int
    BY <1>0, <1>2 DEF AddBatchInventory, Request
  <2>2. request' \in [Requests -> Request]
    BY <1>0, <1>2 DEF AddBatchInventory, Request, Idle
  <2>3. CASE Update(b, n)
    BY <1>2, <2>1, <2>2, <2>3, UpdateOK, RoutesInv DEF AddBatchInventory
  <2>4. CASE batch[b].state = "none" /\ batch' = [batch EXCEPT ![b] = [state |-> "here", quantity |-> n]]
    <3>1. [state |-> "here", quantity |-> n] \in Row
      BY <1>0, <2>1 DEF Row
    <3>2. batch' \in [Batches -> Row]
      BY <1>0, <2>1, <2>4, <3>1
    <3>3. RowFree(b)
      BY <2>1, <2>4 DEF HeldIsThere, RowFree, TypeOK, Delivery, Counts, Holds
    <3> QED BY <1>0, <1>2, <2>1, <2>2, <2>4, <3>2, <3>3, RoutesInv DEF AddBatchInventory
  <2> QED BY <1>2, <2>3, <2>4 DEF AddBatchInventory
<1>3. ASSUME NEW n \in 1..MaxUnits, GetProductBatchesForFIFO(r, n) PROVE Inv'
  <2> DEFINE seen == [b \in Batches |-> IF InStock(b) THEN batch[b].quantity ELSE 0]
  <2>1. seen \in Counts
    BY <1>0 DEF Counts, InStock
  <2>2. [pc |-> "deduct", left |-> n, seen |-> seen] \in Request
    BY <1>0, <2>1 DEF Request
  <2>3. request' \in [Requests -> Request]
    BY <1>0, <1>3, <2>2 DEF GetProductBatchesForFIFO
  <2> QED BY <1>0, <1>3, <2>3, RoutesInv DEF GetProductBatchesForFIFO
<1>4. ASSUME NEW b \in Batches, DeductFromBatch(r, b) PROVE Inv'
  <2> DEFINE q == request[r]
             n == Lesser(q.seen[b], q.left)
  <2>1. q \in [pc : {"deduct"}, seen : Counts, left : 0..MaxUnits]
    BY <1>0, <1>4 DEF DeductFromBatch, Request
  <2>2. n \in 0..MaxUnits /\ n <= q.left /\ -n \in Int
    BY <1>0, <2>1 DEF Counts, Lesser
  <2>3. Update(b, -n)
    BY <1>4 DEF DeductFromBatch
  <2>4. [q.seen EXCEPT ![b] = 0] \in Counts
    BY <1>0, <2>1 DEF Counts
  <2>5. [pc |-> "deduct", seen |-> [q.seen EXCEPT ![b] = 0], left |-> q.left - n] \in Request
    BY <1>0, <2>1, <2>2, <2>4 DEF Request
  <2>6. request' = [request EXCEPT ![r] = [pc |-> "deduct", seen |-> [q.seen EXCEPT ![b] = 0],
                                           left |-> q.left - n]]
    <3>1. request' = [request EXCEPT ![r] = [[q EXCEPT !.seen[b] = 0] EXCEPT !.left = @ - n]]
      BY <1>0, <1>4 DEF DeductFromBatch
    <3>2. [[q EXCEPT !.seen[b] = 0] EXCEPT !.left = @ - n]
            = [pc |-> "deduct", seen |-> [q.seen EXCEPT ![b] = 0], left |-> q.left - n]
      <4>1. PICK f \in Counts, m \in 0..MaxUnits : q = [pc |-> "deduct", seen |-> f, left |-> m]
        BY <2>1
      <4>2. PICK q1 : q1 = [q EXCEPT !.seen[b] = 0]
        OBVIOUS
      <4>3. q1 = [pc |-> "deduct", seen |-> [f EXCEPT ![b] = 0], left |-> m]
        BY <4>1, <4>2
      <4>4. [q1 EXCEPT !.left = @ - n]
              = [pc |-> "deduct", seen |-> [f EXCEPT ![b] = 0], left |-> m - n]
        BY <4>3
      <4> HIDE DEF n
      <4> QED BY <4>1, <4>2, <4>4
    <3> QED BY <3>1, <3>2
  <2>7. request' \in [Requests -> Request]
    BY <1>0, <2>5, <2>6
  <2> QED BY <1>4, <2>2, <2>3, <2>7, UpdateOK, RoutesInv DEF DeductFromBatch
<1>5. ASSUME NEW target \in Batches, NEW source \in Batches, FindSource(r, target, source)
      PROVE  Inv'
  <2>1. batch[source].quantity \in 0..MaxUnits
    BY <1>0, <1>5 DEF FindSource
  <2>2. request' \in [Requests -> Request]
    BY <1>0, <1>5, <2>1 DEF FindSource, Request
  <2> QED BY <1>0, <1>5, <2>2, RoutesInv DEF FindSource
<1>6. CASE AddToTarget(r)
  <2>1. request[r].target \in Batches /\ request[r].units \in Int /\ request[r].source \in Batches
    BY <1>0, <1>6 DEF AddToTarget, Request
  <2>2. request' \in [Requests -> Request]
    BY <1>0, <1>6, <2>1 DEF AddToTarget, Request
  <2> QED BY <1>6, <2>1, <2>2, UpdateOK, RoutesInv DEF AddToTarget
<1>7. CASE DeleteSource(r)
  <2>1. request[r].source \in Batches
    BY <1>0, <1>7 DEF DeleteSource, Request
  <2>2. request' \in [Requests -> Request]
    BY <1>0, <1>7 DEF DeleteSource, Request, Idle
  <2>3. [state |-> "gone", quantity |-> 0] \in Row
    BY <1>0 DEF Row
  <2>4. batch' \in [Batches -> Row] /\ \A b \in Batches : batch'[b] = batch[b] \/ RowFree(b)
    BY <1>0, <1>7, <2>1, <2>3 DEF DeleteSource
  <2> QED BY <1>7, <2>2, <2>4, RoutesInv DEF DeleteSource
<1>8. CASE RequestEnds(r)
  <2>1. request' \in [Requests -> Request]
    BY <1>0, <1>8 DEF RequestEnds, Request, Idle
  <2> QED BY <1>0, <1>8, <2>1, RoutesInv DEF RequestEnds
<1> QED BY <1>1, <1>2, <1>3, <1>4, <1>5, <1>6, <1>7, <1>8 DEF RequestStep

LEMMA AdjustInv ==
  ASSUME Inv, NEW b \in Batches, NEW n \in Adjustments, AdjustBatchQuantity(b, n)
  PROVE  Inv'
<1>1. n \in Int
  BY BatchesAssumptions
<1> QED BY <1>1, UpdateOK, RoutesInv DEF AdjustBatchQuantity, Inv, TypeOK

\* A step of one delivery that takes no stock.
LEMMA DeliveryInv ==
  ASSUME Inv, NEW d \in Deliveries, NEW v \in Delivery,
         delivery' = [delivery EXCEPT ![d] = v], UNCHANGED <<batch, lines, request>>,
         Holds(v), Ordered(v), Busy(v) => \A e \in Deliveries \ {d} : ~AtWork(e)
  PROVE  Inv'
<1> USE DEF Inv
<1>1. delivery'[d] = v /\ \A e \in Deliveries : e # d => delivery'[e] = delivery[e]
  BY DEF TypeOK
<1>2. TypeOK'
  BY DEF TypeOK
<1>3. HeldIsThere'
  BY <1>1 DEF HeldIsThere, Holds, Busy
<1>4. OneAtATime'
  BY <1>1 DEF OneAtATime, AtWork, Busy
<1>5. TakesInOrder'
  <2>1. ASSUME NEW e \in Deliveries PROVE Ordered(delivery'[e])
    BY <1>1 DEF TakesInOrder, Ordered
  <2> QED BY <2>1 DEF TakesInOrder, Ordered
<1> QED BY <1>2, <1>3, <1>4, <1>5

LEMMA CommitInv ==
  ASSUME Inv, NEW d \in Deliveries, Commit(d)
  PROVE  Inv'
<1> USE DEF Inv
<1> DEFINE take == delivery[d].take
           done == [NotBegun EXCEPT !.pc = "done"]
<1>1. take \in Counts /\ delivery[d].held \in Counts /\ MaxUnits \in Nat
  BY RowsOK DEF TypeOK, Delivery
<1>2. done \in Delivery /\ done.pc = "done"
      /\ \A b \in Batches : done.held[b] = 0 /\ done.take[b] = 0
  BY RowsOK DEF NotBegun, Delivery
<1>3. delivery' = [delivery EXCEPT ![d] = done] /\ lines' = [lines EXCEPT ![d] = take]
      /\ request' = request
  BY DEF Commit
<1> HIDE DEF done
<1>4. ASSUME NEW b \in Batches
      PROVE  /\ batch'[b] \in Row
             /\ take[b] = 0 => batch'[b] = batch[b]
  <2>1. batch[b] \in Row /\ take[b] \in 0..MaxUnits /\ take[b] <= delivery[d].held[b]
    BY <1>1 DEF TypeOK, Counts, TakesInOrder, Ordered
  <2>2. batch'[b] = [batch[b] EXCEPT !.quantity = @ - take[b]]
    BY DEF Commit
  <2>3. take[b] = 0 \/ take[b] <= batch[b].quantity
    BY <1>1, <2>1 DEF HeldIsThere, Counts, Holds
  <2>4. batch[b].quantity - take[b] \in -MaxUnits..MaxUnits
    BY <1>1, <2>1, <2>3 DEF Row
  <2>5. batch'[b] \in Row
    BY <2>1, <2>2, <2>4 DEF Row
  <2>6. take[b] = 0 => batch'[b] = batch[b]
    BY <2>1, <2>2 DEF Row
  <2> QED BY <2>5, <2>6
<1>5. batch' \in [Batches -> Row]
  BY <1>4 DEF Commit
<1>6. TypeOK'
  BY <1>1, <1>2, <1>3, <1>5 DEF TypeOK
<1>7. delivery'[d] = done /\ \A e \in Deliveries : e # d => delivery'[e] = delivery[e]
  BY <1>3 DEF TypeOK
<1>8. \A e \in Deliveries, b \in Batches : e # d => ~(delivery[e].held[b] > 0)
  BY DEF Commit, HeldIsThere, OneAtATime, AtWork, Holds, Busy
<1>9. HeldIsThere'
  BY <1>2, <1>7, <1>8 DEF HeldIsThere, Holds
<1>10. OneAtATime'
  BY <1>2, <1>7 DEF OneAtATime, AtWork, Busy
<1>11. TakesInOrder'
  BY <1>2, <1>7 DEF TakesInOrder, Ordered
<1> QED BY <1>6, <1>9, <1>10, <1>11

-----------------------------------------------------------------------------
(* What the steps of a delivery make of its transaction *)

LEMMA BeginIs ==
  ASSUME NEW d \in Deliveries, Begin(d)
  PROVE  delivery' = [delivery EXCEPT ![d] =
             [pc |-> "locking", todo |-> {b \in Batches : InStock(b)},
              held |-> Nothing, left |-> Units[d], take |-> Nothing]]
<1> DEFINE w == [pc |-> "locking", todo |-> {b \in Batches : InStock(b)},
                 held |-> Nothing, left |-> Units[d], take |-> Nothing]
<1>1. PICK u : u = [NotBegun EXCEPT !.pc = "locking"]
  OBVIOUS
<1>2. PICK t : t = [u EXCEPT !.left = Units[d]]
  OBVIOUS
<1>3. u = [pc |-> "locking", todo |-> {}, held |-> Nothing, left |-> 0, take |-> Nothing]
  BY <1>1 DEF NotBegun
<1>4. t = [pc |-> "locking", todo |-> {}, held |-> Nothing, left |-> Units[d], take |-> Nothing]
  BY <1>2, <1>3
<1>5. [t EXCEPT !.todo = {b \in Batches : InStock(b)}] = w
  BY <1>4
<1>6. delivery' = [delivery EXCEPT ![d] = [t EXCEPT !.todo = {b \in Batches : InStock(b)}]]
  BY <1>1, <1>2 DEF Begin
<1> QED BY <1>5, <1>6

LEMMA LockRowIs ==
  ASSUME Inv, NEW d \in Deliveries, NEW b \in Batches, LockRow(d, b)
  PROVE  LET v == delivery[d]
             n == IF InStock(b) THEN batch[b].quantity ELSE 0
         IN  delivery' = [delivery EXCEPT ![d] =
                 [pc |-> "locking", todo |-> v.todo \ {b}, held |-> [v.held EXCEPT ![b] = n],
                  left |-> v.left, take |-> v.take]]
<1> USE DEF Inv
<1> DEFINE v == delivery[d]
           n == IF InStock(b) THEN batch[b].quantity ELSE 0
           w == [pc |-> "locking", todo |-> v.todo \ {b}, held |-> [v.held EXCEPT ![b] = n],
                 left |-> v.left, take |-> v.take]
<1>0. v \in Delivery
  BY DEF TypeOK
<1>1. delivery' = [delivery EXCEPT ![d] = [[v EXCEPT !.todo = @ \ {b}] EXCEPT !.held[b] = n]]
  BY DEF LockRow, TypeOK
<1>2. v = [pc |-> "locking", todo |-> v.todo, held |-> v.held, left |-> v.left, take |-> v.take]
  BY <1>0 DEF LockRow, Delivery
<1>3. [v EXCEPT !.todo = @ \ {b}]
        = [pc |-> "locking", todo |-> v.todo \ {b}, held |-> v.held,
           left |-> v.left, take |-> v.take]
  BY <1>2
<1>4. PICK u : u = [v EXCEPT !.todo = @ \ {b}]
  OBVIOUS
<1>5. u = [pc |-> "locking", todo |-> v.todo \ {b}, held |-> v.held,
           left |-> v.left, take |-> v.take]
  BY <1>3, <1>4
<1> HIDE DEF v, n
<1>6. [u EXCEPT !.held[b] = n] = w
  BY <1>5
<1> QED BY <1>1, <1>4, <1>6 DEF v, n

LEMMA AllLockedIs ==
  ASSUME Inv, NEW d \in Deliveries, AllLocked(d)
  PROVE  LET v == delivery[d]
         IN  delivery' = [delivery EXCEPT ![d] =
                 [pc |-> "taking", todo |-> {b \in Batches : v.held[b] > 0}, held |-> v.held,
                  left |-> v.left, take |-> v.take]]
<1> USE DEF Inv
<1> DEFINE v == delivery[d]
           w == [pc |-> "taking", todo |-> {b \in Batches : v.held[b] > 0}, held |-> v.held,
                 left |-> v.left, take |-> v.take]
<1>0. v \in Delivery
  BY DEF TypeOK
<1>1. delivery' = [delivery EXCEPT ![d] =
                     [[v EXCEPT !.pc = "taking"] EXCEPT !.todo = {b \in Batches : v.held[b] > 0}]]
  BY DEF AllLocked, TypeOK
<1>2. v = [pc |-> v.pc, todo |-> v.todo, held |-> v.held, left |-> v.left, take |-> v.take]
  BY <1>0 DEF Delivery
<1>3. [v EXCEPT !.pc = "taking"]
        = [pc |-> "taking", todo |-> v.todo, held |-> v.held, left |-> v.left, take |-> v.take]
  BY <1>2
<1>4. PICK u : u = [v EXCEPT !.pc = "taking"]
  OBVIOUS
<1>5. u = [pc |-> "taking", todo |-> v.todo, held |-> v.held, left |-> v.left,
           take |-> v.take]
  BY <1>3, <1>4
<1>6. PICK S : S = {b \in Batches : v.held[b] > 0}
  OBVIOUS
<1>7. w = [pc |-> "taking", todo |-> S, held |-> v.held, left |-> v.left, take |-> v.take]
  BY <1>6
<1> HIDE DEF v, w
<1>8. [u EXCEPT !.todo = S] = w
  BY <1>5, <1>7
<1> QED BY <1>1, <1>4, <1>6, <1>8 DEF v, w

LEMMA TakeIs ==
  ASSUME Inv, NEW d \in Deliveries, NEW b \in Batches, Take(d, b)
  PROVE  LET v == delivery[d]
             n == Lesser(v.held[b], v.left)
         IN  delivery' = [delivery EXCEPT ![d] =
                 [pc |-> "taking", todo |-> v.todo \ {b}, held |-> v.held,
                  left |-> v.left - n, take |-> [v.take EXCEPT ![b] = n]]]
<1> USE DEF Inv
<1> DEFINE v == delivery[d]
           n == Lesser(v.held[b], v.left)
           w == [pc |-> "taking", todo |-> v.todo \ {b}, held |-> v.held,
                 left |-> v.left - n, take |-> [v.take EXCEPT ![b] = n]]
<1>0. v \in Delivery
  BY DEF TypeOK
<1>1. delivery' = [delivery EXCEPT ![d] =
          [[[v EXCEPT !.todo = @ \ {b}] EXCEPT !.take[b] = n] EXCEPT !.left = @ - n]]
  BY DEF Take, TypeOK
<1>2. v = [pc |-> "taking", todo |-> v.todo, held |-> v.held, left |-> v.left, take |-> v.take]
  BY <1>0 DEF Take, Delivery
<1>3. [v EXCEPT !.todo = @ \ {b}]
        = [pc |-> "taking", todo |-> v.todo \ {b}, held |-> v.held,
           left |-> v.left, take |-> v.take]
  BY <1>2
<1>4. PICK u : u = [v EXCEPT !.todo = @ \ {b}]
  OBVIOUS
<1>5. PICK t : t = [u EXCEPT !.take[b] = n]
  OBVIOUS
<1>6. t = [pc |-> "taking", todo |-> v.todo \ {b}, held |-> v.held,
           left |-> v.left, take |-> [v.take EXCEPT ![b] = n]]
  BY <1>3, <1>4, <1>5
<1>7. [t EXCEPT !.left = @ - n] = w
  BY <1>6
<1> QED BY <1>1, <1>4, <1>5, <1>7

-----------------------------------------------------------------------------
(* The invariant *)

LEMMA DeliveryStepInv ==
  ASSUME Inv, NEW d \in Deliveries, DeliveryStep(d)
  PROVE  Inv'
<1> USE DEF Inv
<1> DEFINE v == delivery[d]
<1>0. /\ v \in Delivery /\ v.held \in Counts /\ v.take \in Counts /\ v.todo \in SUBSET Batches
      /\ v.left \in 0..MaxUnits /\ MaxUnits \in Nat
      /\ \A b \in Batches : batch[b].quantity \in -MaxUnits..MaxUnits /\ v.held[b] \in Nat
                            /\ v.take[b] \in Nat
  BY RowsOK DEF TypeOK, Delivery, Row, Counts
<1>alone. AtWork(d) => \A e \in Deliveries \ {d} : ~AtWork(e)
  BY DEF OneAtATime
<1>1. CASE Begin(d)
  <2> DEFINE w == [pc |-> "locking", todo |-> {b \in Batches : InStock(b)},
                   held |-> Nothing, left |-> Units[d], take |-> Nothing]
  <2>1. delivery' = [delivery EXCEPT ![d] = w]
    BY <1>1, BeginIs
  <2>2. Units[d] \in 0..MaxUnits
    BY BatchesAssumptions
  <2>3. w \in Delivery
    BY <2>2, RowsOK DEF Delivery
  <2>4. \A e \in Deliveries \ {d} : ~AtWork(e)
    BY <1>1 DEF Begin, AtWork, Busy
  <2>5. /\ w.pc = "locking"
        /\ \A b \in Batches : w.held[b] = 0 /\ w.take[b] = 0
    BY RowsOK
  <2>6. UNCHANGED <<batch, lines, request>>
    BY <1>1 DEF Begin
  <2> HIDE DEF w
  <2>7. Holds(w) /\ Ordered(w)
    BY <2>5 DEF Holds, Ordered
  <2> QED BY <2>1, <2>3, <2>4, <2>6, <2>7, DeliveryInv
<1>2. ASSUME NEW b \in Batches, LockRow(d, b) PROVE Inv'
  <2> DEFINE n == IF InStock(b) THEN batch[b].quantity ELSE 0
             w == [pc |-> "locking", todo |-> v.todo \ {b}, held |-> [v.held EXCEPT ![b] = n],
                   left |-> v.left, take |-> v.take]
  <2>1. delivery' = [delivery EXCEPT ![d] = w]
    BY <1>2, LockRowIs
  <2>2. n \in 0..MaxUnits /\ (n > 0 => batch[b].state = "here" /\ batch[b].quantity = n)
    BY <1>0 DEF InStock
  <2> HIDE DEF n
  <2>3. [v.held EXCEPT ![b] = n] \in Counts
    BY <1>0, <2>2 DEF Counts
  <2>4. w \in Delivery
    BY <1>0, <2>3 DEF Delivery
  <2>5. v.pc = "locking" /\ \A a \in Batches : v.take[a] = 0
    BY <1>0, <1>2 DEF LockRow, TakesInOrder, Ordered
  <2>6. \A a \in Batches : w.held[a] = IF a = b THEN n ELSE v.held[a]
    BY <1>0 DEF Counts
  <2>7. \A a \in Batches : w.held[a] > 0 =>
            batch[a].state = "here" /\ batch[a].quantity = w.held[a]
    BY <2>2, <2>6 DEF HeldIsThere, Holds
  <2>8. AtWork(d)
    BY <2>5 DEF AtWork, Busy
  <2>9. \A a \in Batches : w.take[a] = 0 /\ w.held[a] \in Nat
    BY <1>0, <2>2, <2>5, <2>6
  <2>10. w.pc = "locking"
    OBVIOUS
  <2> HIDE DEF w
  <2>11. UNCHANGED <<batch, lines, request>>
    BY <1>2 DEF LockRow
  <2>12. \A a \in Batches : w.take[a] <= w.held[a]
    BY <2>9
  <2>13. \A e \in Deliveries \ {d} : ~AtWork(e)
    BY <1>alone, <2>8
  <2>14. Holds(w) /\ Ordered(w)
    BY <2>7, <2>9, <2>10, <2>12 DEF Holds, Ordered, Busy
  <2> QED BY <2>1, <2>4, <2>11, <2>13, <2>14, DeliveryInv
<1>3. CASE AllLocked(d)
  <2> DEFINE w == [pc |-> "taking", todo |-> {b \in Batches : v.held[b] > 0}, held |-> v.held,
                   left |-> v.left, take |-> v.take]
  <2>1. delivery' = [delivery EXCEPT ![d] = w]
    BY <1>3, AllLockedIs
  <2>2. w \in Delivery
    BY <1>0 DEF Delivery
  <2>3. AtWork(d) /\ \A a \in Batches : v.take[a] = 0
    BY <1>0, <1>3 DEF AllLocked, TakesInOrder, Ordered, AtWork, Busy
  <2>4. \A a \in Batches : v.held[a] > 0 => batch[a].state = "here" /\ batch[a].quantity = v.held[a]
    BY DEF HeldIsThere, Holds
  <2>5. /\ w.pc = "taking" /\ w.held = v.held /\ w.take = v.take
        /\ \A a \in Batches : a \in w.todo <=> v.held[a] > 0
    OBVIOUS
  <2> HIDE DEF w
  <2>6. Holds(w)
    BY <2>4, <2>5 DEF Holds, Busy
  <2>7. w.todo \in SUBSET Batches
    BY <2>2 DEF Delivery
  <2>8. Ordered(w)
    BY <1>0, <2>3, <2>5, <2>7 DEF Ordered
  <2>9. UNCHANGED <<batch, lines, request>>
    BY <1>3 DEF AllLocked
  <2> QED BY <1>alone, <2>1, <2>2, <2>3, <2>6, <2>8, <2>9, DeliveryInv
<1>4. ASSUME NEW b \in Batches, Take(d, b) PROVE Inv'
  <2> DEFINE n == Lesser(v.held[b], v.left)
             w == [pc |-> "taking", todo |-> v.todo \ {b}, held |-> v.held,
                   left |-> v.left - n, take |-> [v.take EXCEPT ![b] = n]]
  <2>0. v.pc = "taking" /\ v.left > 0 /\ Earliest(b, v.todo)
    BY <1>4 DEF Take
  <2>1. n \in 0..MaxUnits /\ n <= v.held[b] /\ v.left - n \in 0..MaxUnits
        /\ (v.left - n > 0 => n = v.held[b])
    BY <1>0 DEF Lesser, Counts
  <2>2. delivery' = [delivery EXCEPT ![d] = w]
    BY <1>4, TakeIs
  <2> HIDE DEF n
  <2>3. [v.take EXCEPT ![b] = n] \in Counts
    BY <1>0, <2>1 DEF Counts
  <2>4. w \in Delivery
    BY <1>0, <2>1, <2>3 DEF Delivery
  <2>5. /\ w.pc = "taking" /\ w.held = v.held /\ w.todo = v.todo \ {b} /\ w.left = v.left - n
        /\ \A a \in Batches : w.take[a] = IF a = b THEN n ELSE v.take[a]
    BY <1>0 DEF Counts
  <2>6. \A a \in Batches : v.held[a] > 0 => batch[a].state = "here" /\ batch[a].quantity = v.held[a]
    BY DEF HeldIsThere, Holds
  <2>7. AtWork(d) /\ b \in v.todo /\ \A a \in v.todo : b <= a
    BY <2>0 DEF AtWork, Busy, Earliest
  <2>8. /\ \A a \in Batches : v.take[a] <= v.held[a]
        /\ \A a \in v.todo : v.take[a] = 0
        /\ \A a \in Batches \ v.todo, c \in v.todo : v.held[a] > 0 => a < c
        /\ \A a \in Batches \ v.todo : v.held[a] > 0 => v.take[a] = v.held[a]
        /\ \A a, c \in Batches : a < c /\ v.take[c] > 0 => v.take[a] = v.held[a]
    BY <2>0 DEF TakesInOrder, Ordered
  <2> HIDE DEF w, v
  <2>9. \A a \in Batches : w.take[a] <= w.held[a]
    BY <2>1, <2>5, <2>8
  <2>10. \A a \in w.todo : w.take[a] = 0
    BY <1>0, <2>5, <2>8
  <2>11. ASSUME NEW a \in Batches \ w.todo, NEW c \in w.todo, w.held[a] > 0
         PROVE  a < c
    <3>1. c \in v.todo /\ c # b /\ c \in Int /\ b \in Int
      BY <1>0, <2>5, <2>11, RowsOK
    <3>2. CASE a = b
      BY <2>7, <3>1, <3>2
    <3>3. CASE a # b
      BY <2>5, <2>8, <2>11, <3>1, <3>3
    <3> QED BY <3>2, <3>3
  <2>12. \A a \in Batches \ w.todo : w.held[a] > 0 /\ w.left > 0 => w.take[a] = w.held[a]
    BY <2>1, <2>5, <2>8
  <2>13. ASSUME NEW a \in Batches, NEW c \in Batches, a < c, w.take[c] > 0
         PROVE  w.take[a] = w.held[a]
    <3>1. a # b
      BY <1>0, <2>13, <2>5, <2>7, <2>8, RowsOK
    <3>2. CASE c = b
      <4>1. a \notin v.todo
        BY <2>13, <2>7, <3>2, RowsOK
      <4>2. v.take[a] = v.held[a]
        BY <1>0, <2>8, <4>1
      <4> QED BY <2>5, <3>1, <4>2
    <3>3. CASE c # b
      BY <2>13, <2>5, <2>8, <3>1, <3>3
    <3> QED BY <3>2, <3>3
  <2>14. UNCHANGED <<batch, lines, request>>
    BY <1>4 DEF Take
  <2>15. \A e \in Deliveries \ {d} : ~AtWork(e)
    BY <1>alone, <2>7
  <2>16. \A a \in Batches : w.held[a] > 0 => batch[a].state = "here" /\ batch[a].quantity = w.held[a]
    BY <2>5, <2>6
  <2>17. Holds(w) /\ Ordered(w)
    BY <2>5, <2>9, <2>10, <2>11, <2>12, <2>13, <2>16 DEF Holds, Ordered, Busy
  <2> QED BY <2>2, <2>4, <2>14, <2>15, <2>17, DeliveryInv
<1>5. CASE RollBack(d)
  <2>1. /\ NotBegun \in Delivery /\ NotBegun.pc = "open"
        /\ \A b \in Batches : NotBegun.held[b] = 0 /\ NotBegun.take[b] = 0
    BY RowsOK DEF NotBegun
  <2>2. delivery' = [delivery EXCEPT ![d] = NotBegun] /\ UNCHANGED <<batch, lines, request>>
    BY <1>5 DEF RollBack
  <2>3. Holds(NotBegun) /\ Ordered(NotBegun) /\ ~Busy(NotBegun)
    BY <2>1 DEF Holds, Ordered, Busy
  <2> QED BY <2>1, <2>2, <2>3, DeliveryInv
<1> QED BY <1>1, <1>2, <1>3, <1>4, <1>5, CommitInv DEF DeliveryStep

LEMMA NextInv == Inv /\ [Next]_vars => Inv'
<1> SUFFICES ASSUME Inv, [Next]_vars PROVE Inv'
  OBVIOUS
<1>1. CASE UNCHANGED vars
  BY <1>1 DEF vars, Inv, TypeOK, HeldIsThere, OneAtATime, TakesInOrder, AtWork, Holds, Ordered, Busy
<1>2. CASE Next
  BY <1>2, DeliveryStepInv, RequestStepInv, AdjustInv DEF Next
<1> QED BY <1>1, <1>2

LEMMA SpecInv == Spec => []Inv
BY InitInv, NextInv, PTL DEF Spec

\* The types of batches, transactions and requests; quantities may be negative.
THEOREM TypeAlwaysOK == Spec => []TypeOK
<1>1. Inv => TypeOK
  BY DEF Inv
<1> QED BY <1>1, SpecInv, PTL

\* Only a delivery's commit makes it done, and leaves its lines.
LEMMA OnlyCommitDelivers ==
  ASSUME Inv, [Next]_vars, NEW d \in Deliveries, Delivers(d)
  PROVE  Commit(d)
<1>1. ~UNCHANGED delivery
  BY DEF Delivers
<1>2. PICK e \in Deliveries : DeliveryStep(e)
  <2>1. CASE \E r \in Requests : RequestStep(r)
    BY <1>1, <2>1 DEF RequestStep, FindBatch, AddBatchInventory, GetProductBatchesForFIFO,
          DeductFromBatch, FindSource, AddToTarget, DeleteSource, RequestEnds
  <2> QED BY <1>1, <2>1 DEF Next, vars, AdjustBatchQuantity
<1>3. e = d
  BY <1>2 DEF Inv, TypeOK, Delivers, DeliveryStep, Begin, LockRow, AllLocked, Take, Commit, RollBack
<1>4. delivery[d] \in Delivery /\ NotBegun \in Delivery /\ NotBegun.pc = "open"
  BY RowsOK DEF Inv, TypeOK, NotBegun
<1>5. ~Begin(d)
  <2> SUFFICES ASSUME Begin(d) PROVE FALSE
    OBVIOUS
  <2>1. PICK t : t = [NotBegun EXCEPT !.pc = "locking", !.left = Units[d]]
    OBVIOUS
  <2>2. t.pc = "locking" /\ delivery'[d].pc = "locking"
    BY <2>1 DEF Begin, Inv, TypeOK, NotBegun
  <2> QED BY <2>2 DEF Delivers
<1>6. ~AllLocked(d)
  BY <1>4 DEF AllLocked, Inv, TypeOK, Delivery, Delivers
<1>7. ~RollBack(d)
  BY <1>4 DEF RollBack, Inv, TypeOK, Delivers
<1>8. ASSUME NEW b \in Batches, LockRow(d, b) PROVE FALSE
  BY <1>4, <1>8 DEF Inv, TypeOK, Delivery, Delivers, LockRow
<1>9. ASSUME NEW b \in Batches, Take(d, b) PROVE FALSE
  BY <1>4, <1>9 DEF Inv, TypeOK, Delivery, Delivers, Take
<1> QED BY <1>2, <1>3, <1>5, <1>6, <1>7, <1>8, <1>9 DEF DeliveryStep

\* What a delivery takes is there when it takes it, whatever the batch routes do
\* between its reading and its writing.
THEOREM DeliveriesAlwaysInStock == Spec => DeliveriesNeverOverdraw
<1>1. ASSUME Inv, [Next]_vars, NEW d \in Deliveries, NEW b \in Batches,
             Delivers(d), lines'[d][b] > 0
      PROVE  batch[b].state = "here" /\ batch'[b].quantity >= 0
  <2>1. Commit(d)
    BY <1>1, OnlyCommitDelivers
  <2>2. lines'[d] = delivery[d].take
    BY <1>1, <2>1 DEF Commit, Inv, TypeOK
  <2>3. delivery[d].take[b] <= delivery[d].held[b] /\ delivery[d].held[b] \in Nat
        /\ delivery[d].take[b] \in Nat
    BY <1>1, RowsOK DEF Inv, TakesInOrder, TypeOK, Delivery, Counts, Ordered
  <2>4. batch[b].state = "here" /\ batch[b].quantity = delivery[d].held[b]
    BY <1>1, <2>2, <2>3 DEF Inv, HeldIsThere, Holds
  <2>5. batch[b] \in Row /\ batch'[b].quantity = batch[b].quantity - delivery[d].take[b]
    BY <1>1, <2>1 DEF Commit, Inv, TypeOK, Row
  <2> QED BY <2>3, <2>4, <2>5
<1>2. Inv /\ [Next]_vars =>
        [\A d \in Deliveries, b \in Batches :
           Delivers(d) /\ lines'[d][b] > 0 =>
               batch[b].state = "here" /\ batch'[b].quantity >= 0]_vars
  BY <1>1
<1> QED BY <1>2, SpecInv, PTL DEF Spec, DeliveriesNeverOverdraw

\* Stock leaves in the order of its expiry, as far as the delivery could see.
THEOREM AlwaysEarliestExpiringFirst == Spec => EarliestExpiringFirst
<1>1. ASSUME Inv, [Next]_vars, NEW d \in Deliveries, NEW a \in Batches, NEW b \in Batches,
             Delivers(d), a < b, lines'[d][b] > 0, delivery[d].held[a] > 0
      PROVE  batch'[a].quantity = 0
  <2>1. Commit(d)
    BY <1>1, OnlyCommitDelivers
  <2>2. lines'[d] = delivery[d].take
    BY <1>1, <2>1 DEF Commit, Inv, TypeOK
  <2>3. delivery[d].take[a] = delivery[d].held[a] /\ delivery[d].held[a] \in Nat
    BY <1>1, <2>1, <2>2, RowsOK DEF Inv, TakesInOrder, Commit, TypeOK, Delivery, Counts, Ordered
  <2>4. batch[a].quantity = delivery[d].held[a]
    BY <1>1 DEF Inv, HeldIsThere, Holds
  <2>5. batch'[a].quantity = batch[a].quantity - delivery[d].take[a]
    BY <1>1, <2>1 DEF Commit, Inv, TypeOK, Row
  <2> QED BY <2>3, <2>4, <2>5
<1>2. Inv /\ [Next]_vars =>
        [\A d \in Deliveries : \A a, b \in Batches :
           Delivers(d) /\ a < b /\ lines'[d][b] > 0 /\ delivery[d].held[a] > 0 =>
               batch'[a].quantity = 0]_vars
  BY <1>1
<1> QED BY <1>2, SpecInv, PTL DEF Spec, EarliestExpiringFirst

-----------------------------------------------------------------------------
(* What the lines of a delivery add up to *)

\* What a delivery has taken, and what is left to take, is what it needs.
LeftIsRight == \A d \in Deliveries :
    AtWork(d) => InAll(delivery[d].take) + delivery[d].left = Units[d]

Sums == LeftIsRight /\ LinesAddUp

LEMMA BatchesAreFinite == IsFiniteSet(Batches) /\ MaxUnits \in Nat
BY FS_Interval, BatchesAssumptions DEF Batches

LEMMA NothingIsZero == InAll(Nothing) = 0
<1> DEFINE q == [b \in Batches |-> [units |-> Nothing[b]]]
<1>1. \A b \in Batches : q[b]["units"] = 0
  BY DEF Nothing
<1>2. UnitsOf(Batches, q, "units", MaxUnits) = {}
  <2> HIDE DEF q
  <2> QED BY <1>1, BatchesAreFinite DEF UnitsOf
<1> QED BY <1>2, FS_EmptySet DEF InAll, TotalOf

\* Units taken from a batch that had none of them come on top.
LEMMA OneBatchMore ==
    ASSUME NEW c \in Counts, NEW b \in Batches, c[b] = 0, NEW n \in 0..MaxUnits
    PROVE  /\ InAll(c) \in Nat
           /\ InAll([c EXCEPT ![b] = n]) = InAll(c) + n
<1> DEFINE p == [a \in Batches |-> [units |-> c[a]]]
           q == [a \in Batches |-> [units |-> [c EXCEPT ![b] = n][a]]]
           rest == Batches \ {b}
<1>1. p[b]["units"] = 0 /\ q[b]["units"] = n
  BY DEF Counts
<1>2. \A a \in rest : p[a]["units"] = q[a]["units"]
  BY DEF Counts
<1> HIDE DEF p, q
<1>3. IsFiniteSet(rest) /\ b \notin rest /\ rest \cup {b} = Batches
  BY BatchesAreFinite, FS_RemoveElement
<1> HIDE DEF rest
<1>4. /\ TotalOf(rest \cup {b}, p, "units", MaxUnits) = TotalOf(rest, p, "units", MaxUnits) + 0
      /\ TotalOf(rest \cup {b}, q, "units", MaxUnits) = TotalOf(rest, q, "units", MaxUnits) + n
  BY <1>1, <1>3, BatchesAreFinite, TotalOneMore
<1>5. TotalOf(rest, p, "units", MaxUnits) = TotalOf(rest, q, "units", MaxUnits)
  BY <1>2, TotalCongruent
<1>6. TotalOf(rest, p, "units", MaxUnits) \in Nat
  BY <1>3, BatchesAreFinite, TotalIsNat
<1>7. /\ TotalOf(Batches, p, "units", MaxUnits) \in Nat
      /\ TotalOf(Batches, q, "units", MaxUnits) = TotalOf(Batches, p, "units", MaxUnits) + n
  <2>1. PICK m \in Nat : m = TotalOf(rest, p, "units", MaxUnits)
    BY <1>6
  <2>2. m + 0 = m
    OBVIOUS
  <2>3. /\ TotalOf(Batches, p, "units", MaxUnits) = m + 0
        /\ TotalOf(Batches, q, "units", MaxUnits) = m + n
    BY <1>3, <1>4, <1>5, <2>1, Zenon
  <2> QED BY <2>1, <2>2, <2>3
<1>8. InAll(c) = TotalOf(Batches, p, "units", MaxUnits)
  BY DEF InAll, p
<1>9. InAll([c EXCEPT ![b] = n]) = TotalOf(Batches, q, "units", MaxUnits)
  BY DEF InAll, q
<1> QED BY <1>7, <1>8, <1>9

LEMMA OthersKeepSums ==
    ASSUME Inv, Sums, NEW d \in Deliveries, NEW v \in Delivery,
           delivery' = [delivery EXCEPT ![d] = v], UNCHANGED lines,
           delivery[d].pc # "done", v.pc # "done",
           Busy(v) => InAll(v.take) + v.left = Units[d]
    PROVE  Sums'
<1>1. delivery'[d] = v /\ \A e \in Deliveries \ {d} : delivery'[e] = delivery[e]
  BY DEF Inv, TypeOK
<1>2. LeftIsRight'
  BY <1>1 DEF Sums, LeftIsRight, AtWork, Busy, InAll
<1>3. LinesAddUp'
  BY <1>1 DEF Sums, LinesAddUp, InAll
<1> QED BY <1>2, <1>3 DEF Sums

LEMMA DeliverySums ==
    ASSUME Inv, Sums, NEW d \in Deliveries, DeliveryStep(d)
    PROVE  Sums'
<1> DEFINE v == delivery[d]
<1>0. /\ v \in Delivery /\ v.take \in Counts /\ v.left \in 0..MaxUnits
      /\ v.held \in Counts /\ MaxUnits \in Nat
  BY RowsOK DEF Inv, TypeOK, Delivery
<1>inv. Inv' /\ \A w : delivery' = [delivery EXCEPT ![d] = w] => w \in Delivery
  <2>1. Inv'
    BY DeliveryStepInv
  <2>2. delivery' \in [Deliveries -> Delivery]
    BY <2>1 DEF Inv, TypeOK
  <2> QED BY <2>1, <2>2 DEF Inv, TypeOK
<1>1. CASE Begin(d)
  <2> DEFINE w == [pc |-> "locking", todo |-> {b \in Batches : InStock(b)},
                   held |-> Nothing, left |-> Units[d], take |-> Nothing]
  <2>1. delivery' = [delivery EXCEPT ![d] = w]
    BY <1>1, BeginIs
  <2>2. Units[d] \in Nat /\ 0 + Units[d] = Units[d]
    BY BatchesAssumptions
  <2>3. w.pc = "locking" /\ InAll(w.take) + w.left = Units[d]
    BY <2>2, NothingIsZero
  <2>4. UNCHANGED lines /\ v.pc # "done"
    BY <1>1 DEF Begin
  <2> HIDE DEF w
  <2> QED BY <1>inv, <2>1, <2>3, <2>4, OthersKeepSums
<1>2. ASSUME NEW b \in Batches, LockRow(d, b) PROVE Sums'
  <2> DEFINE n == IF InStock(b) THEN batch[b].quantity ELSE 0
             w == [pc |-> "locking", todo |-> v.todo \ {b}, held |-> [v.held EXCEPT ![b] = n],
                   left |-> v.left, take |-> v.take]
  <2>1. delivery' = [delivery EXCEPT ![d] = w]
    BY <1>2, LockRowIs
  <2>2. UNCHANGED lines /\ v.pc = "locking"
    BY <1>2 DEF LockRow
  <2>3. InAll(v.take) + v.left = Units[d]
    BY <2>2 DEF Sums, LeftIsRight, AtWork, Busy
  <2>4. w.pc = "locking" /\ w.take = v.take /\ w.left = v.left
    OBVIOUS
  <2> HIDE DEF w
  <2> QED BY <1>inv, <2>1, <2>2, <2>3, <2>4, OthersKeepSums
<1>3. CASE AllLocked(d)
  <2> DEFINE w == [pc |-> "taking", todo |-> {b \in Batches : v.held[b] > 0}, held |-> v.held,
                   left |-> v.left, take |-> v.take]
  <2>1. delivery' = [delivery EXCEPT ![d] = w]
    BY <1>3, AllLockedIs
  <2>2. UNCHANGED lines /\ v.pc = "locking"
    BY <1>3 DEF AllLocked
  <2>3. InAll(v.take) + v.left = Units[d]
    BY <2>2 DEF Sums, LeftIsRight, AtWork, Busy
  <2>4. w.pc = "taking" /\ w.take = v.take /\ w.left = v.left
    OBVIOUS
  <2> HIDE DEF w
  <2> QED BY <1>inv, <2>1, <2>2, <2>3, <2>4, OthersKeepSums
<1>4. ASSUME NEW b \in Batches, Take(d, b) PROVE Sums'
  <2> DEFINE n == Lesser(v.held[b], v.left)
             w == [pc |-> "taking", todo |-> v.todo \ {b}, held |-> v.held,
                   left |-> v.left - n, take |-> [v.take EXCEPT ![b] = n]]
  <2>1. delivery' = [delivery EXCEPT ![d] = w]
    BY <1>4, TakeIs
  <2>2. UNCHANGED lines /\ v.pc = "taking" /\ b \in v.todo
    BY <1>4 DEF Take, Earliest
  <2>3. InAll(v.take) + v.left = Units[d]
    BY <2>2 DEF Sums, LeftIsRight, AtWork, Busy
  <2>4. v.take[b] = 0
    BY <2>2 DEF Inv, TakesInOrder, Ordered
  <2>5. n \in 0..MaxUnits
    BY <1>0 DEF Lesser, Counts
  <2>6. w.pc = "taking" /\ w.take = [v.take EXCEPT ![b] = n] /\ w.left = v.left - n
    OBVIOUS
  <2> HIDE DEF w, n, v
  <2>7. InAll(v.take) \in Nat /\ InAll(w.take) = InAll(v.take) + n
    BY <1>0, <2>4, <2>5, <2>6, OneBatchMore
  <2>8. InAll(w.take) + w.left = Units[d]
    <3>1. PICK i \in Nat : i = InAll(v.take)
      BY <2>7
    <3>2. i + n + (v.left - n) = i + v.left
      BY <1>0, <2>5
    <3> QED BY <2>3, <2>6, <2>7, <3>1, <3>2
  <2> QED BY <1>inv, <2>1, <2>2, <2>6, <2>8, OthersKeepSums DEF v
<1>5. CASE Commit(d)
  <2>1. /\ v.pc = "taking" /\ v.left = 0
        /\ lines' = [lines EXCEPT ![d] = v.take]
        /\ delivery' = [delivery EXCEPT ![d] = [NotBegun EXCEPT !.pc = "done"]]
    BY <1>5 DEF Commit
  <2>2. InAll(v.take) + 0 = Units[d]
    BY <2>1 DEF Sums, LeftIsRight, AtWork, Busy
  <2>3. InAll(v.take) = Units[d]
    <3>1. InAll(v.take) \in Nat
      BY <1>0, BatchesAreFinite, TotalIsNat DEF InAll
    <3> QED BY <2>2, <3>1
  <2>4. /\ lines'[d] = v.take /\ delivery'[d].pc = "done"
        /\ \A e \in Deliveries \ {d} : lines'[e] = lines[e] /\ delivery'[e] = delivery[e]
    BY <2>1 DEF Inv, TypeOK, NotBegun
  <2>5. LeftIsRight'
    BY <2>4 DEF Sums, LeftIsRight, AtWork, Busy, InAll
  <2>6. LinesAddUp'
    BY <2>3, <2>4 DEF Sums, LinesAddUp, InAll
  <2> QED BY <2>5, <2>6 DEF Sums
<1>6. CASE RollBack(d)
  <2>1. /\ delivery' = [delivery EXCEPT ![d] = NotBegun] /\ UNCHANGED lines
        /\ v.pc # "done" /\ NotBegun.pc = "open"
    BY <1>6 DEF RollBack, NotBegun
  <2> QED BY <1>inv, <2>1, OthersKeepSums DEF Busy
<1> QED BY <1>1, <1>2, <1>3, <1>4, <1>5, <1>6 DEF DeliveryStep

LEMMA SumsKept == Inv /\ Sums /\ [Next]_vars => Sums'
<1> SUFFICES ASSUME Inv, Sums, [Next]_vars PROVE Sums'
  OBVIOUS
<1>1. ASSUME UNCHANGED <<lines, delivery>> PROVE Sums'
  BY <1>1 DEF Sums, LeftIsRight, LinesAddUp, AtWork, InAll
<1>2. ASSUME NEW r \in Requests, RequestStep(r) PROVE UNCHANGED <<lines, delivery>>
  BY <1>2 DEF RequestStep, FindBatch, AddBatchInventory, GetProductBatchesForFIFO,
     DeductFromBatch, FindSource, AddToTarget, DeleteSource, RequestEnds
<1>3. ASSUME NEW b \in Batches, NEW n \in Adjustments, AdjustBatchQuantity(b, n)
      PROVE  UNCHANGED <<lines, delivery>>
  BY <1>3 DEF AdjustBatchQuantity
<1> QED BY <1>1, <1>2, <1>3, DeliverySums DEF Next, vars

LEMMA SumsInit == Init => Sums
<1> SUFFICES ASSUME Init PROVE Sums
  OBVIOUS
<1>1. \A d \in Deliveries : delivery[d].pc = "open" /\ lines[d] = Nothing
  BY DEF Init, NotBegun
<1> QED BY <1>1, NothingIsZero DEF Sums, LeftIsRight, LinesAddUp, AtWork, Busy

\* A delivery or a sale that is done has issued what it needed, no unit more or
\* less, over however many batches; one that was rolled back has issued nothing.
THEOREM LinesAlwaysAddUp == Spec => []LinesAddUp
<1>1. Sums => LinesAddUp
  BY DEF Sums
<1> QED BY <1>1, SpecInv, SumsInit, SumsKept, PTL DEF Spec
=============================================================================
