-------------------------------- MODULE Batches --------------------------------
(***************************************************************************)
(* The batches of one product in one shop.  Deliveries and counter sales   *)
(* take units from them in a transaction: it locks the batches that have   *)
(* stock, earliest expiry first, and takes from each what it can.  Staff   *)
(* work on the same rows through the batch routes, which read, and write   *)
(* in statements of their own: a quantity read may be gone when it is      *)
(* written, and a request can break off in the middle.                     *)
(*                                                                         *)
(* Batches are numbered in the order of their expiry.  A batch that was    *)
(* merged into another is not received again.  Costs are left out, and so  *)
(* is what is reserved: a sale may be refused for it at any time.          *)
(***************************************************************************)
EXTENDS Integers, UnitCount

CONSTANTS LastBatch,     \* the number of batches
          Deliveries,    \* orders and sales that ask for the product
          Requests,      \* requests to the batch routes, one at a time each
          Units,         \* what each delivery needs
          Adjustments,   \* what staff may add to a quantity, or take from it
          MaxUnits       \* bounds the quantities and what is asked for

Batches == 1..LastBatch
Counts  == [Batches -> 0..MaxUnits]

ASSUME BatchesAssumptions ==
    /\ LastBatch \in Nat /\ MaxUnits \in Nat
    /\ Units \in [Deliveries -> 1..MaxUnits]
    /\ Adjustments \subseteq Int

VARIABLES batch,         \* batch_inventory
          lines,         \* ISSUE lines of each delivery, in units per batch
          delivery,      \* the transaction of each delivery
          request        \* per request: what it has read

vars == <<batch, lines, delivery, request>>

Nothing == [b \in Batches |-> 0]

\* A negative quantity is one that the routes have left behind.
Row == [state : {"none", "here", "gone"}, quantity : -MaxUnits..MaxUnits]

\* todo: batches to lock, then to take from; held: the quantities locked.
Delivery == [pc : {"open", "locking", "taking", "done"}, todo : SUBSET Batches,
             held : Counts, left : 0..MaxUnits, take : Counts]
NotBegun == [pc |-> "open", todo |-> {}, held |-> Nothing, left |-> 0, take |-> Nothing]

Idle    == [pc |-> "idle"]
Request == [pc : {"idle"}]
           \cup [pc : {"add"}, batch : Batches, units : 1..MaxUnits, found : BOOLEAN]
           \cup [pc : {"deduct"}, seen : Counts, left : 0..MaxUnits]
           \cup [pc : {"merge"}, target : Batches, source : Batches, units : 0..MaxUnits]
           \cup [pc : {"delete"}, source : Batches]

Init ==
    /\ batch    = [b \in Batches |-> [state |-> "none", quantity |-> 0]]
    /\ lines    = [d \in Deliveries |-> Nothing]
    /\ delivery = [d \in Deliveries |-> NotBegun]
    /\ request  = [r \in Requests |-> Idle]

-----------------------------------------------------------------------------
InStock(b) == batch[b].state = "here" /\ batch[b].quantity > 0

Lesser(m, n) == IF m <= n THEN m ELSE n

BugLatest(b, S) == b \in S /\ \A a \in S : a <= b

Earliest(b, S) == b \in S /\ \A a \in S : b <= a

BugNoRowLocks(b) == TRUE

\* No transaction has the row: a statement that writes it need not wait.
RowFree(b) == \A d \in Deliveries : delivery[d].held[b] = 0

\* The quantity of a batch changes, if it is there.
Update(b, n) ==
    /\ RowFree(b)
    /\ batch[b].quantity + n \in -MaxUnits..MaxUnits
    /\ batch' = IF batch[b].state = "here" THEN [batch EXCEPT ![b].quantity = @ + n] ELSE batch

-----------------------------------------------------------------------------
(* Deliveries and counter sales *)

\* It waits for the other deliveries of the product, and looks for stock.
Begin(d) ==
    /\ delivery[d].pc = "open"
    /\ \A e \in Deliveries : delivery[e].pc \in {"open", "done"}
    /\ delivery' = [delivery EXCEPT
           ![d] = [NotBegun EXCEPT !.pc = "locking", !.left = Units[d],
                                   !.todo = {b \in Batches : InStock(b)}]]
    /\ UNCHANGED <<batch, lines, request>>

\* A row that has lost its stock, or is gone, by the time it is locked is skipped.
LockRow(d, b) ==
    /\ delivery[d].pc = "locking" /\ Earliest(b, delivery[d].todo)
    /\ delivery' = [delivery EXCEPT
           ![d].todo    = @ \ {b},
           ![d].held[b] = IF InStock(b) THEN batch[b].quantity ELSE 0]
    /\ UNCHANGED <<batch, lines, request>>

AllLocked(d) ==
    /\ delivery[d].pc = "locking" /\ delivery[d].todo = {}
    /\ delivery' = [delivery EXCEPT
           ![d].pc = "taking", ![d].todo = {b \in Batches : delivery[d].held[b] > 0}]
    /\ UNCHANGED <<batch, lines, request>>

BugTakesTooMuch(d, b) ==
    LET n == Lesser(delivery[d].held[b], delivery[d].left) IN
    /\ delivery[d].pc = "taking" /\ delivery[d].left > 0 /\ Earliest(b, delivery[d].todo)
    /\ delivery' = [delivery EXCEPT
           ![d].todo    = @ \ {b},
           ![d].take[b] = delivery[d].held[b],
           ![d].left    = @ - n]
    /\ UNCHANGED <<batch, lines, request>>

BugLeftIsWrong(d, b) ==
    LET n == Lesser(delivery[d].held[b], delivery[d].left) IN
    /\ delivery[d].pc = "taking" /\ delivery[d].left > 0 /\ Earliest(b, delivery[d].todo)
    /\ delivery' = [delivery EXCEPT
           ![d].todo    = @ \ {b},
           ![d].take[b] = n,
           ![d].left    = @ - delivery[d].held[b]]
    /\ UNCHANGED <<batch, lines, request>>

Take(d, b) ==
    LET n == Lesser(delivery[d].held[b], delivery[d].left) IN
    /\ delivery[d].pc = "taking" /\ delivery[d].left > 0 /\ Earliest(b, delivery[d].todo)
    /\ delivery' = [delivery EXCEPT
           ![d].todo    = @ \ {b},
           ![d].take[b] = n,
           ![d].left    = @ - n]
    /\ UNCHANGED <<batch, lines, request>>

\* What it has taken becomes visible, with its lines.
Commit(d) ==
    /\ delivery[d].pc = "taking" /\ delivery[d].left = 0
    /\ batch' = [b \in Batches |->
                    [batch[b] EXCEPT !.quantity = @ - delivery[d].take[b]]]
    /\ lines'    = [lines EXCEPT ![d] = delivery[d].take]
    /\ delivery' = [delivery EXCEPT ![d] = [NotBegun EXCEPT !.pc = "done"]]
    /\ UNCHANGED request

\* Stock is short, the sale is refused, or the connection is lost.
RollBack(d) ==
    /\ delivery[d].pc \in {"locking", "taking"}
    /\ delivery' = [delivery EXCEPT ![d] = NotBegun]
    /\ UNCHANGED <<batch, lines, request>>

-----------------------------------------------------------------------------
(* The batch routes: a request reads, then writes *)

FindBatch(r, b, n) ==
    /\ request[r] = Idle
    /\ batch[b].state # "gone"
    /\ request' = [request EXCEPT ![r] = [pc |-> "add", batch |-> b, units |-> n,
                                          found |-> batch[b].state = "here"]]
    /\ UNCHANGED <<batch, lines, delivery>>

\* The row found is raised, even if it is no longer there; otherwise a row is
\* inserted, unless another request was faster.
AddBatchInventory(r) ==
    LET b == request[r].batch
        n == request[r].units
    IN  /\ request[r].pc = "add"
        /\ \/ request[r].found /\ Update(b, n)
           \/ /\ ~request[r].found /\ batch[b].state = "none"
              /\ batch' = [batch EXCEPT ![b] = [state |-> "here", quantity |-> n]]
        /\ request' = [request EXCEPT ![r] = Idle]
        /\ UNCHANGED <<lines, delivery>>

GetProductBatchesForFIFO(r, n) ==
    /\ request[r] = Idle
    /\ request' = [request EXCEPT ![r] =
           [pc |-> "deduct", left |-> n,
            seen |-> [b \in Batches |-> IF InStock(b) THEN batch[b].quantity ELSE 0]]]
    /\ UNCHANGED <<batch, lines, delivery>>

\* One batch after the other, by what was seen; that the batches were too few is
\* noticed at the end, and nothing is put back.
DeductFromBatch(r, b) ==
    /\ request[r].pc = "deduct" /\ request[r].left > 0
    /\ Earliest(b, {a \in Batches : request[r].seen[a] > 0})
    /\ LET n == Lesser(request[r].seen[b], request[r].left) IN
       /\ Update(b, -n)
       /\ request' = [request EXCEPT ![r].seen[b] = 0, ![r].left = @ - n]
    /\ UNCHANGED <<lines, delivery>>

\* A quantity below zero is refused after it was written.
AdjustBatchQuantity(b, n) ==
    /\ batch[b].state = "here"
    /\ Update(b, n)
    /\ UNCHANGED <<lines, delivery, request>>

\* Of several sources, or one below zero, the sum is not a number: the request
\* fails, and changes nothing.
FindSource(r, target, source) ==
    /\ request[r] = Idle
    /\ batch[source].state = "here" /\ batch[source].quantity >= 0
    /\ request' = [request EXCEPT ![r] = [pc |-> "merge", target |-> target, source |-> source,
                                          units |-> batch[source].quantity]]
    /\ UNCHANGED <<batch, lines, delivery>>

AddToTarget(r) ==
    /\ request[r].pc = "merge"
    /\ Update(request[r].target, request[r].units)
    /\ request' = [request EXCEPT ![r] = [pc |-> "delete", source |-> request[r].source]]
    /\ UNCHANGED <<lines, delivery>>

DeleteSource(r) ==
    /\ request[r].pc = "delete"
    /\ RowFree(request[r].source)
    /\ batch'   = [batch EXCEPT ![request[r].source] = [state |-> "gone", quantity |-> 0]]
    /\ request' = [request EXCEPT ![r] = Idle]
    /\ UNCHANGED <<lines, delivery>>

\* A deduction is done, or a request fails or breaks off: what it wrote stays.
RequestEnds(r) ==
    /\ request[r] # Idle
    /\ request' = [request EXCEPT ![r] = Idle]
    /\ UNCHANGED <<batch, lines, delivery>>

-----------------------------------------------------------------------------
DeliveryStep(d) ==
    \/ Begin(d) \/ AllLocked(d) \/ Commit(d) \/ RollBack(d)
    \/ \E b \in Batches : LockRow(d, b) \/ Take(d, b)

RequestStep(r) ==
    \/ \E b \in Batches, n \in 1..MaxUnits : FindBatch(r, b, n)
    \/ AddBatchInventory(r)
    \/ \E n \in 1..MaxUnits : GetProductBatchesForFIFO(r, n)
    \/ \E b \in Batches : DeductFromBatch(r, b)
    \/ \E target, source \in Batches : FindSource(r, target, source)
    \/ AddToTarget(r) \/ DeleteSource(r) \/ RequestEnds(r)

Next ==
    \/ \E d \in Deliveries : DeliveryStep(d)
    \/ \E r \in Requests : RequestStep(r)
    \/ \E b \in Batches, n \in Adjustments : AdjustBatchQuantity(b, n)

Spec == Init /\ [][Next]_vars

-----------------------------------------------------------------------------
TypeOK ==
    /\ batch    \in [Batches -> Row]
    /\ lines    \in [Deliveries -> Counts]
    /\ delivery \in [Deliveries -> Delivery]
    /\ request  \in [Requests -> Request]

Delivers(d) == delivery[d].pc # "done" /\ delivery'[d].pc = "done"

\* Although the batch routes work on the same rows without a lock, a delivery
\* never takes a unit that has gone meanwhile: it leaves no batch below zero,
\* and touches none that was merged away.
DeliveriesNeverOverdraw ==
    [][\A d \in Deliveries, b \in Batches :
           Delivers(d) /\ lines'[d][b] > 0 =>
               batch[b].state = "here" /\ batch'[b].quantity >= 0]_vars

\* A delivery takes from a batch only when it empties every batch it has locked
\* that expires earlier.
EarliestExpiringFirst ==
    [][\A d \in Deliveries : \A a, b \in Batches :
           Delivers(d) /\ a < b /\ lines'[d][b] > 0 /\ delivery[d].held[a] > 0 =>
               batch'[a].quantity = 0]_vars

\* The units of all batches together, of as many as count says of each.
InAll(count) == TotalOf(Batches, [b \in Batches |-> [units |-> count[b]]], "units", MaxUnits)

\* The lines of a delivery add up to what it needed; one that was rolled back,
\* however far it had come, has none.
LinesAddUp ==
    \A d \in Deliveries :
        InAll(lines[d]) = IF delivery[d].pc = "done" THEN Units[d] ELSE 0
=============================================================================
