---------------------------- MODULE StockPromise ----------------------------
(***************************************************************************)
(* What the shop promises about the stock of every product at a store,     *)
(* whatever the orders, sales and transactions that realise it look like:  *)
(* units promised to web orders are physically on hand until they are      *)
(* handed over, counter sales never take promised units, and every unit    *)
(* that ever came in is either on hand or was issued.                      *)
(***************************************************************************)
EXTENDS Naturals

CONSTANT Skus            \* products, each at one store

VARIABLES onHand,        \* units in the batches
          promised,      \* units reserved for open web orders
          received,      \* units that ever came in
          issued         \* units that ever went out

vars == <<onHand, promised, received, issued>>

Init == /\ onHand   = [s \in Skus |-> 0]
        /\ promised = [s \in Skus |-> 0]
        /\ received = [s \in Skus |-> 0]
        /\ issued   = [s \in Skus |-> 0]

\* New units come in.
Receive == /\ \A s \in Skus : /\ onHand'[s] >= onHand[s]
                              /\ onHand'[s] + received[s] = onHand[s] + received'[s]
           /\ UNCHANGED <<promised, issued>>

\* Units on hand that nobody was promised are promised to an order.
Promise == /\ \A s \in Skus : promised'[s] \in promised[s]..onHand[s]
           /\ UNCHANGED <<onHand, received, issued>>

\* A promise is given up.
Release == /\ \A s \in Skus : promised'[s] \in 0..promised[s]
           /\ UNCHANGED <<onHand, received, issued>>

\* A promise is kept: the units leave the shop and are no longer promised.
Fulfil == /\ \A s \in Skus :
                /\ promised'[s] \in 0..promised[s]
                /\ issued'[s] + onHand'[s] = issued[s] + onHand[s]
                /\ onHand'[s] + promised[s] = onHand[s] + promised'[s]
          /\ UNCHANGED received

\* A counter sale takes units nobody was promised.
Sell == /\ \A s \in Skus : /\ onHand'[s] \in promised[s]..onHand[s]
                           /\ issued'[s] + onHand'[s] = issued[s] + onHand[s]
        /\ UNCHANGED <<promised, received>>

Next == Receive \/ Promise \/ Release \/ Fulfil \/ Sell

Spec == Init /\ [][Next]_vars
=============================================================================
