----------------------------- MODULE MCLoyaltyMvp -----------------------------
(* LoyaltyMvp on a small instance: one customer with an order and two sales. *)
EXTENDS LoyaltyMvp, TLC

CONSTANTS c1, o1, x1, x2, t1, t2, r1, r2

MCSales  == {x1, x2}
MCTills  == {t1, t2}
MCClerks == {r1, r2}

MCCustomerOf == [s \in Sources |-> c1]
MCTotalOf    == [s \in Sources |-> IF s = o1 THEN 5 ELSE 2]

Symmetry == Permutations(MCSales) \cup Permutations(MCTills) \cup Permutations(MCClerks)
=============================================================================
