--------------------------- MODULE MCCartCheckout ---------------------------
(* CartCheckout on small instances: one product with two units in stock. *)
EXTENDS CartCheckout, TLC

CONSTANTS q1, q2, q3, k1, k2, c1, c2, e1, e2, s1

MCTwoRequests == {q1, q2}
MCTwoKeys     == {k1, k2}
MCTwoCarts    == {c1, c2}
MCTwoEditors  == {e1, e2}

MCThreeRequests == {q1, q2, q3}

MCStock == [s \in Skus |-> 2]

Symmetry == Permutations(MCThreeRequests) \cup Permutations(MCTwoKeys)
                \cup Permutations(MCTwoCarts) \cup Permutations(MCTwoEditors)
=============================================================================
