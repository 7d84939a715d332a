--------------------------- MODULE MCMobileCheckout ---------------------------
(* MobileCheckout on a small instance: one telephone, two products. *)
EXTENDS MobileCheckout

CONSTANTS t1, s1, s2, f1

MCTwoSkus == {s1, s2}
=============================================================================
