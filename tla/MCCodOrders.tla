---------------------------- MODULE MCCodOrders ----------------------------
(* CodOrders on small instances: two orders and one sale compete for stock. *)
EXTENDS CodOrders, TLC

CONSTANTS k1, k2, x1

MCKeys  == {k1, k2}
MCSales == {x1}

KeySymmetry == Permutations(MCKeys)
=============================================================================
