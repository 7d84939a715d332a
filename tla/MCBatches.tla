------------------------------- MODULE MCBatches -------------------------------
(* Batches on a small instance. *)
EXTENDS Batches, TLC

CONSTANTS d1, d2, r1, r2

MCDeliveries  == {d1, d2}
MCRequests    == {r1, r2}
MCUnits       == [d \in MCDeliveries |-> 2]
MCAdjustments == {-1, 1}

Symmetry == Permutations(MCRequests) \cup Permutations(MCDeliveries)
=============================================================================
