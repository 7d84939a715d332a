------------------------------ MODULE MCAccounts ------------------------------
(* Accounts on small instances: two telephones and one Google account. *)
EXTENDS Accounts, TLC

CONSTANTS c1, c2, p1, p2, g1, j1, j2

MCTwoCalls  == {c1, c2}
MCTwoPhones == {p1, p2}

Symmetry == Permutations(MCTwoCalls) \cup Permutations(MCTwoPhones)
=============================================================================
