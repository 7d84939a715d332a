---------------------------- MODULE MCStockTxns ----------------------------
(* StockTxns on a small instance: two orders, a sale, two products. *)
EXTENDS StockTxns

CONSTANTS k1, k2, x1

MCTwoKeys == {k1, k2}
MCOneSale == {x1}
MCTwoSkus == {1, 2}
=============================================================================
