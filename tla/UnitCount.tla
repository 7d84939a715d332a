----------------------------- MODULE UnitCount -----------------------------
(***************************************************************************)
(* Totals of quantities over rows, as the SQL SUM(quantity) of the backend *)
(* computes them.  Rows are orders, sales or reservations; the quantity of *)
(* a row for a product is a whole number between 0 and MaxQty.  A total is *)
(* written as the number of units the rows stand for, so that the theorems *)
(* about the cardinality of finite sets apply to it.                       *)
(***************************************************************************)
EXTENDS Naturals, FiniteSets

\* The units of product s that the rows in R stand for, q[r][s] per row.
UnitsOf(R, q, s, MaxQty) ==
    {u \in R \X (1..MaxQty) : u[2] <= q[u[1]][s]}

\* SUM(quantity) over the rows R for product s.
TotalOf(R, q, s, MaxQty) == Cardinality(UnitsOf(R, q, s, MaxQty))
=============================================================================
