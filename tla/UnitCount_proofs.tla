-------------------------- MODULE UnitCount_proofs --------------------------
(***************************************************************************)
(* How a total over rows changes when one row joins or leaves: what the    *)
(* proofs about reservations and issued stock need of SUM(quantity).       *)
(***************************************************************************)
EXTENDS UnitCount, FiniteSetTheorems, TLAPS

\* A total over finitely many rows is a natural number.
LEMMA TotalIsNat ==
    ASSUME NEW R, IsFiniteSet(R), NEW q, NEW s, NEW M \in Nat
    PROVE  /\ IsFiniteSet(UnitsOf(R, q, s, M))
           /\ TotalOf(R, q, s, M) \in Nat
<1>1. IsFiniteSet(1..M)
  BY FS_Interval, 1 \in Int, M \in Int
<1>2. IsFiniteSet(R \X (1..M))
  BY <1>1, FS_Product
<1>3. IsFiniteSet(UnitsOf(R, q, s, M))
  BY <1>2, FS_Subset DEF UnitsOf
<1> QED
  BY <1>3, FS_CardinalityType DEF TotalOf

\* The rows' quantities are all that a total depends on.
LEMMA TotalCongruent ==
    ASSUME NEW R, NEW q, NEW p, NEW s, NEW M,
           \A r \in R : q[r][s] = p[r][s]
    PROVE  TotalOf(R, q, s, M) = TotalOf(R, p, s, M)
<1>1. UnitsOf(R, q, s, M) = UnitsOf(R, p, s, M)
  BY DEF UnitsOf
<1> QED
  BY <1>1 DEF TotalOf

\* A total over no rows is zero.
LEMMA TotalEmpty ==
    ASSUME NEW q, NEW s, NEW M
    PROVE  TotalOf({}, q, s, M) = 0
<1>1. UnitsOf({}, q, s, M) = {}
  BY DEF UnitsOf
<1> QED
  BY <1>1, FS_EmptySet DEF TotalOf

\* One more row adds exactly its quantity.
LEMMA TotalOneMore ==
    ASSUME NEW R, IsFiniteSet(R), NEW q, NEW s, NEW M \in Nat,
           NEW r, r \notin R, q[r][s] \in 0..M
    PROVE  TotalOf(R \cup {r}, q, s, M) = TotalOf(R, q, s, M) + q[r][s]
<1> DEFINE New == UnitsOf({r}, q, s, M)
           Old == UnitsOf(R, q, s, M)
<1>1. PICK n \in 0..M : n = q[r][s]
  OBVIOUS
<1>2. IsFiniteSet(New) /\ IsFiniteSet(Old)
  BY FS_Singleton, TotalIsNat
<1>3. Cardinality(New) = n
  <2>1. Cardinality(1..n) = IF 1 > n THEN 0 ELSE n - 1 + 1
    BY FS_Interval, 1 \in Int, n \in Int
  <2>2. IsFiniteSet(1..n) /\ Cardinality(1..n) = n
    BY <2>1, FS_Interval, 1 \in Int, n \in Int
  <2> DEFINE f == [i \in 1..n |-> <<r, i>>]
  <2>3. f \in Bijection(1..n, New)
    <3>1. \A i \in 1..n : <<r, i>> \in New
      BY <1>1 DEF UnitsOf
    <3>2. \A u \in New : u = <<r, u[2]>> /\ u[2] \in 1..n
      BY <1>1 DEF UnitsOf
    <3>3. f \in [1..n -> New]
      BY <3>1
    <3>4. \A i, j \in 1..n : f[i] = f[j] => i = j
      OBVIOUS
    <3>5. \A u \in New : \E i \in 1..n : f[i] = u
      BY <3>2
    <3> QED
      BY <3>3, <3>4, <3>5 DEF Bijection, Injection, Surjection, IsInjective
  <2>4. ExistsBijection(1..n, New)
    BY <2>3 DEF ExistsBijection
  <2> QED
    BY <2>2, <2>4, FS_Bijection
<1>4. UnitsOf(R \cup {r}, q, s, M) = Old \cup New
  BY DEF UnitsOf
<1>5. Old \cap New = {}
  BY DEF UnitsOf
<1>6. Cardinality(Old \cup New) = Cardinality(Old) + Cardinality(New) - 0
  <2>1. Cardinality(Old \cup New)
          = Cardinality(Old) + Cardinality(New) - Cardinality(Old \cap New)
    BY <1>2, FS_Union
  <2>2. Cardinality(Old \cap New) = 0
    BY <1>5, FS_EmptySet
  <2> QED
    BY <2>1, <2>2
<1>7. Cardinality(Old) \in Nat
  BY <1>2, FS_CardinalityType
<1>8. Cardinality(Old) + Cardinality(New) - 0 = Cardinality(Old) + n
  BY <1>3, <1>7
<1> QED
  BY <1>1, <1>4, <1>6, <1>8 DEF TotalOf

\* A row that leaves takes its quantity along, and was counted before.
LEMMA TotalOneLess ==
    ASSUME NEW R, IsFiniteSet(R), NEW q, NEW s, NEW M \in Nat,
           NEW r \in R, q[r][s] \in 0..M
    PROVE  /\ TotalOf(R, q, s, M) = TotalOf(R \ {r}, q, s, M) + q[r][s]
           /\ q[r][s] <= TotalOf(R, q, s, M)
<1>1. IsFiniteSet(R \ {r})
  BY FS_RemoveElement
<1>2. (R \ {r}) \cup {r} = R /\ r \notin R \ {r}
  OBVIOUS
<1>3. TotalOf((R \ {r}) \cup {r}, q, s, M) = TotalOf(R \ {r}, q, s, M) + q[r][s]
  BY <1>1, <1>2, TotalOneMore
<1>4. TotalOf(R \ {r}, q, s, M) \in Nat
  BY <1>1, TotalIsNat
<1>5. PICK n \in 0..M : n = q[r][s]
  OBVIOUS
<1>6. TotalOf(R, q, s, M) = TotalOf(R \ {r}, q, s, M) + n
  BY <1>2, <1>3, <1>5
<1> QED
  BY <1>4, <1>5, <1>6
=============================================================================
