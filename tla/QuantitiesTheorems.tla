------------------------- MODULE QuantitiesTheorems -------------------------
(***************************************************************************)
(* What the provers need to know of the weight of a set of rows.           *)
(***************************************************************************)
EXTENDS Quantities, FiniteSetTheorems, TLAPS

\* The kilograms of finitely many rows are finitely many: Load is a number.
LEMMA LoadType ==
    ASSUME NEW S, IsFiniteSet(S), NEW qty
    PROVE  /\ IsFiniteSet(Kilos(S, qty))
           /\ Load(S, qty) \in Nat
<1>1. IsFiniteSet(1 .. MaxQty)
  BY FS_Interval, MaxQtyAssumption
<1>2. IsFiniteSet(S \X (1 .. MaxQty))
  BY <1>1, FS_Product
<1>3. Kilos(S, qty) \in SUBSET (S \X (1 .. MaxQty))
  BY DEF Kilos
<1>4. IsFiniteSet(Kilos(S, qty))
  BY <1>2, <1>3, FS_Subset
<1> QED
  BY <1>4, FS_CardinalityType DEF Load

\* No rows weigh nothing.
LEMMA LoadEmpty ==
    ASSUME NEW qty
    PROVE  Load({}, qty) = 0
<1>1. Kilos({}, qty) = {}
  BY DEF Kilos
<1> QED
  BY <1>1, FS_EmptySet DEF Load

\* The weight of a set only depends on the quantities of its rows.
LEMMA LoadSame ==
    ASSUME NEW S, NEW f, NEW g, \A x \in S : f[x] = g[x]
    PROVE  Load(S, f) = Load(S, g)
<1>1. Kilos(S, f) = Kilos(S, g)
  BY DEF Kilos
<1> QED
  BY <1>1 DEF Load

\* Taking rows away takes their weight away.
LEMMA LoadDifference ==
    ASSUME NEW S, IsFiniteSet(S), NEW T, T \subseteq S, NEW qty
    PROVE  Load(S \ T, qty) = Load(S, qty) - Load(T, qty)
<1>1. Kilos(S \ T, qty) = Kilos(S, qty) \ Kilos(T, qty)
  BY DEF Kilos
<1>2. Kilos(S, qty) \cap Kilos(T, qty) = Kilos(T, qty)
  BY DEF Kilos
<1>3. IsFiniteSet(Kilos(S, qty))
  BY LoadType
<1>4. Cardinality(Kilos(S, qty) \ Kilos(T, qty))
        = Cardinality(Kilos(S, qty)) - Cardinality(Kilos(S, qty) \cap Kilos(T, qty))
  BY <1>3, FS_Difference
<1> QED
  BY <1>1, <1>2, <1>4 DEF Load

\* A single row weighs its quantity.
LEMMA LoadSingle ==
    ASSUME NEW b, NEW qty, qty[b] \in Quantity
    PROVE  Load({b}, qty) = qty[b]
<1> DEFINE f == [i \in 1 .. qty[b] |-> <<b, i>>]
<1>1. Kilos({b}, qty) = {<<b, i>> : i \in 1 .. qty[b]}
  <2>1. ASSUME NEW u \in Kilos({b}, qty)
        PROVE  u \in {<<b, i>> : i \in 1 .. qty[b]}
    <3>1. u \in {b} \X (1 .. MaxQty) /\ u[2] <= qty[u[1]]
      BY DEF Kilos
    <3>2. u = <<b, u[2]>> /\ u[2] \in 1 .. MaxQty /\ u[2] <= qty[b]
      BY <3>1
    <3> QED
      BY <3>2 DEF Quantity
  <2>2. ASSUME NEW i \in 1 .. qty[b]
        PROVE  <<b, i>> \in Kilos({b}, qty)
    <3>1. i \in 1 .. MaxQty /\ i <= qty[b]
      BY MaxQtyAssumption DEF Quantity
    <3>2. <<b, i>> \in {b} \X (1 .. MaxQty)
      BY <3>1
    <3>3. <<b, i>>[1] = b /\ <<b, i>>[2] = i
      OBVIOUS
    <3> QED
      BY <3>1, <3>2, <3>3 DEF Kilos
  <2> QED
    BY <2>1, <2>2
<1>2. f \in Bijection(1 .. qty[b], Kilos({b}, qty))
  <2>1. f \in [1 .. qty[b] -> Kilos({b}, qty)]
    BY <1>1
  <2>2. \A i, j \in 1 .. qty[b] : f[i] = f[j] => i = j
    OBVIOUS
  <2>3. \A u \in Kilos({b}, qty) : \E i \in 1 .. qty[b] : f[i] = u
    BY <1>1
  <2> QED
    BY <2>1, <2>2, <2>3 DEF Bijection, Injection, Surjection, IsInjective
<1>3. ExistsBijection(1 .. qty[b], Kilos({b}, qty))
  BY <1>2 DEF ExistsBijection
<1>4. IsFiniteSet(1 .. qty[b]) /\ Cardinality(1 .. qty[b]) = qty[b]
  BY FS_Interval DEF Quantity
<1> QED
  BY <1>3, <1>4, FS_Bijection DEF Load

\* One more row adds its quantity.
LEMMA LoadAdd ==
    ASSUME NEW S, IsFiniteSet(S), NEW b, b \notin S, NEW qty, qty[b] \in Quantity
    PROVE  Load(S \cup {b}, qty) = Load(S, qty) + qty[b]
<1>1. IsFiniteSet(S \cup {b})
  BY FS_AddElement
<1>2. (S \cup {b}) \ {b} = S
  OBVIOUS
<1>3. Load(S, qty) = Load(S \cup {b}, qty) - Load({b}, qty)
  BY <1>1, <1>2, LoadDifference
<1>4. Load({b}, qty) = qty[b]
  BY LoadSingle
<1>5. Load(S \cup {b}, qty) \in Nat /\ qty[b] \in Int
  BY <1>1, LoadType, MaxQtyAssumption DEF Quantity
<1> QED
  BY <1>3, <1>4, <1>5

\* A subset weighs no more.
LEMMA LoadMonotone ==
    ASSUME NEW S, IsFiniteSet(S), NEW T, T \subseteq S, NEW qty
    PROVE  Load(T, qty) <= Load(S, qty)
<1>1. Kilos(T, qty) \in SUBSET Kilos(S, qty)
  BY DEF Kilos
<1> QED
  BY <1>1, LoadType, FS_Subset DEF Load

\* Rows weigh at most as many times the most that one can.
LEMMA LoadBound ==
    ASSUME NEW S, IsFiniteSet(S), NEW qty
    PROVE  Load(S, qty) <= MaxQty * Cardinality(S)
<1>1. IsFiniteSet(1 .. MaxQty) /\ Cardinality(1 .. MaxQty) = MaxQty
  BY FS_Interval, MaxQtyAssumption
<1>2. /\ IsFiniteSet(S \X (1 .. MaxQty))
      /\ Cardinality(S \X (1 .. MaxQty)) = Cardinality(S) * MaxQty
  BY <1>1, FS_Product
<1>3. Kilos(S, qty) \in SUBSET (S \X (1 .. MaxQty))
  BY DEF Kilos
<1>4. Cardinality(Kilos(S, qty)) <= Cardinality(S \X (1 .. MaxQty))
  BY <1>2, <1>3, FS_Subset
<1>5. Cardinality(S) \in Nat
  BY FS_CardinalityType
<1>6. Cardinality(S) * MaxQty = MaxQty * Cardinality(S)
  BY <1>5, MaxQtyAssumption
<1> QED
  BY <1>2, <1>4, <1>6 DEF Load

\* A row whose quantity changes moves the weight by the difference.
LEMMA LoadReplace ==
    ASSUME NEW S, IsFiniteSet(S), NEW b \in S, NEW f, NEW g,
           \A x \in S \ {b} : f[x] = g[x], f[b] \in Quantity, g[b] \in Quantity
    PROVE  Load(S, g) = Load(S, f) - f[b] + g[b]
<1> DEFINE T == S \ {b}
<1>1. IsFiniteSet(T) /\ b \notin T /\ T \cup {b} = S
  BY FS_RemoveElement
<1>2. Load(T, f) = Load(T, g)
  BY LoadSame
<1>3. Load(S, f) = Load(T, f) + f[b] /\ Load(S, g) = Load(T, g) + g[b]
  <2> HIDE DEF T
  <2> QED
    BY <1>1, LoadAdd
<1>4. Load(T, f) \in Nat /\ f[b] \in Int /\ g[b] \in Int
  BY <1>1, LoadType, MaxQtyAssumption DEF Quantity
<1> QED
  BY <1>2, <1>3, <1>4
=============================================================================
