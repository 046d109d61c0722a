--------------------------- MODULE TotalsTheorems ---------------------------
(***************************************************************************)
(* Facts about the sum of a function with values in Nat.  They are what a   *)
(* reader would expect of a sum; the proofs count the units of Totals.      *)
(***************************************************************************)
EXTENDS Totals, FiniteSetTheorems, TLAPS

\* The units of one argument are counted by its value.
LEMMA ColumnCardinality ==
    ASSUME NEW d, NEW m \in Nat, NEW n \in Nat, m <= n
    PROVE  /\ IsFiniteSet({d} \X (m + 1 .. n))
           /\ Cardinality({d} \X (m + 1 .. n)) = n - m
<1>1. IsFiniteSet({d}) /\ Cardinality({d}) = 1
  BY FS_Singleton
<1>2. IsFiniteSet(m + 1 .. n) /\ Cardinality(m + 1 .. n) = n - m
  <2>1. m + 1 \in Int /\ n \in Int
    OBVIOUS
  <2>2. IsFiniteSet(m + 1 .. n)
    BY <2>1, FS_Interval
  <2>3. Cardinality(m + 1 .. n) = IF m + 1 > n THEN 0 ELSE n - (m + 1) + 1
    BY <2>1, FS_Interval
  <2>4. QED
    BY <2>2, <2>3
<1> DEFINE column == m + 1 .. n
<1>3. IsFiniteSet(column) /\ Cardinality(column) = n - m
  BY <1>2
<1> HIDE DEF column
<1>4. /\ IsFiniteSet({d} \X column)
      /\ Cardinality({d} \X column) = Cardinality({d}) * Cardinality(column)
  BY <1>1, <1>3, FS_Product, Zenon
<1>5. n - m \in Int
  OBVIOUS
<1>6. Cardinality({d}) * Cardinality(column) = n - m
  BY <1>1, <1>3, <1>5
<1>7. IsFiniteSet({d} \X column) /\ Cardinality({d} \X column) = n - m
  BY <1>4, <1>6
<1>8. QED
  BY <1>7 DEF column

\* A function with values in Nat on a finite domain has finitely many units, so
\* its sum is a natural number.
LEMMA TotalType ==
    ASSUME NEW D, IsFiniteSet(D), NEW f \in [D -> Nat]
    PROVE  IsFiniteSet(Units(f)) /\ Total(f) \in Nat
<1> DEFINE Column(d) == {d} \X (1 .. f[d])
           columns == {Column(d) : d \in D}
           g == [d \in D |-> Column(d)]
<1>1. IsFiniteSet(columns)
  <2>1. g \in Surjection(D, columns)
    BY DEF Surjection
  <2>2. QED
    BY <2>1, FS_Surjection
<1>2. ASSUME NEW T \in columns
      PROVE  IsFiniteSet(T)
  <2>1. PICK d \in D : T = {d} \X (0 + 1 .. f[d])
    OBVIOUS
  <2>2. f[d] \in Nat /\ 0 \in Nat /\ 0 <= f[d]
    OBVIOUS
  <2>3. QED
    BY <2>1, <2>2, ColumnCardinality
<1>3. IsFiniteSet(UNION columns)
  BY <1>1, <1>2, FS_UNION
<1>4. Units(f) = UNION columns
  BY DEF Units
<1>5. QED
  BY <1>3, <1>4, FS_CardinalityType DEF Total

\* A function that is zero everywhere has the sum zero.
LEMMA TotalZero ==
    ASSUME NEW D, NEW f \in [D -> Nat], \A d \in D : f[d] = 0
    PROVE  Total(f) = 0
<1>1. Units(f) = {}
  BY DEF Units
<1>2. QED
  BY <1>1, FS_EmptySet DEF Total

\* If g differs from f at one argument d only, which f may lack, the sum grows
\* by what d gains over m, its value before (zero if f lacks d).
LEMMA TotalGrows ==
    ASSUME NEW D, IsFiniteSet(D), NEW f \in [D -> Nat],
           NEW E, NEW g \in [E -> Nat], NEW d \in E, NEW m \in Nat,
           E = D \cup {d},
           \A x \in E : x # d => x \in D /\ g[x] = f[x],
           d \in D => f[d] = m,
           d \notin D => m = 0,
           m <= g[d]
    PROVE  Total(g) = Total(f) + (g[d] - m)
<1> DEFINE new == {d} \X (m + 1 .. g[d])
<1>1. IsFiniteSet(Units(f)) /\ Total(f) \in Nat
  BY TotalType
<1>2. g[d] \in Nat
  OBVIOUS
<1>3. IsFiniteSet(new) /\ Cardinality(new) = g[d] - m
  BY <1>2, ColumnCardinality
<1>4. Units(g) = Units(f) \cup new
  <2>1. ASSUME NEW u \in Units(g)
        PROVE  u \in Units(f) \cup new
    <3>1. PICK x \in E : u \in {x} \X (1 .. g[x])
      BY DEF Units
    <3>2. CASE x = d
      <4>1. PICK k \in 1 .. g[d] : u = <<d, k>>
        BY <3>1, <3>2
      <4>2. CASE k > m
        BY <4>1, <4>2, <1>2
      <4>3. CASE k <= m
        <5>1. d \in D /\ k \in 1 .. f[d]
          BY <4>3, <1>2
        <5>2. QED
          BY <4>1, <5>1 DEF Units
      <4>4. QED
        BY <4>2, <4>3, <1>2
    <3>3. CASE x # d
      BY <3>1, <3>3 DEF Units
    <3>4. QED
      BY <3>2, <3>3
  <2>2. ASSUME NEW u \in Units(f)
        PROVE  u \in Units(g)
    <3>1. PICK x \in D : u \in {x} \X (1 .. f[x])
      BY DEF Units
    <3>2. CASE x = d
      <4>1. PICK k \in 1 .. m : u = <<d, k>>
        BY <3>1, <3>2
      <4>2. k \in 1 .. g[d]
        BY <1>2
      <4>3. QED
        BY <4>1, <4>2 DEF Units
    <3>3. CASE x # d
      BY <3>1, <3>3 DEF Units
    <3>4. QED
      BY <3>2, <3>3
  <2>3. ASSUME NEW u \in new
        PROVE  u \in Units(g)
    <3>1. PICK k \in m + 1 .. g[d] : u = <<d, k>>
      OBVIOUS
    <3>2. k \in 1 .. g[d]
      BY <1>2
    <3>3. QED
      BY <3>1, <3>2 DEF Units
  <2>4. QED
    BY <2>1, <2>2, <2>3
<1>5. Units(f) \cap new = {}
  <2>1. SUFFICES ASSUME NEW u \in Units(f), u \in new
                 PROVE  FALSE
    OBVIOUS
  <2>2. PICK x \in D : \E k \in 1 .. f[x] : u = <<x, k>>
    BY DEF Units
  <2>3. PICK l \in m + 1 .. g[d] : u = <<d, l>>
    BY <2>1
  <2>4. x = d /\ l \in 1 .. f[x]
    BY <2>2, <2>3
  <2>5. QED
    BY <2>3, <2>4, <1>2
<1>6. Cardinality(Units(g)) =
         Cardinality(Units(f)) + Cardinality(new) - Cardinality(Units(f) \cap new)
  BY <1>1, <1>3, <1>4, FS_Union
<1>7. Cardinality(Units(f) \cap new) = 0
  BY <1>5, FS_EmptySet
<1>8. QED
  BY <1>1, <1>2, <1>3, <1>6, <1>7 DEF Total

\* The same when the domain stays: one value grows, and the sum with it.
LEMMA TotalAdds ==
    ASSUME NEW D, IsFiniteSet(D), NEW f \in [D -> Nat],
           NEW d \in D, NEW v \in Nat, f[d] <= v
    PROVE  Total([f EXCEPT ![d] = v]) = Total(f) + (v - f[d])
<1> DEFINE g == [f EXCEPT ![d] = v]
<1>1. g \in [D -> Nat] /\ g[d] = v /\ f[d] \in Nat
  OBVIOUS
<1>2. D = D \cup {d}
  OBVIOUS
<1>3. \A x \in D : x # d => x \in D /\ g[x] = f[x]
  OBVIOUS
<1>4. (d \in D => f[d] = f[d]) /\ (d \notin D => f[d] = 0)
  OBVIOUS
<1> HIDE DEF g
<1>5. Total(g) = Total(f) + (g[d] - f[d])
  BY <1>1, <1>2, <1>3, <1>4, TotalGrows
<1>6. QED
  BY <1>1, <1>5 DEF g

\* One value is at most the sum.
LEMMA TotalBounds ==
    ASSUME NEW D, IsFiniteSet(D), NEW f \in [D -> Nat], NEW d \in D
    PROVE  f[d] <= Total(f)
<1> DEFINE column == {d} \X (0 + 1 .. f[d])
<1>1. IsFiniteSet(Units(f))
  BY TotalType
<1>2. column \in SUBSET Units(f)
  BY DEF Units
<1>3. Cardinality(column) = f[d] - 0
  <2>1. f[d] \in Nat /\ 0 \in Nat /\ 0 <= f[d]
    OBVIOUS
  <2>2. QED
    BY <2>1, ColumnCardinality
<1>4. Cardinality(column) <= Cardinality(Units(f))
  BY <1>1, <1>2, FS_Subset
<1>5. f[d] \in Nat
  OBVIOUS
<1> HIDE DEF column
<1>6. QED
  BY <1>3, <1>4, <1>5 DEF Total

\* A transfer of a units from one argument to another keeps the sum.
LEMMA TotalMove ==
    ASSUME NEW D, IsFiniteSet(D), NEW f \in [D -> Nat], NEW g \in [D -> Nat],
           NEW i \in D, NEW j \in D, i # j, NEW a \in Nat, a <= f[i],
           g[i] = f[i] - a, g[j] = f[j] + a,
           \A x \in D : x # i /\ x # j => g[x] = f[x]
    PROVE  Total(g) = Total(f)
<1> DEFINE low == [f EXCEPT ![i] = f[i] - a]
<1>1. /\ low \in [D -> Nat] /\ low[i] = f[i] - a /\ low[j] = f[j]
      /\ f[i] \in Nat /\ g[j] \in Nat
      /\ low[i] <= f[i] /\ low[j] <= g[j]
  OBVIOUS
<1>2. f = [low EXCEPT ![i] = f[i]] /\ g = [low EXCEPT ![j] = g[j]]
  OBVIOUS
<1> HIDE DEF low
<1>3. Total(low) \in Nat
  BY <1>1, TotalType
<1>4. Total([low EXCEPT ![i] = f[i]]) = Total(low) + (f[i] - low[i])
  BY <1>1, TotalAdds
<1>5. Total([low EXCEPT ![j] = g[j]]) = Total(low) + (g[j] - low[j])
  BY <1>1, TotalAdds
<1>6. /\ Total([low EXCEPT ![i] = f[i]]) = Total(f)
      /\ Total([low EXCEPT ![j] = g[j]]) = Total(g)
  BY <1>2, Zenon
<1>7. f[i] - low[i] = a /\ g[j] - low[j] = a
  BY <1>1
<1>8. QED
  BY <1>3, <1>4, <1>5, <1>6, <1>7
=============================================================================
