----------------------------- MODULE ShardProofs ----------------------------
(***************************************************************************)
(* Proofs about HetTp and ShardLoad, for any number of ranks, any layer,   *)
(* weights, packs, groups, padding and tile.  Three layers of facts:       *)
(*   - the largest-remainder split hands out every tile once and never     *)
(*     less to the heavier rank, whichever way equal remainders fall;      *)
(*   - so the cuts cover the dimension, and a shard that passes the        *)
(*     loaders' checks is the interval between two cuts, in whole units;   *)
(*   - while a rank loads, each tensor that is no longer awaited is in its *)
(*     slots (Filled): that, the shapes of the parameters and the layer    *)
(*     make the inductive invariant.                                       *)
(***************************************************************************)
EXTENDS ShardLoad, DataLemmas, FunctionTheorems

-----------------------------------------------------------------------------
(* Sums *)

\* Sum is what its definition says.
LEMMA SumSteps ==
    ASSUME NEW n \in Nat, NEW f, \A i \in 0..n-1 : f[i] \in Int
    PROVE  /\ Sum(0, f) = 0
           /\ \A m \in 0..n : Sum(m, f) \in Int
           /\ \A m \in 0..n-1 : Sum(m + 1, f) = Sum(m, f) + f[m]
<1>. DEFINE body(m, g) == [i \in 0..m |-> IF i = 0 THEN 0 ELSE g[i-1] + f[i-1]]
            S(m) == CHOOSE g : g = body(m, g)
            F(m) == [i \in 1..m |-> f[i-1]]
<1>1. ASSUME NEW m \in 0..n
      PROVE  /\ Sum(m, f) = S(m)[m]
             /\ S(m)[0] = 0 /\ \A i \in 0..m : S(m)[i] \in Int
             /\ \A i \in 1..m : S(m)[i] = S(m)[i-1] + f[i-1]
  <2>1. m \in Nat /\ F(m) \in [1..m -> Int]
    OBVIOUS
  <2>2. /\ Sums(F(m), m) \in [0..m -> Int]
        /\ Sums(F(m), m)[0] = 0
        /\ \A i \in 1..m : Sums(F(m), m)[i] = Sums(F(m), m)[i-1] + F(m)[i]
    <3>. HIDE DEF F
    <3>. QED BY <2>1, SumsExist
  <2>3. ASSUME NEW g PROVE body(m, g) = [i \in 0..m |-> IF i = 0 THEN 0 ELSE g[i-1] + F(m)[i]]
    <3>1. ASSUME NEW i \in 0..m, i # 0 PROVE f[i-1] = F(m)[i]
      BY <3>1
    <3>. HIDE DEF F
    <3>. QED BY <3>1
  <2>4. S(m) = Sums(F(m), m)
    <3>. HIDE DEF F
    <3>. QED BY <2>3 DEF Sums
  <2>5. \A i \in 1..m : F(m)[i] = f[i-1]
    OBVIOUS
  <2>6. Sum(m, f) = S(m)[m]
    BY DEF Sum
  <2>. HIDE DEF F, S
  <2>. QED BY <2>2, <2>4, <2>5, <2>6
<1>. HIDE DEF S
<1>2. Sum(0, f) = 0
  BY <1>1
<1>3. \A m \in 0..n : Sum(m, f) \in Int
  BY <1>1
<1>4. ASSUME NEW m \in 0..n-1 PROVE Sum(m + 1, f) = Sum(m, f) + f[m]
  <2>. DEFINE R == {k \in 0..m : S(m + 1)[k] = S(m)[k]}
  <2>1. m \in 0..n /\ m + 1 \in 0..n /\ (m + 1) - 1 = m /\ m + 1 \in 1..m+1
    OBVIOUS
  <2>2. 0 \in R
    BY <1>1, <2>1
  <2>3. ASSUME NEW k \in 0..m-1, k \in R PROVE k + 1 \in R
    <3>1. k + 1 \in 1..m /\ k + 1 \in 1..m+1 /\ (k + 1) - 1 = k
      OBVIOUS
    <3>. QED BY <1>1, <2>1, <2>3, <3>1
  <2>4. m \in R
    <3>. HIDE DEF R
    <3>1. 0..m \subseteq R
      BY <2>2, <2>3, Reach
    <3>. QED BY <3>1
  <2>5. S(m + 1)[m + 1] = S(m + 1)[m] + f[m]
    BY <1>1, <2>1
  <2>. QED BY <1>1, <2>1, <2>4, <2>5
<1>. QED BY <1>2, <1>3, <1>4

\* Sums of terms that are equal are equal.
LEMMA SumSame ==
    ASSUME NEW n \in Nat, NEW f, NEW g, \A i \in 0..n-1 : f[i] \in Int /\ g[i] = f[i]
    PROVE  Sum(n, f) = Sum(n, g)
<1>. DEFINE R == {m \in 0..n : Sum(m, f) = Sum(m, g)}
<1>1. /\ Sum(0, f) = 0 /\ Sum(0, g) = 0
      /\ \A m \in 0..n-1 : Sum(m + 1, f) = Sum(m, f) + f[m] /\ Sum(m + 1, g) = Sum(m, g) + g[m]
  BY SumSteps
<1>2. 0 \in R
  BY <1>1
<1>3. ASSUME NEW m \in 0..n-1, m \in R PROVE m + 1 \in R
  BY <1>1, <1>3
<1>4. n \in R
  <2>. HIDE DEF R
  <2>1. 0..n \subseteq R
    BY <1>2, <1>3, Reach
  <2>. QED BY <2>1
<1>. QED BY <1>4

\* The sum of sums.
LEMMA SumOfTwo ==
    ASSUME NEW n \in Nat, NEW f, NEW g, NEW h,
           \A i \in 0..n-1 : f[i] \in Int /\ g[i] \in Int /\ h[i] = f[i] + g[i]
    PROVE  Sum(n, h) = Sum(n, f) + Sum(n, g)
<1>. DEFINE R == {m \in 0..n : Sum(m, h) = Sum(m, f) + Sum(m, g)}
<1>1. /\ Sum(0, f) = 0 /\ Sum(0, g) = 0
      /\ \A m \in 0..n : Sum(m, f) \in Int /\ Sum(m, g) \in Int
      /\ \A m \in 0..n-1 : Sum(m + 1, f) = Sum(m, f) + f[m] /\ Sum(m + 1, g) = Sum(m, g) + g[m]
  BY SumSteps
<1>2. Sum(0, h) = 0 /\ \A m \in 0..n-1 : Sum(m + 1, h) = Sum(m, h) + h[m]
  <2>1. \A i \in 0..n-1 : h[i] \in Int
    OBVIOUS
  <2>. QED BY <2>1, SumSteps
<1>3. 0 \in R
  BY <1>1, <1>2
<1>4. ASSUME NEW m \in 0..n-1, m \in R PROVE m + 1 \in R
  <2>1. m \in 0..n /\ Sum(m, h) = Sum(m, f) + Sum(m, g) /\ f[m] \in Int /\ g[m] \in Int
        /\ h[m] = f[m] + g[m]
    BY <1>4
  <2>2. Sum(m + 1, h) = Sum(m + 1, f) + Sum(m + 1, g)
    BY <1>1, <1>2, <2>1
  <2>. QED BY <2>2
<1>5. n \in R
  <2>. HIDE DEF R
  <2>1. 0..n \subseteq R
    BY <1>3, <1>4, Reach
  <2>. QED BY <2>1
<1>. QED BY <1>5

\* A common factor.
Times(n, a, f, h) == \A i \in 0..n-1 : f[i] \in Int /\ h[i] = a * f[i]

LEMMA SumTimes ==
    ASSUME NEW n \in Nat, NEW a \in Int, NEW f, NEW h, Times(n, a, f, h)
    PROVE  Sum(n, h) = a * Sum(n, f)
<1>. USE DEF Times
<1>. DEFINE R == {m \in 0..n : Sum(m, h) = a * Sum(m, f)}
<1>1. /\ Sum(0, f) = 0 /\ \A m \in 0..n : Sum(m, f) \in Int
      /\ \A m \in 0..n-1 : Sum(m + 1, f) = Sum(m, f) + f[m]
  BY SumSteps
<1>2. Sum(0, h) = 0 /\ \A m \in 0..n-1 : Sum(m + 1, h) = Sum(m, h) + h[m]
  <2>1. \A i \in 0..n-1 : h[i] \in Int
    OBVIOUS
  <2>. QED BY <2>1, SumSteps
<1>3. 0 \in R
  BY <1>1, <1>2
<1>4. ASSUME NEW m \in 0..n-1, m \in R PROVE m + 1 \in R
  <2>1. m \in 0..n /\ Sum(m, h) = a * Sum(m, f) /\ f[m] \in Int /\ h[m] = a * f[m]
        /\ Sum(m, f) \in Int
    BY <1>1, <1>4
  <2>2. \A x, y \in Int : a * (x + y) = a * x + a * y
    OBVIOUS
  <2>3. Sum(m + 1, h) = a * Sum(m, f) + a * f[m] /\ Sum(m + 1, f) = Sum(m, f) + f[m]
    BY <1>1, <1>2, <2>1
  <2>4. Sum(m + 1, h) = a * Sum(m + 1, f)
    BY <2>1, <2>2, <2>3
  <2>. QED BY <2>4
<1>5. n \in R
  <2>. HIDE DEF R
  <2>1. 0..n \subseteq R
    BY <1>3, <1>4, Reach
  <2>. QED BY <2>1
<1>. QED BY <1>5

\* Terms between bounds have a sum between bounds.
LEMMA SumBounds ==
    ASSUME NEW n \in Nat, NEW a \in Int, NEW b \in Int, NEW f,
           \A i \in 0..n-1 : f[i] \in a..b
    PROVE  a * n <= Sum(n, f) /\ Sum(n, f) <= b * n
<1>. DEFINE R == {m \in 0..n : a * m <= Sum(m, f) /\ Sum(m, f) <= b * m}
<1>1. /\ Sum(0, f) = 0 /\ \A m \in 0..n : Sum(m, f) \in Int
      /\ \A m \in 0..n-1 : Sum(m + 1, f) = Sum(m, f) + f[m]
  <2>1. \A i \in 0..n-1 : f[i] \in Int
    OBVIOUS
  <2>. QED BY <2>1, SumSteps
<1>2. 0 \in R
  BY <1>1
<1>3. ASSUME NEW m \in 0..n-1, m \in R PROVE m + 1 \in R
  <2>1. /\ m \in 0..n /\ Sum(m, f) \in Int /\ Sum(m + 1, f) = Sum(m, f) + f[m]
        /\ a * m <= Sum(m, f) /\ Sum(m, f) <= b * m
        /\ f[m] \in Int /\ a <= f[m] /\ f[m] <= b
    BY <1>1, <1>3
  <2>2. a * (m + 1) = a * m + a /\ b * (m + 1) = b * m + b /\ a * m \in Int /\ b * m \in Int
    BY <2>1
  <2>. DEFINE x == a * m
              y == b * m
              z == a * (m + 1)
              w == b * (m + 1)
  <2>3. z = x + a /\ w = y + b /\ x \in Int /\ y \in Int /\ x <= Sum(m, f) /\ Sum(m, f) <= y
    BY <2>1, <2>2
  <2>. HIDE DEF x, y, z, w
  <2>4. z <= Sum(m + 1, f) /\ Sum(m + 1, f) <= w
    BY <2>1, <2>3
  <2>. QED BY <2>4 DEF z, w
<1>4. n \in R
  <2>. HIDE DEF R
  <2>1. 0..n \subseteq R
    BY <1>2, <1>3, Reach
  <2>. QED BY <2>1
<1>. QED BY <1>4

\* One for each index of a set counts the set.
LEMMA SumCounts ==
    ASSUME NEW n \in Nat, NEW C \in SUBSET (0..n-1), NEW f,
           \A i \in 0..n-1 : f[i] = IF i \in C THEN 1 ELSE 0
    PROVE  Sum(n, f) = Cardinality(C)
<1>. DEFINE Below(m) == C \cap (0..m-1)
            R == {m \in 0..n : Sum(m, f) = Cardinality(Below(m))}
<1>0. \A i \in C : i \in Int /\ 0 <= i /\ i < n
  <2>1. C \subseteq 0..n-1
    OBVIOUS
  <2>. QED BY <2>1
<1>1. /\ Sum(0, f) = 0 /\ \A m \in 0..n : Sum(m, f) \in Int
      /\ \A m \in 0..n-1 : Sum(m + 1, f) = Sum(m, f) + f[m]
  <2>1. \A i \in 0..n-1 : f[i] \in Int
    OBVIOUS
  <2>. QED BY <2>1, SumSteps
<1>2. 0 \in R
  <2>1. Below(0) = {}
    BY <1>0
  <2>. HIDE DEF Below
  <2>. QED BY <1>1, <2>1, FS_EmptySet
<1>3. ASSUME NEW m \in 0..n-1, m \in R PROVE m + 1 \in R
  <2>1. m \in 0..n /\ m + 1 \in 0..n /\ Sum(m, f) = Cardinality(Below(m))
        /\ Sum(m + 1, f) = Sum(m, f) + f[m]
    BY <1>1, <1>3
  <2>2. IsFiniteSet(Below(m)) /\ m \notin Below(m) /\ Cardinality(Below(m)) \in Nat
    <3>1. Below(m) \in SUBSET (0..n-1) /\ m \notin Below(m)
      BY <1>0
    <3>2. IsFiniteSet(0..n-1)
      BY FS_Interval
    <3>. HIDE DEF Below
    <3>. QED BY <3>1, <3>2, FS_Subset, FS_CardinalityType
  <2>3. CASE m \in C
    <3>1. Below(m + 1) = Below(m) \cup {m}
      BY <1>0, <2>3
    <3>. HIDE DEF Below
    <3>2. Cardinality(Below(m + 1)) = Cardinality(Below(m)) + 1
      BY <2>2, <3>1, FS_AddElement
    <3>3. f[m] = 1
      BY <2>3
    <3>. QED BY <2>1, <2>2, <3>2, <3>3
  <2>4. CASE m \notin C
    <3>1. Below(m + 1) = Below(m)
      BY <1>0, <2>4
    <3>. HIDE DEF Below
    <3>2. f[m] = 0
      BY <2>4
    <3>. QED BY <2>1, <2>2, <3>1, <3>2
  <2>. QED BY <2>3, <2>4
<1>4. n \in R
  <2>. HIDE DEF R
  <2>1. 0..n \subseteq R
    BY <1>2, <1>3, Reach
  <2>. QED BY <2>1
<1>5. Below(n) = C
  BY <1>0
<1>. HIDE DEF Below
<1>. QED BY <1>4, <1>5

\* Terms that are not negative have such a sum, and no term exceeds it.
LEMMA SumNat ==
    ASSUME NEW n \in Nat, NEW f, \A i \in 0..n-1 : f[i] \in Int /\ f[i] >= 0
    PROVE  /\ Sum(n, f) >= 0
           /\ \A i \in 0..n, j \in 0..n : i <= j => Sum(i, f) <= Sum(j, f)
<1>1. /\ Sum(0, f) = 0 /\ \A m \in 0..n : Sum(m, f) \in Int
      /\ \A m \in 0..n-1 : Sum(m + 1, f) = Sum(m, f) + f[m]
  BY SumSteps
<1>2. ASSUME NEW i \in 0..n PROVE \A j \in 0..n : i <= j => Sum(i, f) <= Sum(j, f)
  <2>. DEFINE R == {m \in 0..n : i <= m => Sum(i, f) <= Sum(m, f)}
  <2>1. 0 \in R
    BY <1>1
  <2>2. ASSUME NEW m \in 0..n-1, m \in R PROVE m + 1 \in R
    <3>1. m \in 0..n /\ m + 1 \in 0..n /\ f[m] \in Int /\ f[m] >= 0
          /\ (i <= m => Sum(i, f) <= Sum(m, f))
      BY <2>2
    <3>2. Sum(m + 1, f) = Sum(m, f) + f[m] /\ Sum(m, f) \in Int /\ Sum(i, f) \in Int
      BY <1>1, <3>1
    <3>3. CASE i <= m
      BY <3>1, <3>2, <3>3
    <3>4. CASE i = m + 1
      BY <3>1, <3>2, <3>4
    <3>5. CASE i > m + 1
      BY <3>1, <3>5
    <3>. QED BY <3>1, <3>3, <3>4, <3>5
  <2>3. 0..n \subseteq R
    <3>. HIDE DEF R
    <3>. QED BY <2>1, <2>2, Reach
  <2>. QED BY <2>3
<1>3. Sum(n, f) >= 0
  <2>1. 0 \in 0..n /\ n \in 0..n /\ 0 <= n
    OBVIOUS
  <2>. QED BY <1>1, <1>2, <2>1
<1>. QED BY <1>2, <1>3

-----------------------------------------------------------------------------
(* The split of a dimension: how many tiles are left over, and who gets them *)

\* In a strict order of n indices, m of them have fewer than m ahead of them.
LEMMA FirstOnes ==
    ASSUME NEW n \in Nat, NEW A \in [0..n-1 -> SUBSET (0..n-1)],
           \A i \in 0..n-1 : i \notin A[i],
           \A i, j \in 0..n-1 : i # j => i \in A[j] \/ j \in A[i],
           \A i, j \in 0..n-1 : i \in A[j] => A[i] \subseteq A[j],
           NEW m \in 0..n
    PROVE  Cardinality({i \in 0..n-1 : Cardinality(A[i]) < m}) = m
<1>. DEFINE S == 0..n-1
            P == [i \in S |-> Cardinality(A[i])]
            C == {i \in S : Cardinality(A[i]) < m}
            Q == [i \in C |-> P[i]]
<1>1. IsFiniteSet(S) /\ Cardinality(S) = n
  BY FS_Interval
<1>. HIDE DEF S
<1>2. ASSUME NEW i \in S
      PROVE  /\ IsFiniteSet(A[i]) /\ Cardinality(A[i]) \in Nat /\ Cardinality(A[i]) < n
  <2>1. A[i] \in SUBSET (S \ {i})
    BY DEF S
  <2>2. IsFiniteSet(S \ {i}) /\ Cardinality(S \ {i}) = n - 1
    BY <1>1, FS_RemoveElement
  <2>3. IsFiniteSet(A[i]) /\ Cardinality(A[i]) <= n - 1
    BY <2>1, <2>2, FS_Subset
  <2>4. Cardinality(A[i]) \in Nat
    BY <2>3, FS_CardinalityType
  <2>. QED BY <2>3, <2>4
<1>3. ASSUME NEW i \in S, NEW j \in S, i \in A[j] PROVE Cardinality(A[i]) < Cardinality(A[j])
  <2>1. A[i] \cup {i} \in SUBSET A[j] /\ i \notin A[i]
    BY <1>3 DEF S
  <2>2. Cardinality(A[i] \cup {i}) = Cardinality(A[i]) + 1
    BY <1>2, <2>1, FS_AddElement
  <2>3. Cardinality(A[i] \cup {i}) <= Cardinality(A[j])
    BY <1>2, <2>1, FS_Subset
  <2>. QED BY <1>2, <2>2, <2>3
<1>4. P \in [S -> S]
  BY <1>2 DEF S
<1>5. \A i, j \in S : P[i] = P[j] => i = j
  <2>. SUFFICES ASSUME NEW i \in S, NEW j \in S, i # j PROVE P[i] # P[j]
    OBVIOUS
  <2>1. i \in A[j] \/ j \in A[i]
    BY DEF S
  <2>. QED BY <1>2, <1>3, <2>1
<1>6. P \in Surjection(S, S)
  <2>1. P \in Injection(S, S)
    BY <1>4, <1>5 DEF Injection, IsInjective
  <2>. HIDE DEF P
  <2>. QED BY <1>1, <2>1, FS_Injection
<1>7. \A y \in S : \E i \in S : P[i] = y
  <2>. HIDE DEF P
  <2>. QED BY <1>6 DEF Surjection
<1>8. C \in SUBSET S
  OBVIOUS
<1>9. \A i \in S : i \in C <=> P[i] \in 0..m-1
  BY <1>2
<1>10. 0..m-1 \subseteq S
  BY DEF S
<1>. HIDE DEF P, C
<1>11. Q \in [C -> 0..m-1]
  BY <1>8, <1>9
<1>12. Q \in Surjection(C, 0..m-1)
  <2>1. \A y \in 0..m-1 : \E i \in C : Q[i] = y
    BY <1>7, <1>9, <1>10
  <2>. HIDE DEF Q
  <2>. QED BY <1>11, <2>1 DEF Surjection
<1>13. Q \in Injection(C, 0..m-1)
  <2>1. \A i, j \in C : Q[i] = Q[j] => i = j
    BY <1>5, <1>8
  <2>. HIDE DEF Q
  <2>. QED BY <1>11, <2>1 DEF Injection, IsInjective
<1>14. IsFiniteSet(C)
  BY <1>1, <1>8, FS_Subset
<1>15. Cardinality(0..m-1) = Cardinality(C)
  <2>. HIDE DEF Q
  <2>. QED BY <1>12, <1>13, <1>14, FS_Surjection
<1>16. Cardinality(0..m-1) = m
  BY FS_Interval
<1>. QED BY <1>15, <1>16 DEF C, S

-----------------------------------------------------------------------------
\* The weights that are used: one for each of the ranks, none of them zero.
IsWeights(w) == w \in Seq(Int) /\ Len(w) >= 1 /\ \A i \in 1..Len(w) : w[i] > 0

\* bias tells the ranks apart.
IsOrder(bias, n) ==
    /\ \A i \in 0..n-1 : bias[i] \in Int
    /\ \A i, j \in 0..n-1 : bias[i] = bias[j] => i = j

WeightSum(w) == Sum(Len(w), [k \in Parts(w) |-> w[k+1]])

Left(units, w) == units - Sum(Len(w), [k \in Parts(w) |-> Whole(units, w, WeightSum(w), k)])

\* The weights add up to something.
LEMMA WeightsAdd ==
    ASSUME NEW w, IsWeights(w)
    PROVE  /\ Len(w) \in Nat /\ Len(w) >= 1
           /\ \A k \in Parts(w) : w[k+1] \in Nat /\ w[k+1] >= 1
           /\ WeightSum(w) \in Nat /\ WeightSum(w) >= 1
<1>. DEFINE n == Len(w)
            f == [k \in Parts(w) |-> w[k+1]]
<1>1. n \in Nat /\ n >= 1 /\ Parts(w) = 0..n-1
  BY DEF IsWeights, Parts
<1>2. ASSUME NEW k \in Parts(w) PROVE w[k+1] \in Nat /\ w[k+1] >= 1
  <2>1. k + 1 \in 1..Len(w)
    BY <1>1
  <2>. QED BY <2>1 DEF IsWeights
<1>3. ASSUME NEW k \in 0..n-1 PROVE f[k] \in Int /\ f[k] >= 1
  <2>1. k \in Parts(w)
    BY <1>1
  <2>. QED BY <1>2, <2>1
<1>. HIDE DEF f, n
<1>4. Sum(n, f) \in Int
  <2>1. n \in 0..n
    BY <1>1
  <2>. QED BY <1>1, <1>3, <2>1, SumSteps
<1>5. Sum(n, f) >= 1
  <2>. DEFINE g == [k \in 0..n-1 |-> f[k] - 1]
              u == [k \in 0..n-1 |-> 1]
  <2>1. \A k \in 0..n-1 : g[k] \in Int /\ g[k] >= 0 /\ u[k] \in 1..1 /\ u[k] \in Int
                           /\ f[k] = g[k] + u[k]
    BY <1>3
  <2>. HIDE DEF g, u
  <2>2. Sum(n, f) = Sum(n, g) + Sum(n, u)
    BY <1>1, <2>1, SumOfTwo
  <2>3. Sum(n, u) >= 1
    <3>. DEFINE C == 0..n-1
    <3>1. C \in SUBSET (0..n-1) /\ \A k \in 0..n-1 : u[k] = IF k \in C THEN 1 ELSE 0
      BY <2>1
    <3>2. Cardinality(C) = n
      BY <1>1, FS_Interval
    <3>. HIDE DEF C
    <3>. QED BY <1>1, <3>1, <3>2, SumCounts
  <2>4. Sum(n, g) >= 0
    BY <1>1, <2>1, SumNat
  <2>5. Sum(n, g) \in Int /\ Sum(n, u) \in Int
    <3>1. n \in 0..n
      BY <1>1
    <3>. QED BY <1>1, <2>1, <3>1, SumSteps
  <2>. QED BY <2>2, <2>3, <2>4, <2>5
<1>. QED BY <1>1, <1>2, <1>4, <1>5 DEF WeightSum, f, n

\* The whole parts leave fewer tiles over than there are ranks.
LEMMA FewLeft ==
    ASSUME NEW w, IsWeights(w), NEW units \in Nat
    PROVE  /\ Left(units, w) \in 0..Len(w)-1
           /\ \A k \in Parts(w) : Whole(units, w, WeightSum(w), k) \in Nat
<1>. DEFINE n == Len(w)
            W == WeightSum(w)
            f == [k \in Parts(w) |-> w[k+1]]
            q == [k \in Parts(w) |-> Whole(units, w, W, k)]
            r == [k \in Parts(w) |-> Rest(units, w, W, k)]
            wq == [k \in Parts(w) |-> W * q[k]]
            uw == [k \in Parts(w) |-> units * f[k]]
<1>1. /\ n \in Nat /\ n >= 1 /\ W \in Nat /\ W >= 1 /\ Parts(w) = 0..n-1
      /\ \A k \in 0..n-1 : f[k] \in Nat
  BY WeightsAdd DEF Parts
<1>2. ASSUME NEW k \in 0..n-1
      PROVE  /\ q[k] \in Nat /\ r[k] \in 0..W-1
             /\ units * f[k] = W * q[k] + r[k]
  <2>1. f[k] = w[k+1] /\ f[k] \in Nat
    BY <1>1
  <2>2. units * f[k] \in Nat
    BY <2>1
  <2>3. q[k] = (units * f[k]) \div W /\ r[k] = (units * f[k]) % W
    BY <1>1, <2>1 DEF Whole, Rest
  <2>4. W \in Nat \ {0}
    BY <1>1
  <2>. DEFINE a == units * f[k]
              x == q[k]
              y == r[k]
  <2>5. a \in Nat /\ x = a \div W /\ y = a % W
    BY <2>2, <2>3
  <2>. HIDE DEF a, x, y, W
  <2>6. a = W * x + y /\ y \in 0..W-1 /\ x \in Nat
    BY <2>4, <2>5, Division
  <2>. QED BY <2>6 DEF a, x, y
<1>3. /\ \A k \in 0..n-1 : wq[k] = W * q[k] /\ uw[k] = units * f[k]
      /\ W = Sum(n, f) /\ Left(units, w) = units - Sum(n, q)
  BY <1>1 DEF WeightSum, Left
<1>. HIDE DEF q, r, f, W, wq, uw, n
<1>4. \A k \in 0..n-1 : wq[k] \in Int /\ uw[k] = wq[k] + r[k] /\ r[k] \in Int /\ q[k] \in Int
  BY <1>1, <1>2, <1>3
<1>5. Sum(n, uw) = units * W
  BY <1>1, <1>3, SumTimes DEF Times
<1>6. Sum(n, wq) = W * Sum(n, q)
  BY <1>1, <1>3, <1>4, SumTimes DEF Times
<1>7. Sum(n, uw) = Sum(n, wq) + Sum(n, r)
  BY <1>1, <1>4, SumOfTwo
<1>8. 0 * n <= Sum(n, r) /\ Sum(n, r) <= (W - 1) * n
  <2>1. PICK a \in Int, b \in Int : a = 0 /\ b = W - 1
    BY <1>1
  <2>2. \A k \in 0..n-1 : r[k] \in a..b
    BY <1>2, <2>1
  <2>3. a * n <= Sum(n, r) /\ Sum(n, r) <= b * n
    BY <1>1, <2>2, SumBounds
  <2>. QED BY <2>1, <2>3
<1>9. Sum(n, q) \in Int /\ Sum(n, r) \in Int
  <2>1. n \in 0..n
    BY <1>1
  <2>. QED BY <1>1, <1>4, <2>1, SumSteps
<1>10. PICK l \in Int : l = units - Sum(n, q) /\ W * l = Sum(n, r)
  <2>1. \A a, b, c \in Int : a * (b - c) = b * a - a * c
    OBVIOUS
  <2>2. W * (units - Sum(n, q)) = units * W - W * Sum(n, q)
    BY <1>1, <1>9, <2>1
  <2>3. units * W = W * Sum(n, q) + Sum(n, r)
    BY <1>5, <1>6, <1>7
  <2>4. W * Sum(n, q) \in Int
    BY <1>1, <1>9
  <2>5. W * (units - Sum(n, q)) = Sum(n, r)
    BY <1>9, <2>2, <2>3, <2>4
  <2>. QED BY <1>9, <2>5
<1>11. 0 <= l /\ l < n
  <2>1. 0 <= W * l /\ W * l <= (W - 1) * n
    BY <1>1, <1>8, <1>10
  <2>2. \A a, b, c \in Int : a >= 1 /\ c >= 1 /\ 0 <= a * b /\ a * b <= (a - 1) * c => 0 <= b /\ b < c
    OBVIOUS
  <2>. QED BY <1>1, <2>1, <2>2
<1>12. Left(units, w) \in 0..n-1
  BY <1>1, <1>3, <1>10, <1>11
<1>. QED BY <1>1, <1>2, <1>12 DEF n, q, W

\* The tiles of rank i in the split of `units` tiles.
Share(units, w, bias, i) == Tiles(units, w, WeightSum(w), Left(units, w), bias, i)

\* The remainders, and where they are equal the bias, put the ranks in a strict order.
LEMMA AheadIsOrder ==
    ASSUME NEW w, IsWeights(w), NEW units \in Nat, NEW bias, IsOrder(bias, Len(w)),
           NEW m \in 0..Len(w)
    PROVE  Cardinality({i \in Parts(w) :
              Cardinality(Ahead(units, w, WeightSum(w), bias, i)) < m}) = m
<1>. DEFINE n == Len(w)
            W == WeightSum(w)
            A == [i \in 0..n-1 |-> Ahead(units, w, W, bias, i)]
            r(i) == Rest(units, w, W, i)
<1>1. n \in Nat /\ Parts(w) = 0..n-1
  BY WeightsAdd DEF Parts
<1>2. ASSUME NEW i \in 0..n-1 PROVE r(i) \in Int /\ bias[i] \in Int
  <2>0. i \in Parts(w)
    BY <1>1
  <2>1. w[i+1] \in Nat /\ W \in Nat \ {0}
    BY <2>0, WeightsAdd
  <2>2. units * w[i+1] \in Nat
    BY <2>1
  <2>3. r(i) \in 0..W-1
    <3>. HIDE DEF W
    <3>. QED BY <2>1, <2>2, Division DEF Rest
  <2>. QED BY <2>1, <2>3 DEF IsOrder
<1>3. \A i, j \in 0..n-1 :
         j \in A[i] <=> r(j) > r(i) \/ (r(j) = r(i) /\ bias[j] < bias[i])
  BY <1>1 DEF Ahead, Before
<1>4. A \in [0..n-1 -> SUBSET (0..n-1)]
  BY <1>1 DEF Ahead
<1>0. \A i, j \in 0..n-1 : i # j => bias[i] # bias[j]
  BY DEF IsOrder
<1>. HIDE DEF A, r, n, W
<1>5. \A i \in 0..n-1 : i \notin A[i]
  BY <1>2, <1>3
<1>6. \A i, j \in 0..n-1 : i # j => i \in A[j] \/ j \in A[i]
  <2>. SUFFICES ASSUME NEW i \in 0..n-1, NEW j \in 0..n-1, i # j PROVE i \in A[j] \/ j \in A[i]
    OBVIOUS
  <2>1. bias[i] # bias[j] /\ r(i) \in Int /\ r(j) \in Int /\ bias[i] \in Int /\ bias[j] \in Int
    BY <1>0, <1>2
  <2>. QED BY <1>3, <2>1
<1>7. ASSUME NEW i \in 0..n-1, NEW j \in 0..n-1, i \in A[j] PROVE A[i] \subseteq A[j]
  <2>1. ASSUME NEW k \in A[i] PROVE k \in A[j]
    <3>1. k \in 0..n-1
      BY <1>4, <2>1
    <3>2. /\ r(i) \in Int /\ r(j) \in Int /\ r(k) \in Int
          /\ bias[i] \in Int /\ bias[j] \in Int /\ bias[k] \in Int
      BY <1>2, <3>1
    <3>3. r(i) > r(j) \/ (r(i) = r(j) /\ bias[i] < bias[j])
      BY <1>3, <1>7
    <3>4. r(k) > r(i) \/ (r(k) = r(i) /\ bias[k] < bias[i])
      BY <1>3, <2>1, <3>1
    <3>5. r(k) > r(j) \/ (r(k) = r(j) /\ bias[k] < bias[j])
      BY <3>2, <3>3, <3>4
    <3>. QED BY <1>3, <3>1, <3>5
  <2>. QED BY <2>1
<1>8. Cardinality({i \in 0..n-1 : Cardinality(A[i]) < m}) = m
  <2>1. m \in 0..n
    BY DEF n
  <2>. QED BY <1>1, <1>4, <1>5, <1>6, <1>7, <2>1, FirstOnes
<1>9. \A i \in 0..n-1 : A[i] = Ahead(units, w, W, bias, i)
  BY DEF A
<1>. QED BY <1>1, <1>8, <1>9 DEF W

\* The tiles of the ranks are all the tiles: none is lost, none is counted twice.
LEMMA SharesAdd ==
    ASSUME NEW w, IsWeights(w), NEW units \in Nat, NEW bias, IsOrder(bias, Len(w))
    PROVE  /\ \A i \in Parts(w) : Share(units, w, bias, i) \in Nat
           /\ Sum(Len(w), [k \in Parts(w) |-> Share(units, w, bias, k)]) = units
<1>. DEFINE n == Len(w)
            W == WeightSum(w)
            left == Left(units, w)
            C == {i \in Parts(w) : Cardinality(Ahead(units, w, W, bias, i)) < left}
            q == [k \in Parts(w) |-> Whole(units, w, W, k)]
            x == [k \in Parts(w) |-> IF k \in C THEN 1 ELSE 0]
            s == [k \in Parts(w) |-> Share(units, w, bias, k)]
<1>1. n \in Nat /\ Parts(w) = 0..n-1
  BY WeightsAdd DEF Parts
<1>2. left \in 0..n-1 /\ \A k \in Parts(w) : q[k] \in Nat
  BY FewLeft
<1>3. Cardinality(C) = left
  <2>1. left \in 0..Len(w)
    BY <1>2, <1>1
  <2>. HIDE DEF left
  <2>. QED BY <2>1, AheadIsOrder
<1>4. \A k \in Parts(w) : s[k] = q[k] + x[k] /\ x[k] \in 0..1 /\ x[k] = IF k \in C THEN 1 ELSE 0
  BY DEF Share, Tiles
<1>5. C \in SUBSET (0..n-1)
  BY <1>1
<1>6. left = units - Sum(n, q)
  BY DEF Left
<1>. HIDE DEF n, W, left, C, q, x, s
<1>7. Sum(n, x) = Cardinality(C)
  BY <1>1, <1>4, <1>5, SumCounts
<1>8. \A k \in 0..n-1 : q[k] \in Int /\ x[k] \in Int /\ s[k] = q[k] + x[k] /\ s[k] \in Nat
  BY <1>1, <1>2, <1>4
<1>9. Sum(n, s) = Sum(n, q) + Sum(n, x)
  BY <1>1, <1>8, SumOfTwo
<1>10. Sum(n, q) \in Int
  <2>1. n \in 0..n
    BY <1>1
  <2>. QED BY <1>1, <1>8, <2>1, SumSteps
<1>11. Sum(n, s) = units
  BY <1>3, <1>6, <1>7, <1>9, <1>10
<1>. QED BY <1>1, <1>8, <1>11 DEF n, s

\* A rank with more compute units than another has at least its tiles.
LEMMA SharesFollowWeights ==
    ASSUME NEW w, IsWeights(w), NEW units \in Nat, NEW bias, IsOrder(bias, Len(w)),
           NEW i \in Parts(w), NEW j \in Parts(w), w[i+1] > w[j+1]
    PROVE  Share(units, w, bias, i) >= Share(units, w, bias, j)
<1>. DEFINE n == Len(w)
            W == WeightSum(w)
            left == Left(units, w)
            a == units * w[i+1]
            b == units * w[j+1]
<1>1. /\ n \in Nat /\ Parts(w) = 0..n-1 /\ w[i+1] \in Nat /\ w[j+1] \in Nat
      /\ W \in Nat \ {0}
  BY WeightsAdd DEF Parts
<1>2. a \in Nat /\ b \in Nat /\ a >= b
  BY <1>1
<1>3. left \in Nat
  <2>1. left \in 0..n-1
    BY FewLeft
  <2>. HIDE DEF left, n
  <2>. QED BY <1>1, <2>1
<1>4. /\ a = W * (a \div W) + (a % W) /\ a % W \in 0..W-1 /\ a \div W \in Nat
      /\ b = W * (b \div W) + (b % W) /\ b % W \in 0..W-1 /\ b \div W \in Nat
  <2>. HIDE DEF a, b, W
  <2>. QED BY <1>1, <1>2, Division
<1>5. \/ a \div W >= (b \div W) + 1
      \/ a \div W = b \div W /\ a % W >= b % W
  <2>. DEFINE x == a \div W
              y == b \div W
              u == a % W
              v == b % W
  <2>. HIDE DEF x, y, u, v, a, b, W
  <2>1. /\ a = W * x + u /\ u \in 0..W-1 /\ x \in Nat
        /\ b = W * y + v /\ v \in 0..W-1 /\ y \in Nat
        /\ a \in Nat /\ b \in Nat /\ a >= b /\ W \in Nat \ {0}
    BY <1>1, <1>2, <1>4 DEF x, y, u, v
  <2>2. CASE x < y
    <3>1. W * x + W <= W * y
      BY <2>1, <2>2
    <3>2. W * x \in Nat /\ W * y \in Nat
      BY <2>1
    <3>. QED BY <2>1, <3>1, <3>2
  <2>3. CASE x = y
    <3>1. W * x \in Nat
      BY <2>1
    <3>. QED BY <2>1, <2>3, <3>1 DEF x, y, u, v
  <2>4. CASE x > y
    BY <2>1, <2>4 DEF x, y
  <2>. QED BY <2>1, <2>2, <2>3, <2>4
<1>. DEFINE Au == Ahead(units, w, W, bias, i)
            Av == Ahead(units, w, W, bias, j)
            e == IF Cardinality(Au) < left THEN 1 ELSE 0
            f == IF Cardinality(Av) < left THEN 1 ELSE 0
<1>6. Share(units, w, bias, i) = (a \div W) + e /\ Share(units, w, bias, j) = (b \div W) + f
  BY DEF Share, Tiles, Whole
<1>7. CASE a \div W >= (b \div W) + 1
  <2>. HIDE DEF a, b, W, Au, Av, left
  <2>. QED BY <1>4, <1>6, <1>7
<1>8. CASE a \div W = b \div W /\ a % W >= b % W
  <2>1. CASE a % W > b % W
    <3>1. Rest(units, w, W, i) = a % W /\ Rest(units, w, W, j) = b % W
      BY DEF Rest
    <3>2. ASSUME NEW k \in Au PROVE k \in Av
      <4>1. k \in Parts(w) /\ Rest(units, w, W, k) >= Rest(units, w, W, i)
            /\ Rest(units, w, W, k) \in Int
        <5>1. k \in Parts(w) /\ Before(units, w, W, bias, k, i)
          BY <3>2 DEF Ahead
        <5>2. w[k+1] \in Nat
          BY <5>1, WeightsAdd
        <5>3. units * w[k+1] \in Nat
          BY <5>2
        <5>4. Rest(units, w, W, k) \in 0..W-1
          <6>. HIDE DEF W
          <6>. QED BY <1>1, <5>3, Division DEF Rest
        <5>5. Rest(units, w, W, i) \in Int
          BY <1>4, <3>1
        <5>. QED BY <5>1, <5>4, <5>5 DEF Before
      <4>2. Rest(units, w, W, k) > Rest(units, w, W, j)
        <5>. HIDE DEF a, b, W
        <5>. QED BY <1>1, <1>4, <2>1, <3>1, <4>1
      <4>. QED BY <4>1, <4>2 DEF Ahead, Before
    <3>3. Au \subseteq Av /\ Av \subseteq 0..n-1
      BY <1>1, <3>2 DEF Ahead
    <3>. HIDE DEF Au, Av
    <3>4. IsFiniteSet(Av) /\ IsFiniteSet(Au) /\ Cardinality(Au) <= Cardinality(Av)
      <4>1. IsFiniteSet(0..n-1)
        BY <1>1, FS_Interval
      <4>. HIDE DEF n
      <4>2. IsFiniteSet(Av)
        BY <3>3, <4>1, FS_Subset
      <4>. QED BY <3>3, <4>2, FS_Subset
    <3>5. Cardinality(Au) \in Nat /\ Cardinality(Av) \in Nat
      BY <3>4, FS_CardinalityType
    <3>6. e >= f
      <4>. HIDE DEF left
      <4>. QED BY <1>3, <3>4, <3>5
    <3>. HIDE DEF a, b, W, left, e, f
    <3>7. e \in Int /\ f \in Int
      BY DEF e, f
    <3>. QED BY <1>4, <1>6, <1>8, <3>6, <3>7
  <2>2. CASE a % W = b % W
    <3>1. a = b
      BY <1>4, <1>8, <2>2
    <3>2. units = 0
      <4>1. \A x, y, z \in Nat : x * y = x * z /\ y > z => x = 0
        OBVIOUS
      <4>. QED BY <1>1, <3>1, <4>1
    <3>3. \A k \in Parts(w) : Whole(units, w, W, k) = 0
      <4>1. ASSUME NEW k \in Parts(w) PROVE Whole(units, w, W, k) = 0
        <5>1. w[k+1] \in Nat
          BY WeightsAdd
        <5>2. units * w[k+1] = 0
          BY <3>2, <5>1
        <5>3. 0 \div W = 0
          <6>. HIDE DEF W
          <6>1. 0 \in 0..W-1 /\ W * 0 + 0 = 0
            BY <1>1
          <6>. QED BY <1>1, <6>1, Division
        <5>. QED BY <5>2, <5>3 DEF Whole
      <4>. QED BY <4>1
    <3>4. left = 0
      <4>. DEFINE q == [k \in Parts(w) |-> Whole(units, w, W, k)]
      <4>1. \A k \in 0..n-1 : q[k] \in Int /\ q[k] = 0
        <5>1. ASSUME NEW k \in 0..n-1 PROVE q[k] = 0
          <6>1. k \in Parts(w)
            BY <1>1
          <6>. QED BY <3>3, <6>1
        <5>. HIDE DEF q
        <5>. QED BY <5>1
      <4>2. left = units - Sum(n, q)
        BY DEF Left
      <4>3. Sum(n, q) = 0
        <5>. HIDE DEF q, n
        <5>1. PICK c \in Int : c = 0
          OBVIOUS
        <5>2. \A k \in 0..n-1 : q[k] \in c..c
          BY <4>1, <5>1
        <5>3. c * n <= Sum(n, q) /\ Sum(n, q) <= c * n
          BY <1>1, <5>2, SumBounds
        <5>4. Sum(n, q) \in Int
          <6>1. n \in 0..n
            BY <1>1
          <6>. QED BY <1>1, <4>1, <6>1, SumSteps
        <5>. QED BY <1>1, <5>1, <5>3, <5>4
      <4>. QED BY <3>2, <4>2, <4>3
    <3>5. Cardinality(Au) \in Nat /\ Cardinality(Av) \in Nat
      <4>1. IsFiniteSet(0..n-1)
        BY <1>1, FS_Interval
      <4>2. Au \in SUBSET (0..n-1) /\ Av \in SUBSET (0..n-1)
        BY <1>1 DEF Ahead
      <4>. HIDE DEF n, Au, Av
      <4>3. IsFiniteSet(Au) /\ IsFiniteSet(Av)
        BY <4>1, <4>2, FS_Subset
      <4>. QED BY <4>3, FS_CardinalityType
    <3>6. e = 0 /\ f = 0
      <4>. HIDE DEF left, Au, Av
      <4>. QED BY <3>4, <3>5
    <3>. HIDE DEF a, b, W, e, f
    <3>. QED BY <1>4, <1>6, <1>8, <3>6
  <2>. QED BY <1>4, <1>8, <2>1, <2>2
<1>. QED BY <1>5, <1>7, <1>8

-----------------------------------------------------------------------------
(* The cuts of a split, and division by the units of an axis *)

\* A split is in whole tiles.
LEMMA SizeIs ==
    ASSUME NEW total, NEW w, NEW align, NEW bias, NEW i
    PROVE  PartitionSize(total, w, align, bias, i) = Share(total \div align, w, bias, i) * align
BY DEF PartitionSize, Share, WeightSum, Left

\* Whole units of an axis.
LEMMA Multiples ==
    \A a \in Nat, u \in Nat \ {0} : a % u = 0 => a = u * (a \div u) /\ a \div u \in Nat
OBVIOUS

\* A multiple is in whole units.
LEMMA MultipleOf ==
    \A u \in Nat \ {0}, x \in Nat : (u * x) \div u = x /\ (u * x) % u = 0
<1>. SUFFICES ASSUME NEW u \in Nat \ {0}, NEW x \in Nat
              PROVE  (u * x) \div u = x /\ (u * x) % u = 0
  OBVIOUS
<1>1. 0 \in 0..u-1 /\ u * x = u * x + 0
  OBVIOUS
<1>2. (u * x + 0) \div u = x /\ (u * x + 0) % u = 0
  BY <1>1, Division
<1>. QED BY <1>1, <1>2

\* Rounding up keeps the whole units.
LEMMA RoundUp ==
    ASSUME NEW p \in Nat, NEW d \in Nat, NEW u \in Nat \ {0}, p % u = 0
    PROVE  /\ p = u * (p \div u) /\ p \div u \in Nat
           /\ (p + d) \div u \in Nat /\ p \div u <= (p + d) \div u
           /\ d = 0 => (p + d) \div u = p \div u
<1>1. PICK q \in Nat : q = p \div u /\ p = u * q
  BY Multiples
<1>2. p + d \in Nat
  OBVIOUS
<1>3. PICK x \in Nat : x = (p + d) \div u
  BY <1>2, Division
<1>6. PICK y \in Int : y = (p + d) % u
  BY <1>2, Division
<1>4. y \in 0..u-1 /\ p + d = u * x + y
  BY <1>2, <1>3, <1>6, Division
<1>5. q <= x
  <2>. SUFFICES ASSUME x + 1 <= q PROVE FALSE
    BY <1>1
  <2>1. u * (x + 1) <= u * q
    BY <1>1, <1>3
  <2>2. u * (x + 1) = u * x + u /\ u * x \in Nat /\ u * q \in Nat
    OBVIOUS
  <2>. QED BY <1>1, <1>4, <2>1, <2>2
<1>. QED BY <1>1, <1>3, <1>5

\* A unit of an axis of total \div u units is u elements.
LEMMA UnitIs ==
    ASSUME NEW total \in Nat \ {0}, NEW u \in Nat \ {0}, total % u = 0
    PROVE  /\ total \div u \in Nat \ {0}
           /\ total = u * (total \div u)
           /\ Unit(total, total \div u) = u
<1>1. PICK q \in Nat : q = total \div u /\ total = u * q
  BY Multiples
<1>2. q # 0
  BY <1>1
<1>3. total = q * u + 0 /\ 0 \in 0..q-1
  BY <1>1, <1>2
<1>4. (q * u + 0) \div q = u
  <2>1. q \in Nat \ {0} /\ u \in Nat
    BY <1>2
  <2>. QED BY <1>3, <2>1, Division
<1>. QED BY <1>1, <1>2, <1>3, <1>4 DEF Unit

\* The shards of partition_sizes cover the dimension in the order of the ranks: the offsets
\* are the running sums, and the last one is the whole (het_tp.py).
THEOREM SplitIsExact ==
    ASSUME NEW w, IsWeights(w), NEW total \in Nat, NEW align \in Nat \ {0},
           NEW bias, IsOrder(bias, Len(w))
    PROVE  /\ \A i \in Parts(w) :
                /\ PartitionSize(total, w, align, bias, i) \in Nat
                /\ PartitionOffset(total, w, align, bias, i + 1) =
                     PartitionOffset(total, w, align, bias, i) + PartitionSize(total, w, align, bias, i)
           /\ PartitionOffset(total, w, align, bias, 0) = 0
           /\ \A i \in 0..Len(w) : PartitionOffset(total, w, align, bias, i) \in Nat
           /\ total % align = 0 => PartitionOffset(total, w, align, bias, Len(w)) = total
<1>. DEFINE n == Len(w)
            u == total \div align
            s == [k \in Parts(w) |-> Share(u, w, bias, k)]
            z == [k \in Parts(w) |-> PartitionSize(total, w, align, bias, k)]
            O(i) == PartitionOffset(total, w, align, bias, i)
<1>1. n \in Nat /\ Parts(w) = 0..n-1 /\ u \in Nat
  BY WeightsAdd, Division DEF Parts
<1>2. (\A i \in Parts(w) : s[i] \in Nat) /\ Sum(n, s) = u
  BY <1>1, SharesAdd
<1>3. \A i \in Parts(w) : z[i] = PartitionSize(total, w, align, bias, i) /\ z[i] = align * s[i]
  <2>1. ASSUME NEW i \in Parts(w) PROVE z[i] = align * s[i]
    <3>1. s[i] \in Nat /\ s[i] = Share(u, w, bias, i)
      BY <1>2
    <3>2. z[i] = Share(u, w, bias, i) * align
      BY SizeIs
    <3>. HIDE DEF s, z
    <3>3. z[i] = s[i] * align
      BY <3>1, <3>2
    <3>. QED BY <3>1, <3>3
  <2>. QED BY <2>1
<1>4. \A i : O(i) = Sum(i, z)
  BY DEF PartitionOffset
<1>. HIDE DEF n, s, z, u
<1>5. \A i \in 0..n-1 : s[i] \in Int /\ s[i] \in Nat /\ z[i] = align * s[i]
  BY <1>1, <1>2, <1>3
<1>6. \A i \in 0..n-1 : z[i] \in Nat
  BY <1>5
<1>7. /\ Sum(0, z) = 0 /\ \A m \in 0..n : Sum(m, z) \in Int
      /\ \A m \in 0..n-1 : Sum(m + 1, z) = Sum(m, z) + z[m]
  <2>1. \A i \in 0..n-1 : z[i] \in Int
    BY <1>6
  <2>. QED BY <1>1, <2>1, SumSteps
<1>8. \A i \in 0..n : Sum(i, z) \in Nat
  <2>1. \A i \in 0..n-1 : z[i] \in Int /\ z[i] >= 0
    BY <1>6
  <2>2. \A i \in 0..n, j \in 0..n : i <= j => Sum(i, z) <= Sum(j, z)
    BY <1>1, <2>1, SumNat
  <2>3. \A i \in 0..n : Sum(0, z) <= Sum(i, z)
    BY <1>1, <2>2
  <2>. QED BY <1>7, <2>3
<1>9. Sum(n, z) = align * u
  <2>1. \A i \in 0..n-1 : s[i] \in Int /\ z[i] = align * s[i]
    BY <1>5
  <2>. HIDE DEF O
  <2>2. PICK a \in Int : a = align
    OBVIOUS
  <2>3. \A i \in 0..n-1 : s[i] \in Int /\ z[i] = a * s[i]
    BY <2>1, <2>2
  <2>4. Sum(n, z) = a * Sum(n, s)
    <3>1. n \in Nat /\ Times(n, a, s, z)
      BY <1>1, <2>3 DEF Times
    <3>. HIDE DEF z, s, n
    <3>. QED BY <3>1, SumTimes
  <2>. QED BY <1>2, <2>2, <2>4
<1>10. total % align = 0 => O(n) = total
  BY <1>4, <1>9, Multiples DEF u
<1>11. /\ \A i \in 0..n-1 : O(i + 1) = O(i) + z[i]
       /\ O(0) = 0 /\ \A i \in 0..n : O(i) \in Nat
  BY <1>4, <1>7, <1>8
<1>12. \A i \in Parts(w) : z[i] \in Nat /\ O(i + 1) = O(i) + z[i]
  BY <1>1, <1>6, <1>11
<1>. HIDE DEF O
<1>. QED BY <1>3, <1>10, <1>11, <1>12 DEF n, O

\* Each point below the end lies between two neighbouring cuts, and nowhere else.
LEMMA CutsCover ==
    ASSUME NEW n \in Nat, NEW total \in Nat, NEW g,
           \A i \in 0..n : g[i] \in Nat,
           g[0] = 0, g[n] = total,
           \A i \in 0..n-1 : g[i] <= g[i + 1],
           NEW c \in 0..total-1
    PROVE  /\ \E i \in 0..n-1 : g[i] <= c /\ c < g[i + 1]
           /\ \A i, j \in 0..n-1 :
                g[i] <= c /\ c < g[i + 1] /\ g[j] <= c /\ c < g[j + 1] => i = j
<1>. DEFINE S == {i \in 0..n : g[i] <= c}
<1>1. PICK m \in S : \A k \in S : k <= m
  <2>1. S \in SUBSET (0..n) /\ 0 \in S
    OBVIOUS
  <2>. HIDE DEF S
  <2>. QED BY <2>1, GreatestOf
<1>2. m \in 0..n-1 /\ g[m] <= c
  <2>1. n \notin S
    OBVIOUS
  <2>. QED BY <2>1
<1>3. c < g[m + 1]
  <2>1. m + 1 \in 0..n /\ m + 1 \notin S
    BY <1>1, <1>2
  <2>. QED BY <2>1
<1>4. ASSUME NEW i \in 0..n PROVE \A j \in 0..n : i <= j => g[i] <= g[j]
  <2>. DEFINE R == {j \in 0..n : i <= j => g[i] <= g[j]}
  <2>1. 0 \in R
    OBVIOUS
  <2>2. ASSUME NEW j \in 0..n-1, j \in R PROVE j + 1 \in R
    <3>1. j + 1 \in 0..n /\ g[j] <= g[j + 1] /\ j \in 0..n /\ (i <= j => g[i] <= g[j])
      BY <2>2
    <3>2. CASE i <= j
      BY <3>1, <3>2
    <3>3. CASE i > j
      BY <3>1, <3>3
    <3>. QED BY <3>2, <3>3
  <2>3. 0..n \subseteq R
    <3>. HIDE DEF R
    <3>. QED BY <2>1, <2>2, Reach
  <2>. QED BY <2>3
<1>5. ASSUME NEW i \in 0..n-1, NEW j \in 0..n-1, i < j, c < g[i + 1], g[j] <= c PROVE FALSE
  <2>1. i + 1 \in 0..n /\ j \in 0..n /\ i + 1 <= j
    BY <1>5
  <2>2. g[i + 1] <= g[j]
    BY <1>4, <2>1
  <2>. QED BY <1>5, <2>1, <2>2
<1>6. ASSUME NEW i \in 0..n-1, NEW j \in 0..n-1,
             g[i] <= c, c < g[i + 1], g[j] <= c, c < g[j + 1]
      PROVE  i = j
  BY <1>5, <1>6
<1>. QED BY <1>2, <1>3, <1>6

-----------------------------------------------------------------------------
(* The layer: the ranks' shards are the intervals between the cuts *)

\* What the layer and the order of equal remainders are, and stay.
LayerOK ==
    /\ cfg \in Layer /\ lean \in Orders
    /\ cfg.inter % cfg.pack = 0 /\ cfg.inter % cfg.group = 0
    /\ cfg.layer = "mlp" => cfg.pad = 0

\* The layer can be built with whole tiles.
Sized == Sizable("w13") /\ Sizable("w2")

\* The first channel of tensor-parallel rank t.
Cut(t) ==
    IF HetHalf("w2") THEN PartitionOffset(cfg.inter, Weights, Align, lean, t)
    ELSE t * (cfg.inter \div TpSize)

\* Tiles are not empty.
LEMMA AlignIs ==
    ASSUME LayerOK PROVE Align \in Nat \ {0}
<1>1. cfg.group \in Nat \ {0} /\ Floor \in Nat \ {0}
  BY FloorAssumption DEF LayerOK, Layer
<1>2. ASSUME NEW a \in Nat \ {0}, NEW b \in Nat \ {0} PROVE LeastMultiple(a, b) \in Nat \ {0}
  <2>1. PICK p \in Nat \ {0} : p = a * b
    OBVIOUS
  <2>2. p % a = 0 /\ p % b = 0
    <3>1. 0 \in 0..a-1 /\ 0 \in 0..b-1 /\ p = a * b + 0 /\ p = b * a + 0
      BY <2>1
    <3>. QED BY <3>1, Division
  <2>. DEFINE S == {m \in 1..p : m % a = 0 /\ m % b = 0}
  <2>3. S \in SUBSET (0..p) /\ p \in S
    BY <2>2
  <2>4. PICK m \in S : \A k \in S : m <= k
    <3>. HIDE DEF S
    <3>. QED BY <2>3, LeastOf
  <2>5. m \in 1..p /\ m % a = 0 /\ m % b = 0
    OBVIOUS
  <2>6. ASSUME NEW k \in 1..m-1 PROVE k % a # 0 \/ k % b # 0
    <3>. SUFFICES ASSUME k % a = 0, k % b = 0 PROVE FALSE
      OBVIOUS
    <3>1. k \in 1..p /\ ~(m <= k)
      BY <2>5
    <3>2. k \in S
      BY <3>1
    <3>. HIDE DEF S
    <3>. QED BY <2>4, <3>1, <3>2
  <2>. HIDE DEF S
  <2>7. LeastMultiple(a, b) \in 1..p
    BY <2>1, <2>5, <2>6 DEF LeastMultiple
  <2>. QED BY <2>1, <2>7
<1>. QED BY <1>1, <1>2 DEF Align, HetAlign

\* The group that splits the layer.
LEMMA GroupIs ==
    ASSUME LayerOK
    PROVE  /\ N \in Nat \ {0} /\ TpSize \in Nat \ {0} /\ TpSize <= N
           /\ \A r \in Ranks : TpRank(r) \in 0..TpSize-1
           /\ cfg.inter \in Nat \ {0} /\ cfg.pad \in Nat
           /\ \A kind : Elts(kind) \in Nat \ {0} /\ cfg.inter % Elts(kind) = 0
           /\ Active => IsWeights(Weights) /\ Len(Weights) = TpSize
           /\ Parts(Weights) = 0..Len(Weights)-1
           /\ IsOrder(lean, TpSize)
<1>1. N \in Nat \ {0}
  BY ShardAssumption
<1>2. TpSize \in Nat \ {0} /\ TpSize <= N /\ \A r \in Ranks : TpRank(r) \in 0..TpSize-1
  BY <1>1 DEF TpSize, TpRank, Ranks
<1>3. /\ cfg.inter \in Nat \ {0} /\ cfg.pad \in Nat /\ cfg.raw \in Seq(Int)
      /\ cfg.pack \in Nat \ {0} /\ cfg.group \in Nat \ {0}
  BY DEF LayerOK, Layer
<1>4. \A kind : Elts(kind) \in Nat \ {0} /\ cfg.inter % Elts(kind) = 0
  BY <1>3 DEF Elts, LayerOK
<1>5. ASSUME Active PROVE IsWeights(Weights) /\ Len(Weights) = TpSize
  <2>1. Weights = cfg.raw /\ Len(cfg.raw) = TpSize /\ \A i \in DOMAIN cfg.raw : cfg.raw[i] > 0
    BY <1>5 DEF Active, Weights, CuWeights
  <2>2. DOMAIN cfg.raw = 1..Len(cfg.raw)
    BY <1>3
  <2>3. \A i \in 1..Len(cfg.raw) : cfg.raw[i] > 0
    BY <2>1, <2>2
  <2>. QED BY <1>2, <1>3, <2>1, <2>3 DEF IsWeights
<1>6. IsOrder(lean, TpSize)
  <2>1. lean \in [Ranks -> Ranks] /\ \A i, j \in Ranks : lean[i] = lean[j] => i = j
    BY DEF LayerOK, Orders
  <2>2. 0..TpSize-1 \subseteq Ranks /\ Ranks \subseteq Int
    BY <1>1, <1>2 DEF Ranks
  <2>. QED BY <2>1, <2>2 DEF IsOrder
<1>. QED BY <1>1, <1>2, <1>3, <1>4, <1>5, <1>6 DEF Parts

\* Both halves of a layer that can be built are split in the same way.
LEMMA HalvesAgree ==
    ASSUME LayerOK, Sized
    PROVE  /\ HetHalf("w13") = HetHalf("w2")
           /\ \A r \in Ranks, half \in {"w13", "w2"} : PerPartition(r, half) = PerPartition(r, "w2")
           /\ HetHalf("w2") => Splits(cfg.inter, Weights, Align)
           /\ ~HetHalf("w2") => cfg.inter % TpSize = 0
<1>1. Align \in Nat \ {0} /\ cfg.inter \in Nat \ {0}
  BY AlignIs, GroupIs
<1>2. CASE cfg.layer = "mlp"
  <2>1. HetHalf("w13") <=> Active /\ (2 * cfg.inter) % Align = 0
    BY <1>2 DEF HetHalf
  <2>2. HetHalf("w2") <=> Active /\ cfg.inter % Align = 0
    BY <1>2 DEF HetHalf
  <2>3. ASSUME cfg.inter % Align = 0 PROVE (2 * cfg.inter) % Align = 0
    <3>1. PICK a \in Nat \ {0}, q \in Nat : a = Align /\ cfg.inter = a * q
      BY <1>1, <2>3, Multiples
    <3>2. 2 * cfg.inter = a * (2 * q) + 0 /\ 0 \in 0..a-1 /\ 2 * q \in Nat
      BY <3>1
    <3>3. (a * (2 * q) + 0) % a = 0
      BY <3>2, Division
    <3>. QED BY <3>1, <3>2, <3>3
  <2>4. HetHalf("w13") => cfg.inter % Align = 0
    BY DEF Sized, Sizable, Splits
  <2>5. HetHalf("w13") = HetHalf("w2")
    <3>1. HetHalf("w13") \in BOOLEAN /\ HetHalf("w2") \in BOOLEAN
      BY DEF HetHalf
    <3>. QED BY <2>1, <2>2, <2>3, <2>4, <3>1
  <2>. QED BY <2>5 DEF Sized, Sizable, PerPartition
<1>3. CASE cfg.layer # "mlp"
  <2>1. HetHalf("w13") = HetHalf("w2")
    BY <1>3 DEF HetHalf
  <2>. QED BY <2>1 DEF Sized, Sizable, PerPartition
<1>. QED BY <1>2, <1>3

\* The shards of the ranks are the intervals between the cuts.
LEMMA Cuts ==
    ASSUME LayerOK, Sized
    PROVE  /\ \A t \in 0..TpSize : Cut(t) \in Nat
           /\ Cut(0) = 0 /\ Cut(TpSize) = cfg.inter
           /\ \A t \in 0..TpSize-1 : Cut(t) <= Cut(t + 1)
           /\ \A r \in Ranks : /\ PerPartition(r, "w2") \in Nat
                               /\ Cut(TpRank(r) + 1) = Cut(TpRank(r)) + PerPartition(r, "w2")
<1>1. /\ Align \in Nat \ {0} /\ cfg.inter \in Nat \ {0} /\ TpSize \in Nat \ {0}
      /\ \A r \in Ranks : TpRank(r) \in 0..TpSize-1
      /\ IsOrder(lean, TpSize)
  BY AlignIs, GroupIs
<1>2. CASE HetHalf("w2")
  <2>1. IsWeights(Weights) /\ Len(Weights) = TpSize /\ Parts(Weights) = 0..TpSize-1
    BY <1>2, GroupIs DEF HetHalf
  <2>2. cfg.inter % Align = 0
    BY <1>2, HalvesAgree DEF Splits
  <2>. DEFINE P(i) == PartitionSize(cfg.inter, Weights, Align, lean, i)
              O(i) == PartitionOffset(cfg.inter, Weights, Align, lean, i)
  <2>3. /\ \A i \in 0..TpSize-1 : P(i) \in Nat /\ O(i + 1) = O(i) + P(i)
        /\ O(0) = 0 /\ O(TpSize) = cfg.inter
        /\ \A i \in 0..TpSize : O(i) \in Nat
    <3>1. PICK total \in Nat, a \in Nat \ {0} : total = cfg.inter /\ a = Align
      BY <1>1
    <3>. DEFINE w == Weights
                l == lean
    <3>2. IsWeights(w) /\ IsOrder(l, Len(w)) /\ total % a = 0 /\ Len(w) = TpSize /\ Parts(w) = 0..TpSize-1
      BY <1>1, <2>1, <2>2, <3>1
    <3>. HIDE DEF w, l, P, O
    <3>3. /\ \A i \in Parts(w) :
                /\ PartitionSize(total, w, a, l, i) \in Nat
                /\ PartitionOffset(total, w, a, l, i + 1) =
                     PartitionOffset(total, w, a, l, i) + PartitionSize(total, w, a, l, i)
          /\ PartitionOffset(total, w, a, l, 0) = 0
          /\ \A i \in 0..Len(w) : PartitionOffset(total, w, a, l, i) \in Nat
          /\ PartitionOffset(total, w, a, l, Len(w)) = total
      BY <3>1, <3>2, SplitIsExact
    <3>. QED BY <3>1, <3>2, <3>3 DEF w, l, P, O
  <2>4. \A t : Cut(t) = O(t)
    BY <1>2 DEF Cut
  <2>5. \A r : PerPartition(r, "w2") = P(TpRank(r))
    BY <1>2 DEF PerPartition
  <2>. HIDE DEF P, O
  <2>6. \A t \in 0..TpSize-1 : Cut(t) \in Nat /\ P(t) \in Nat /\ Cut(t + 1) = Cut(t) + P(t)
    BY <1>1, <2>3, <2>4
  <2>. QED BY <1>1, <2>3, <2>4, <2>5, <2>6
<1>3. CASE ~HetHalf("w2")
  <2>. DEFINE p == cfg.inter \div TpSize
  <2>1. p \in Nat /\ cfg.inter = TpSize * p
    BY <1>1, <1>3, HalvesAgree, Multiples
  <2>2. \A t : Cut(t) = t * p
    BY <1>3 DEF Cut
  <2>3. \A r : PerPartition(r, "w2") = p
    BY <1>3 DEF PerPartition
  <2>. HIDE DEF p
  <2>4. \A t \in Nat : t * p \in Nat /\ (t + 1) * p = t * p + p
    BY <2>1
  <2>5. \A t \in 0..TpSize-1 : t \in Nat
    BY <1>1
  <2>6. \A t \in 0..TpSize : t \in Nat
    BY <1>1
  <2>7. \A t \in 0..TpSize-1 : Cut(t) \in Nat /\ Cut(t + 1) = Cut(t) + p
    BY <2>2, <2>4, <2>5
  <2>8. Cut(0) = 0 /\ Cut(TpSize) = cfg.inter
    BY <1>1, <2>1, <2>2
  <2>9. \A t \in 0..TpSize : Cut(t) \in Nat
    BY <2>2, <2>4, <2>6
  <2>. QED BY <1>1, <2>1, <2>3, <2>7, <2>8, <2>9
<1>. QED BY <1>2, <1>3

-----------------------------------------------------------------------------
(* The shard of a tensor that a rank does not refuse is its own *)

\* The units of a tensor that belong to a rank.
First(r, kind) == Cut(TpRank(r)) \div Elts(kind)
Units(r, kind) == PerPartition(r, "w2") \div Elts(kind)

\* The rank's shard begins and ends on a unit of the tensor.
Aligned(r, kind) ==
    /\ Cut(TpRank(r)) = Elts(kind) * First(r, kind) /\ First(r, kind) \in Nat
    /\ PerPartition(r, "w2") = Elts(kind) * Units(r, kind) /\ Units(r, kind) \in Nat

\* The parameters that a rank has made are in whole units and hold its shard.
LEMMA SlotsFit ==
    ASSUME LayerOK, Sized, NEW r \in Ranks, Creatable(r, "w2"), NEW kind \in Kinds,
           NEW half \in {"w13", "w2"}
    PROVE  /\ Units(r, kind) \in Nat /\ PerPartition(r, "w2") = Elts(kind) * Units(r, kind)
           /\ Slots(r, half, kind) \in Nat /\ Units(r, kind) <= Slots(r, half, kind)
           /\ cfg.pad = 0 => Slots(r, half, kind) = Units(r, kind)
<1>1. PerPartition(r, "w2") \in Nat
  BY Cuts
<1>2. PerPartition(r, half) = PerPartition(r, "w2")
  BY HalvesAgree
<1>3. PerPartition(r, "w2") % Elts(kind) = 0
  BY DEF Creatable
<1>4. cfg.pad \in Nat /\ Elts(kind) \in Nat \ {0}
  BY GroupIs
<1>5. PICK p \in Nat, d \in Nat : p = PerPartition(r, "w2") /\ d = cfg.pad
  BY <1>1, <1>4
<1>6. PICK u \in Nat \ {0} : u = Elts(kind)
  BY <1>4
<1>9. p % u = 0
  BY <1>3, <1>5, <1>6
<1>7. /\ p = u * (p \div u) /\ p \div u \in Nat
      /\ (p + d) \div u \in Nat /\ p \div u <= (p + d) \div u
      /\ d = 0 => (p + d) \div u = p \div u
  BY <1>9, RoundUp
<1>8. Units(r, kind) = p \div u /\ Slots(r, half, kind) = (p + d) \div u
  BY <1>2, <1>5, <1>6 DEF Units, Slots
<1>. QED BY <1>5, <1>6, <1>7, <1>8

\* Where a cut is on a unit boundary the shard is aligned.
LEMMA OnUnit ==
    ASSUME LayerOK, Sized, NEW r \in Ranks, Creatable(r, "w2"), NEW kind \in Kinds,
           Cut(TpRank(r)) % Elts(kind) = 0
    PROVE  /\ Aligned(r, kind)
           /\ AxisTotal(kind) \in Nat /\ cfg.inter = Elts(kind) * AxisTotal(kind)
           /\ First(r, kind) + Units(r, kind) <= AxisTotal(kind)
<1>. DEFINE u == Elts(kind)
            t == TpRank(r)
<1>1. /\ u \in Nat \ {0} /\ cfg.inter \in Nat \ {0} /\ cfg.inter % u = 0
      /\ t \in 0..TpSize-1 /\ TpSize \in Nat \ {0}
  BY GroupIs
<1>2. /\ Cut(t) \in Nat /\ PerPartition(r, "w2") \in Nat
      /\ Cut(t + 1) = Cut(t) + PerPartition(r, "w2")
  BY <1>1, Cuts
<1>3. Cut(t + 1) <= cfg.inter
  <2>. DEFINE R == {i \in 0..TpSize : i >= t + 1 => Cut(t + 1) <= Cut(i)}
  <2>1. 0 \in R
    BY <1>1
  <2>2. ASSUME NEW i \in 0..TpSize-1, i \in R PROVE i + 1 \in R
    <3>1. /\ i + 1 \in 0..TpSize /\ Cut(i) <= Cut(i + 1) /\ Cut(i) \in Nat /\ Cut(i + 1) \in Nat
          /\ Cut(t + 1) \in Nat /\ (i >= t + 1 => Cut(t + 1) <= Cut(i))
      BY <1>1, <2>2, Cuts
    <3>2. CASE i >= t + 1
      BY <3>1, <3>2
    <3>3. CASE i = t
      BY <1>1, <3>1, <3>3
    <3>4. CASE i < t
      BY <1>1, <3>1, <3>4
    <3>. QED BY <1>1, <3>2, <3>3, <3>4
  <2>3. TpSize \in R
    <3>. HIDE DEF R
    <3>1. 0..TpSize \subseteq R
      BY <1>1, <2>1, <2>2, Reach
    <3>. QED BY <1>1, <3>1
  <2>. QED BY <1>1, <2>3, Cuts
<1>4. PICK a \in Nat : a = Cut(t) \div u /\ Cut(t) = u * a
  <2>. HIDE DEF u
  <2>. QED BY <1>1, <1>2, Multiples DEF u
<1>6. PICK b \in Nat : b = PerPartition(r, "w2") \div u /\ PerPartition(r, "w2") = u * b
  <2>1. PerPartition(r, "w2") % u = 0
    BY DEF Creatable
  <2>. HIDE DEF u
  <2>. QED BY <1>1, <1>2, <2>1, Multiples
<1>7. PICK c \in Nat : c = cfg.inter \div u /\ cfg.inter = u * c
  <2>. HIDE DEF u
  <2>. QED BY <1>1, Multiples
<1>5. a + b <= c
  <2>1. u * (a + b) <= u * c
    <3>1. u * (a + b) = u * a + u * b
      BY <1>1
    <3>. QED BY <1>2, <1>3, <1>4, <1>6, <1>7, <3>1
  <2>2. \A x \in Nat \ {0}, y, z \in Nat : x * y <= x * z => y <= z
    OBVIOUS
  <2>. QED BY <1>1, <2>1, <2>2
<1>. QED BY <1>4, <1>5, <1>6, <1>7 DEF Aligned, First, Units, AxisTotal

\* An expert's shard that is not refused is the rank's own.
LEMMA MoeShardIs ==
    ASSUME LayerOK, Sized, cfg.layer # "mlp", NEW r \in Ranks, Creatable(r, "w2"),
           NEW kind \in Kinds, MoeShardable(r, kind)
    PROVE  /\ Cut(TpRank(r)) % Elts(kind) = 0
           /\ MoeStart(r, kind) = First(r, kind) /\ MoeSize(r, kind) = Units(r, kind)
<1>. DEFINE u == Elts(kind)
            t == TpRank(r)
<1>1. /\ u \in Nat \ {0} /\ cfg.inter \in Nat \ {0} /\ cfg.inter % u = 0
      /\ t \in 0..TpSize-1 /\ TpSize \in Nat \ {0}
  BY GroupIs
<1>2. Unit(cfg.inter, AxisTotal(kind)) = u
  BY <1>1, UnitIs DEF AxisTotal
<1>3. Align = Floor
  BY DEF Align
<1>4. CASE Active
  <2>1. AxisShardable(cfg.inter, Weights, Floor, AxisTotal(kind), lean, t)
    BY <1>4 DEF MoeShardable
  <2>2. HetHalf("w2")
    BY <1>3, <1>4, <2>1 DEF HetHalf, AxisShardable, Splits
  <2>3. Cut(t) = PartitionOffset(cfg.inter, Weights, Floor, lean, t)
    BY <1>3, <2>2 DEF Cut
  <2>4. PerPartition(r, "w2") = PartitionSize(cfg.inter, Weights, Floor, lean, t)
    BY <1>3, <2>2 DEF PerPartition
  <2>5. Cut(t) % u = 0
    BY <1>2, <2>1, <2>3 DEF AxisShardable
  <2>. QED BY <1>2, <1>4, <2>3, <2>4, <2>5 DEF MoeStart, MoeSize, AxisStart, AxisSize, First, Units
<1>5. CASE ~Active
  <2>1. ~HetHalf("w2")
    BY <1>5 DEF HetHalf
  <2>. DEFINE p == cfg.inter \div TpSize
              b == p \div u
              a == cfg.inter \div u
  <2>2. Cut(t) = t * p /\ PerPartition(r, "w2") = p
    BY <2>1 DEF Cut, PerPartition
  <2>3. p \in Nat /\ cfg.inter = TpSize * p /\ cfg.inter % TpSize = 0
    BY <1>1, <2>1, HalvesAgree, Multiples
  <2>4. p % u = 0
    BY <2>2 DEF Creatable
  <2>5. b \in Nat /\ p = u * b
    <3>. HIDE DEF p, u
    <3>. QED BY <1>1, <2>3, <2>4, Multiples
  <2>. HIDE DEF p, b, u
  <2>6. PICK m \in Nat : m = TpSize * b
    BY <1>1, <2>5
  <2>7. cfg.inter = u * m
    BY <1>1, <2>3, <2>5, <2>6
  <2>8. cfg.inter \div u = m
    BY <1>1, <2>7, MultipleOf
  <2>9. m \div TpSize = b
    BY <1>1, <2>5, <2>6, MultipleOf
  <2>10. AxisTotal(kind) \div TpSize = b
    BY <2>8, <2>9 DEF AxisTotal, u
  <2>11. PICK x \in Nat : x = t * b
    BY <1>1, <2>5
  <2>12. Cut(t) = u * x
    BY <1>1, <2>2, <2>5, <2>11
  <2>13. Cut(t) \div u = x /\ Cut(t) % u = 0
    BY <1>1, <2>12, MultipleOf
  <2>14. MoeStart(r, kind) = x /\ MoeSize(r, kind) = b
    BY <1>5, <2>10, <2>11 DEF MoeStart, MoeSize
  <2>. QED BY <2>2, <2>13, <2>14 DEF First, Units, u, b
<1>. QED BY <1>4, <1>5

\* So is the shard of a dense layer.
LEMMA LinearShardIs ==
    ASSUME LayerOK, Sized, cfg.layer = "mlp", NEW r \in Ranks, Creatable(r, "w2"),
           NEW kind \in Kinds, NEW half \in {"w13", "w2"}, LinearPlaceable(r, half, kind)
    PROVE  /\ Cut(TpRank(r)) % Elts(kind) = 0
           /\ LinearStart(r, half, kind) = First(r, kind) /\ Slots(r, half, kind) = Units(r, kind)
<1>. DEFINE u == Elts(kind)
<1>1. /\ u \in Nat \ {0} /\ cfg.inter \in Nat \ {0} /\ cfg.inter % u = 0
      /\ r \in 0..TpSize-1 /\ TpSize \in Nat \ {0} /\ TpRank(r) = r
  BY GroupIs DEF TpRank
<1>2. Unit(cfg.inter, AxisTotal(kind)) = u
  BY <1>1, UnitIs DEF AxisTotal
<1>3. Slots(r, half, kind) = Units(r, kind)
  BY SlotsFit DEF LayerOK
<1>4. HetHalf(half) = HetHalf("w2")
  BY HalvesAgree
<1>5. CASE HetHalf("w2")
  <2>1. Cut(r) = PartitionOffset(cfg.inter, Weights, Align, lean, r)
    BY <1>5 DEF Cut
  <2>2. Cut(r) % u = 0
    BY <1>2, <1>4, <1>5, <2>1 DEF LinearPlaceable, AxisPlaceable
  <2>. QED BY <1>1, <1>2, <1>3, <1>4, <1>5, <2>1, <2>2 DEF LinearStart, AxisStart, First
<1>6. CASE ~HetHalf("w2")
  <2>. DEFINE p == cfg.inter \div TpSize
              b == p \div u
  <2>1. Cut(r) = r * p /\ PerPartition(r, "w2") = p
    BY <1>6 DEF Cut, PerPartition
  <2>2. p \in Nat /\ p % u = 0
    BY <1>1, <1>6, <2>1, HalvesAgree, Multiples DEF Creatable
  <2>3. b \in Nat /\ p = u * b
    <3>. HIDE DEF p, u
    <3>. QED BY <1>1, <2>2, Multiples
  <2>. HIDE DEF p, b, u
  <2>4. PICK x \in Nat : x = r * b
    BY <1>1, <2>3
  <2>5. Cut(r) = u * x
    BY <1>1, <2>1, <2>3, <2>4
  <2>6. Cut(r) \div u = x /\ Cut(r) % u = 0
    BY <1>1, <2>5, MultipleOf
  <2>7. Units(r, kind) = b
    BY <2>1 DEF Units, b, u
  <2>8. LinearStart(r, half, kind) = x
    BY <1>3, <1>4, <1>6, <2>4, <2>7 DEF LinearStart
  <2>. QED BY <1>1, <1>3, <2>6, <2>8 DEF First, u
<1>. QED BY <1>5, <1>6

-----------------------------------------------------------------------------
(* What a rank has in its parameters *)

Shards == {"w1", "w3", "w2"}
Halves == {"w13", "w2"}

\* The experts of a rank.
Mine(r) == {x \in Experts : Local(r, x)}

Width(half) == IF half = "w13" THEN 2 ELSE 1

\* The parameters h of rank r have the shapes that were made, and units of the checkpoint in them.
Shaped(r, h) ==
    /\ DOMAIN h = Mine(r)
    /\ \A e \in Mine(r) :
        /\ DOMAIN h[e] = Halves
        /\ \A half \in Halves :
            /\ DOMAIN h[e][half] = Kinds
            /\ \A kind \in Kinds :
                /\ DOMAIN h[e][half][kind] = 0..(Width(half) * Slots(r, half, kind)) - 1
                /\ \A p \in DOMAIN h[e][half][kind] :
                      h[e][half][kind][p] \in (0..AxisTotal(kind)-1) \cup {Unset}

Awaited(t, e, shard, kind) == \E i \in 1..Len(t) : t[i] = <<e, shard, kind>>

\* The units of the rank are in their slots.
InPlace(r, h, e, shard, kind) ==
    /\ Cut(TpRank(r)) % Elts(kind) = 0
    /\ \A p \in 0..Units(r, kind)-1 :
          h[e][Half(shard)][kind][Base(r, shard, kind) + p] = First(r, kind) + p

\* What is not in t any more is in place.
Filled(r, h, t) ==
    \A e \in Mine(r), shard \in Shards, kind \in Kinds :
        Awaited(t, e, shard, kind) \/ InPlace(r, h, e, shard, kind)

Built(r, h, t) ==
    /\ Sized /\ Creatable(r, "w13") /\ Creatable(r, "w2")
    /\ Shaped(r, h) /\ Filled(r, h, t)

\* A change deep in nested functions changes nothing else.
LEMMA Deep ==
    ASSUME NEW h, NEW e \in DOMAIN h, NEW a \in DOMAIN h[e], NEW k \in DOMAIN h[e][a], NEW v,
           NEW g, g = [h EXCEPT ![e][a][k] = v]
    PROVE  /\ DOMAIN g = DOMAIN h
           /\ \A e2 \in DOMAIN h : DOMAIN g[e2] = DOMAIN h[e2]
           /\ \A e2 \in DOMAIN h : \A a2 \in DOMAIN h[e2] : DOMAIN g[e2][a2] = DOMAIN h[e2][a2]
           /\ g[e][a][k] = v
           /\ \A e2 \in DOMAIN h : \A a2 \in DOMAIN h[e2] : \A k2 \in DOMAIN h[e2][a2] :
                 <<e2, a2, k2>> # <<e, a, k>> => g[e2][a2][k2] = h[e2][a2][k2]
<1>. DEFINE x == [h[e][a] EXCEPT ![k] = v]
            y == [h[e] EXCEPT ![a] = x]
<1>1. g = [h EXCEPT ![e] = y]
  OBVIOUS
<1>2. DOMAIN x = DOMAIN h[e][a] /\ x[k] = v
      /\ \A k2 \in DOMAIN h[e][a] : k2 # k => x[k2] = h[e][a][k2]
  OBVIOUS
<1>. HIDE DEF x
<1>3. DOMAIN y = DOMAIN h[e] /\ y[a] = x
      /\ \A a2 \in DOMAIN h[e] : a2 # a => y[a2] = h[e][a2]
  OBVIOUS
<1>. HIDE DEF y
<1>4. DOMAIN g = DOMAIN h /\ g[e] = y /\ \A e2 \in DOMAIN h : e2 # e => g[e2] = h[e2]
  BY <1>1
<1>. QED BY <1>2, <1>3, <1>4

\* An interval that is moved to where it fits.
LEMMA Shifted ==
    ASSUME NEW f \in Nat, NEW u \in Nat, NEW b \in Nat, NEW A \in Nat, f + u <= A,
           NEW p \in b..b+u-1
    PROVE  f + p - b \in 0..A-1
OBVIOUS

\* The slots of a shard are slots of its parameter, and those of gate and up are apart.
LEMMA SlotIn ==
    ASSUME LayerOK, Sized, NEW r \in Ranks, Creatable(r, "w2"), NEW kind \in Kinds,
           NEW shard \in Shards, NEW p \in 0..Units(r, kind)-1
    PROVE  /\ Half(shard) \in Halves
           /\ Base(r, shard, kind) \in Nat
           /\ Base(r, shard, kind) + p \in 0..(Width(Half(shard)) * Slots(r, Half(shard), kind)) - 1
           /\ \A other \in Shards : Half(other) = Half(shard) /\ other # shard =>
                 Base(r, shard, kind) + p \notin
                    Base(r, other, kind)..Base(r, other, kind)+Units(r, kind)-1
<1>1. /\ Units(r, kind) \in Nat
      /\ Slots(r, "w13", kind) \in Nat /\ Units(r, kind) <= Slots(r, "w13", kind)
      /\ Slots(r, "w2", kind) \in Nat /\ Units(r, kind) <= Slots(r, "w2", kind)
  BY SlotsFit
<1>2. CASE shard = "w1"
  BY <1>1, <1>2 DEF Half, Halves, Base, Width, Shards
<1>3. CASE shard = "w3"
  BY <1>1, <1>3 DEF Half, Halves, Base, Width, Shards
<1>4. CASE shard = "w2"
  BY <1>1, <1>4 DEF Half, Halves, Base, Width, Shards
<1>. QED BY <1>2, <1>3, <1>4 DEF Shards

\* What is awaited besides the first is awaited after it.
LEMMA TailAwaits ==
    ASSUME NEW T, NEW t \in Seq(T), t # <<>>, NEW e, NEW shard, NEW kind,
           Awaited(t, e, shard, kind), Head(t) # <<e, shard, kind>>
    PROVE  Awaited(Tail(t), e, shard, kind)
<1>1. PICK i \in 1..Len(t) : t[i] = <<e, shard, kind>>
  BY DEF Awaited
<1>2. Head(t) = t[1] /\ Len(t) \in Nat
  OBVIOUS
<1>3. i # 1
  BY <1>1, <1>2
<1>4. i - 1 \in 1..Len(Tail(t)) /\ Tail(t)[i - 1] = t[i]
  BY <1>2, <1>3
<1>. QED BY <1>1, <1>4 DEF Awaited

\* Empty parameters hold nothing that is not awaited.
LEMMA CreateBuilds ==
    ASSUME LayerOK, NEW r \in Ranks, Sized, Creatable(r, "w13"), Creatable(r, "w2")
    PROVE  Built(r, [e \in Mine(r) |-> [half \in Halves |-> [kind \in Kinds |-> Empty(r, half, kind)]]],
                 Checkpoint)
<1>. DEFINE h == [e \in Mine(r) |-> [half \in Halves |-> [kind \in Kinds |-> Empty(r, half, kind)]]]
<1>1. Shaped(r, h)
  <2>1. ASSUME NEW half \in Halves, NEW kind \in Kinds
        PROVE  /\ DOMAIN Empty(r, half, kind) = 0..(Width(half) * Slots(r, half, kind)) - 1
               /\ \A p \in DOMAIN Empty(r, half, kind) : Empty(r, half, kind)[p] = Unset
    BY DEF Empty, Width
  <2>. QED BY <2>1 DEF Shaped
<1>2. ASSUME NEW e \in Mine(r), NEW shard \in Shards, NEW kind \in Kinds
      PROVE  Awaited(Checkpoint, e, shard, kind)
  <2>. DEFINE one(x) == <<<<x, "w1", "weight">>, <<x, "w1", "scale">>, <<x, "w3", "weight">>,
                         <<x, "w3", "scale">>, <<x, "w2", "weight">>, <<x, "w2", "scale">>>>
  <2>1. \A x : /\ Len(one(x)) = 6 /\ one(x) \in Seq({<<x>>} \cup {one(x)[i] : i \in 1..6})
               /\ \E i \in 1..6 : one(x)[i] = <<x, shard, kind>>
    BY DEF Shards, Kinds
  <2>2. CASE cfg.layer # "ep"
    <3>1. e = 0 /\ Checkpoint = one(0)
      BY <2>2 DEF Checkpoint, Mine, Experts
    <3>. HIDE DEF one
    <3>. QED BY <2>1, <3>1 DEF Awaited
  <2>3. CASE cfg.layer = "ep"
    <3>1. e \in {0, 1} /\ Checkpoint = one(0) \o one(1)
      BY <2>3 DEF Checkpoint, Mine, Experts
    <3>2. \A i \in 1..6 : (one(0) \o one(1))[i] = one(0)[i] /\ (one(0) \o one(1))[i + 6] = one(1)[i]
      OBVIOUS
    <3>3. Len(one(0) \o one(1)) = 12
      OBVIOUS
    <3>. HIDE DEF one
    <3>4. PICK i \in 1..6 : one(e)[i] = <<e, shard, kind>>
      BY <2>1
    <3>5. i \in 1..12 /\ i + 6 \in 1..12
      OBVIOUS
    <3>6. CASE e = 0
      <4>1. Checkpoint[i] = <<e, shard, kind>> /\ Len(Checkpoint) = 12
        BY <3>1, <3>2, <3>3, <3>4, <3>6
      <4>. QED BY <3>5, <4>1 DEF Awaited
    <3>7. CASE e = 1
      <4>1. Checkpoint[i + 6] = <<e, shard, kind>> /\ Len(Checkpoint) = 12
        BY <3>1, <3>2, <3>3, <3>4, <3>7
      <4>. QED BY <3>5, <4>1 DEF Awaited
    <3>. QED BY <3>1, <3>6, <3>7
  <2>. QED BY <2>2, <2>3
<1>. HIDE DEF h
<1>. QED BY <1>1, <1>2 DEF Built, Filled, h

\* A tensor of an expert that is elsewhere is skipped.
LEMMA SkipBuilds ==
    ASSUME NEW r, NEW h, NEW T, NEW t \in Seq(T), t # <<>>, Built(r, h, t),
           NEW e, NEW shard, NEW kind, Head(t) = <<e, shard, kind>>, ~Local(r, e)
    PROVE  Built(r, h, Tail(t))
<1>1. ASSUME NEW e2 \in Mine(r), NEW s2 \in Shards, NEW k2 \in Kinds
      PROVE  Awaited(Tail(t), e2, s2, k2) \/ InPlace(r, h, e2, s2, k2)
  <2>1. Awaited(t, e2, s2, k2) \/ InPlace(r, h, e2, s2, k2)
    BY DEF Built, Filled
  <2>2. e2 # e
    BY DEF Mine
  <2>. QED BY <2>1, <2>2, TailAwaits
<1>. QED BY <1>1 DEF Built, Filled

\* A tensor that is stored is in place from then on, and nothing else is touched.
LEMMA StoreBuilds ==
    ASSUME LayerOK, NEW r \in Ranks, NEW h, NEW T, NEW t \in Seq(T), t # <<>>, Built(r, h, t),
           NEW e \in Mine(r), NEW shard \in Shards, NEW kind \in Kinds,
           Head(t) = <<e, shard, kind>>,
           Cut(TpRank(r)) % Elts(kind) = 0,
           NEW g, g = [h EXCEPT ![e][Half(shard)][kind] =
                         Placed(h[e][Half(shard)][kind], Base(r, shard, kind), First(r, kind), Units(r, kind))]
    PROVE  Built(r, g, Tail(t))
<1>. DEFINE H == Half(shard)
            b == Base(r, shard, kind)
            f == First(r, kind)
            u == Units(r, kind)
            P == h[e][H][kind]
            Q == Placed(P, b, f, u)
<1>1. Sized /\ Creatable(r, "w13") /\ Creatable(r, "w2") /\ Shaped(r, h) /\ Filled(r, h, t)
  BY DEF Built
<1>2. /\ Aligned(r, kind) /\ AxisTotal(kind) \in Nat /\ f + u <= AxisTotal(kind)
      /\ f \in Nat /\ u \in Nat
  BY <1>1, OnUnit DEF Aligned
<1>3. H \in Halves /\ b \in Nat
  <2>1. Slots(r, "w13", kind) \in Nat
    BY <1>1, SlotsFit
  <2>. QED BY <2>1 DEF Half, Halves, Base
<1>4. /\ DOMAIN h = Mine(r) /\ \A e2 \in Mine(r) : DOMAIN h[e2] = Halves
      /\ \A e2 \in Mine(r), a2 \in Halves : DOMAIN h[e2][a2] = Kinds
  BY <1>1 DEF Shaped
<1>5. /\ DOMAIN g = Mine(r) /\ \A e2 \in Mine(r) : DOMAIN g[e2] = Halves
      /\ \A e2 \in Mine(r), a2 \in Halves : DOMAIN g[e2][a2] = Kinds
      /\ g[e][H][kind] = Q
      /\ \A e2 \in Mine(r), a2 \in Halves, k2 \in Kinds :
            <<e2, a2, k2>> # <<e, H, kind>> => g[e2][a2][k2] = h[e2][a2][k2]
  <2>1. g = [h EXCEPT ![e][H][kind] = Q]
    OBVIOUS
  <2>2. e \in DOMAIN h /\ H \in DOMAIN h[e] /\ kind \in DOMAIN h[e][H]
    BY <1>3, <1>4
  <2>. HIDE DEF H, Q
  <2>3. /\ DOMAIN g = DOMAIN h
        /\ \A e2 \in DOMAIN h : DOMAIN g[e2] = DOMAIN h[e2]
        /\ \A e2 \in DOMAIN h : \A a2 \in DOMAIN h[e2] : DOMAIN g[e2][a2] = DOMAIN h[e2][a2]
        /\ g[e][H][kind] = Q
        /\ \A e2 \in DOMAIN h : \A a2 \in DOMAIN h[e2] : \A k2 \in DOMAIN h[e2][a2] :
              <<e2, a2, k2>> # <<e, H, kind>> => g[e2][a2][k2] = h[e2][a2][k2]
    BY <2>1, <2>2, Deep
  <2>. QED BY <1>4, <2>3
<1>6. /\ DOMAIN P = 0..(Width(H) * Slots(r, H, kind)) - 1
      /\ \A p \in DOMAIN P : P[p] \in (0..AxisTotal(kind)-1) \cup {Unset}
  BY <1>1, <1>3 DEF Shaped
<1>7. /\ DOMAIN Q = DOMAIN P
      /\ \A p \in DOMAIN P : Q[p] = IF p \in b..b+u-1 THEN f + p - b ELSE P[p]
  BY DEF Placed
<1>. HIDE DEF H, b, f, u, P, Q
<1>8. Shaped(r, g)
  <2>1. \A p \in DOMAIN Q : Q[p] \in (0..AxisTotal(kind)-1) \cup {Unset}
    <3>. SUFFICES ASSUME NEW p \in DOMAIN Q PROVE Q[p] \in (0..AxisTotal(kind)-1) \cup {Unset}
      OBVIOUS
    <3>1. CASE p \in b..b+u-1
      <4>1. Q[p] = f + p - b
        BY <1>7, <3>1
      <4>2. f + p - b \in 0..AxisTotal(kind)-1
        BY <1>2, <1>3, <3>1, Shifted
      <4>. QED BY <4>1, <4>2
    <3>2. CASE p \notin b..b+u-1
      BY <1>6, <1>7, <3>2
    <3>. QED BY <3>1, <3>2
  <2>2. ASSUME NEW e2 \in Mine(r), NEW a2 \in Halves, NEW k2 \in Kinds
        PROVE  /\ DOMAIN g[e2][a2][k2] = 0..(Width(a2) * Slots(r, a2, k2)) - 1
               /\ \A p \in DOMAIN g[e2][a2][k2] :
                     g[e2][a2][k2][p] \in (0..AxisTotal(k2)-1) \cup {Unset}
    <3>1. CASE <<e2, a2, k2>> = <<e, H, kind>>
      BY <1>5, <1>6, <1>7, <2>1, <3>1
    <3>2. CASE <<e2, a2, k2>> # <<e, H, kind>>
      BY <1>1, <1>5, <3>2 DEF Shaped
    <3>. QED BY <3>1, <3>2
  <2>. QED BY <1>5, <2>2 DEF Shaped
<1>9. ASSUME NEW e2 \in Mine(r), NEW s2 \in Shards, NEW k2 \in Kinds
      PROVE  Awaited(Tail(t), e2, s2, k2) \/ InPlace(r, g, e2, s2, k2)
  <2>1. CASE <<e2, s2, k2>> = <<e, shard, kind>>
    <3>1. ASSUME NEW p \in 0..u-1 PROVE Q[b + p] = f + p
      <4>1. b + p \in DOMAIN P
        BY <1>1, <1>6, SlotIn DEF b, u, H
      <4>2. b + p \in b..b+u-1 /\ f + (b + p) - b = f + p
        BY <1>2, <1>3
      <4>. QED BY <1>7, <4>1, <4>2
    <3>2. InPlace(r, g, e, shard, kind)
      BY <1>5, <3>1 DEF InPlace, b, u, f, H
    <3>. QED BY <2>1, <3>2
  <2>2. CASE <<e2, s2, k2>> # <<e, shard, kind>>
    <3>1. CASE Awaited(t, e2, s2, k2)
      BY <2>2, <3>1, TailAwaits
    <3>2. CASE InPlace(r, h, e2, s2, k2)
      <4>1. CASE <<e2, Half(s2), k2>> = <<e, H, kind>>
        <5>1. s2 # shard /\ Half(s2) = Half(shard)
          BY <2>2, <4>1 DEF H
        <5>2. ASSUME NEW p \in 0..u-1
              PROVE  Q[Base(r, s2, kind) + p] = P[Base(r, s2, kind) + p]
          <6>1. Base(r, s2, kind) + p \in DOMAIN P /\ Base(r, s2, kind) + p \notin b..b+u-1
            BY <1>1, <1>6, <5>1, SlotIn DEF b, u, H
          <6>. QED BY <1>7, <6>1
        <5>. QED BY <1>5, <3>2, <4>1, <5>2 DEF InPlace, P, u, H
      <4>2. CASE <<e2, Half(s2), k2>> # <<e, H, kind>>
        <5>1. Half(s2) \in Halves
          BY DEF Half, Halves
        <5>2. g[e2][Half(s2)][k2] = h[e2][Half(s2)][k2]
          BY <1>5, <4>2, <5>1
        <5>. QED BY <3>2, <5>2 DEF InPlace
      <4>. QED BY <4>1, <4>2
    <3>. QED BY <1>1, <3>1, <3>2 DEF Filled
  <2>. QED BY <2>1, <2>2
<1>. QED BY <1>1, <1>8, <1>9 DEF Built, Filled

\* A rank without channels has nothing to store.
LEMMA NoneBuilds ==
    ASSUME NEW r, NEW h, NEW T, NEW t \in Seq(T), t # <<>>, Built(r, h, t),
           NEW e, NEW shard, NEW kind, Head(t) = <<e, shard, kind>>,
           Cut(TpRank(r)) % Elts(kind) = 0, Units(r, kind) = 0
    PROVE  Built(r, h, Tail(t))
<1>1. ASSUME NEW e2 \in Mine(r), NEW s2 \in Shards, NEW k2 \in Kinds
      PROVE  Awaited(Tail(t), e2, s2, k2) \/ InPlace(r, h, e2, s2, k2)
  <2>1. Awaited(t, e2, s2, k2) \/ InPlace(r, h, e2, s2, k2)
    BY DEF Built, Filled
  <2>2. CASE <<e2, s2, k2>> = <<e, shard, kind>>
    <3>1. k2 = kind
      BY <2>2
    <3>. QED BY <3>1 DEF InPlace
  <2>3. CASE <<e2, s2, k2>> # <<e, shard, kind>>
    BY <2>1, <2>3, TailAwaits
  <2>. QED BY <2>2, <2>3
<1>. QED BY <1>1 DEF Built, Filled

-----------------------------------------------------------------------------
(* The inductive invariant *)

\* Each rank's progress, and what it has built so far.
StateOK ==
    /\ st \in [Ranks -> {"init", "loading", "ready", "raised"}]
    /\ todo \in [Ranks -> Seq(Experts \X Shards \X Kinds)]
    /\ held = [r \in Ranks |-> held[r]]
    /\ \A r \in Ranks :
        /\ st[r] = "init" => todo[r] = Checkpoint
        /\ st[r] = "ready" => todo[r] = <<>>
        /\ st[r] \in {"loading", "ready"} => Built(r, held[r], todo[r])

IInv == LayerOK /\ StateOK

\* The layer does not change.
LEMMA LayerStays ==
    ASSUME UNCHANGED <<cfg, lean>>
    PROVE  /\ LayerOK' = LayerOK /\ Experts' = Experts /\ Checkpoint' = Checkpoint
           /\ \A r, h, t : Built(r, h, t)' = Built(r, h, t)
<1>1. LayerOK' = LayerOK /\ Experts' = Experts /\ Checkpoint' = Checkpoint
  BY DEF LayerOK, Experts, Checkpoint, Layer, Orders
<1>2. TpSize' = TpSize /\ \A r : TpRank(r)' = TpRank(r)
  BY DEF TpSize, TpRank
<1>3. Weights' = Weights /\ Align' = Align /\ \A kind : Elts(kind)' = Elts(kind)
  BY <1>2 DEF Weights, Align, Elts
<1>4. \A half : HetHalf(half)' = HetHalf(half)
  BY <1>3 DEF HetHalf, Active
<1>5. \A half, r : PerPartition(r, half)' = PerPartition(r, half)
  BY <1>2, <1>3, <1>4 DEF PerPartition
<1>6. Sized' = Sized
  BY <1>2, <1>3, <1>4 DEF Sized, Sizable
<1>7. \A half, r : Creatable(r, half)' = Creatable(r, half)
  BY <1>3, <1>5 DEF Creatable
<1>8. \A half, r, kind : Slots(r, half, kind)' = Slots(r, half, kind)
  BY <1>3, <1>5 DEF Slots
<1>9. \A r : Mine(r)' = Mine(r)
  BY <1>1 DEF Mine, Local
<1>10. \A kind : AxisTotal(kind)' = AxisTotal(kind)
  BY <1>3 DEF AxisTotal
<1>11. \A t : Cut(t)' = Cut(t)
  BY <1>2, <1>3, <1>4 DEF Cut
<1>12. \A r, kind : First(r, kind)' = First(r, kind) /\ Units(r, kind)' = Units(r, kind)
  BY <1>2, <1>3, <1>5, <1>11 DEF First, Units
<1>13. \A r, shard, kind : Base(r, shard, kind)' = Base(r, shard, kind)
  BY <1>8 DEF Base
<1>14. \A r, h : Shaped(r, h)' = Shaped(r, h)
  BY <1>8, <1>9, <1>10 DEF Shaped
<1>15. \A r, h, e, shard, kind : InPlace(r, h, e, shard, kind)' = InPlace(r, h, e, shard, kind)
  BY <1>2, <1>3, <1>11, <1>12, <1>13 DEF InPlace
<1>16. \A r, h, t : Filled(r, h, t)' = Filled(r, h, t)
  BY <1>9, <1>15 DEF Filled
<1>17. \A r, h, t : Built(r, h, t)' = Built(r, h, t)
  BY <1>6, <1>7, <1>14, <1>16 DEF Built
<1>. QED BY <1>1, <1>17

\* The checkpoint is a list of tensors of the experts.
LEMMA CheckpointIs == Checkpoint \in Seq(Experts \X Shards \X Kinds)
<1>. DEFINE one(x) == <<<<x, "w1", "weight">>, <<x, "w1", "scale">>, <<x, "w3", "weight">>,
                       <<x, "w3", "scale">>, <<x, "w2", "weight">>, <<x, "w2", "scale">>>>
            S == Experts \X Shards \X Kinds
<1>1. ASSUME NEW x \in Experts PROVE one(x) \in Seq(S)
  <2>1. \A i \in 1..6 : one(x)[i] \in S
    BY DEF Shards, Kinds
  <2>2. \A a, b, c, d, f, g \in S : <<a, b, c, d, f, g>> \in Seq(S)
    <3>. HIDE DEF S
    <3>. QED OBVIOUS
  <2>3. one(x) = <<one(x)[1], one(x)[2], one(x)[3], one(x)[4], one(x)[5], one(x)[6]>>
    OBVIOUS
  <2>. HIDE DEF one, S
  <2>4. /\ one(x)[1] \in S /\ one(x)[2] \in S /\ one(x)[3] \in S
        /\ one(x)[4] \in S /\ one(x)[5] \in S /\ one(x)[6] \in S
    BY <2>1
  <2>5. <<one(x)[1], one(x)[2], one(x)[3], one(x)[4], one(x)[5], one(x)[6]>> \in Seq(S)
    BY <2>2, <2>4
  <2>. QED BY <2>3, <2>5
<1>2. CASE cfg.layer # "ep"
  <2>1. 0 \in Experts /\ Checkpoint = one(0)
    BY <1>2 DEF Checkpoint, Experts
  <2>. QED BY <1>1, <2>1
<1>3. CASE cfg.layer = "ep"
  <2>1. 0 \in Experts /\ 1 \in Experts /\ Checkpoint = one(0) \o one(1)
    BY <1>3 DEF Checkpoint, Experts
  <2>2. one(0) \in Seq(S) /\ one(1) \in Seq(S)
    BY <1>1, <2>1
  <2>. HIDE DEF one, S
  <2>3. one(0) \o one(1) \in Seq(S)
    BY <2>2
  <2>. QED BY <2>1, <2>3 DEF S
<1>. QED BY <1>2, <1>3

\* A step of one rank: what it leaves behind has to be right, and the others are as they were.
LEMMA StepKeeps ==
    ASSUME IInv, UNCHANGED <<cfg, lean>>, NEW r \in Ranks,
           NEW s \in {"loading", "ready", "raised"}, NEW t, NEW h,
           t \in Seq(Experts \X Shards \X Kinds),
           st' = [st EXCEPT ![r] = s], todo' = [todo EXCEPT ![r] = t],
           held' = [held EXCEPT ![r] = h],
           s = "ready" => t = <<>>,
           s \in {"loading", "ready"} => Built(r, h, t)
    PROVE  IInv'
<1>1. LayerOK' /\ Experts' = Experts /\ Checkpoint' = Checkpoint
  BY LayerStays DEF IInv
<1>2. \A q \in Ranks : Built(q, held[q], todo[q])' <=> Built(q, held'[q], todo'[q])
  BY LayerStays
<1>3. \A q \in Ranks : st'[q] = IF q = r THEN s ELSE st[q]
  BY DEF IInv, StateOK
<1>4. \A q \in Ranks : todo'[q] = IF q = r THEN t ELSE todo[q]
  BY DEF IInv, StateOK
<1>5. \A q \in Ranks : held'[q] = IF q = r THEN h ELSE held[q]
  BY DEF IInv, StateOK
<1>6. /\ st' \in [Ranks -> {"init", "loading", "ready", "raised"}]
      /\ todo' \in [Ranks -> Seq(Experts \X Shards \X Kinds)]
      /\ held' = [q \in Ranks |-> held'[q]]
  BY DEF IInv, StateOK
<1>7. ASSUME NEW q \in Ranks
      PROVE  /\ st'[q] = "init" => todo'[q] = Checkpoint
             /\ st'[q] = "ready" => todo'[q] = <<>>
             /\ st'[q] \in {"loading", "ready"} => Built(q, held'[q], todo'[q])
  <2>1. CASE q = r
    BY <1>3, <1>4, <1>5, <2>1
  <2>2. CASE q # r
    BY <1>3, <1>4, <1>5, <2>2 DEF IInv, StateOK
  <2>. QED BY <2>1, <2>2
<1>. QED BY <1>1, <1>2, <1>6, <1>7 DEF IInv, StateOK

\* The invariant holds before anything is built.
LEMMA InitHolds == Init => IInv
<1>. SUFFICES ASSUME Init PROVE IInv
  OBVIOUS
<1>1. LayerOK
  BY ShardAssumption DEF Init, LayerOK
<1>2. StateOK
  BY CheckpointIs DEF Init, StateOK
<1>. QED BY <1>1, <1>2 DEF IInv

\* What a rank has in hand when a tensor is upcoming.
LEMMA UpcomingIs ==
    ASSUME IInv, NEW r \in Ranks, NEW e, NEW shard, NEW kind, Upcoming(r, e, shard, kind)
    PROVE  /\ LayerOK /\ st[r] = "loading"
           /\ todo[r] \in Seq(Experts \X Shards \X Kinds) /\ todo[r] # <<>>
           /\ Head(todo[r]) = <<e, shard, kind>>
           /\ Tail(todo[r]) \in Seq(Experts \X Shards \X Kinds)
           /\ Built(r, held[r], todo[r])
           /\ st' = st => st' = [st EXCEPT ![r] = "loading"]
           /\ held' = held => held' = [held EXCEPT ![r] = held[r]]
<1>1. /\ LayerOK /\ st[r] = "loading" /\ todo[r] # <<>> /\ Head(todo[r]) = <<e, shard, kind>>
      /\ todo[r] \in Seq(Experts \X Shards \X Kinds) /\ Built(r, held[r], todo[r])
  BY DEF IInv, StateOK, Upcoming
<1>2. Tail(todo[r]) \in Seq(Experts \X Shards \X Kinds)
  <2>. DEFINE S == Experts \X Shards \X Kinds
  <2>. HIDE DEF S
  <2>. QED BY <1>1 DEF S
<1>3. st = [st EXCEPT ![r] = "loading"]
  BY <1>1 DEF IInv, StateOK
<1>4. held = [held EXCEPT ![r] = held[r]]
  BY DEF IInv, StateOK
<1>. QED BY <1>1, <1>2, <1>3, <1>4

\* A rank that raises leaves its parameters as they are.
LEMMA RaisesKeeps ==
    ASSUME IInv, NEW r \in Ranks, Raises(r) PROVE IInv'
<1>1. /\ UNCHANGED <<cfg, lean>> /\ st' = [st EXCEPT ![r] = "raised"]
      /\ todo' = [todo EXCEPT ![r] = todo[r]] /\ held' = [held EXCEPT ![r] = held[r]]
      /\ todo[r] \in Seq(Experts \X Shards \X Kinds)
  BY DEF Raises, IInv, StateOK
<1>. QED BY <1>1, StepKeeps

\* create_weights makes parameters in which nothing is loaded yet.
LEMMA CreateKeeps ==
    ASSUME IInv, NEW r \in Ranks, Create(r) PROVE IInv'
<1>. DEFINE h == [e \in Mine(r) |-> [half \in Halves |-> [kind \in Kinds |-> Empty(r, half, kind)]]]
<1>1. /\ UNCHANGED <<cfg, lean>> /\ st' = [st EXCEPT ![r] = "loading"]
      /\ todo' = [todo EXCEPT ![r] = todo[r]]
      /\ todo[r] \in Seq(Experts \X Shards \X Kinds) /\ todo[r] = Checkpoint /\ LayerOK
  BY DEF Create, IInv, StateOK
<1>2. held' = [held EXCEPT ![r] = h]
  BY DEF Create, Mine, Halves
<1>3. Sized /\ Creatable(r, "w13") /\ Creatable(r, "w2")
  BY DEF Create, Sized
<1>4. Built(r, h, Checkpoint)
  BY <1>1, <1>3, CreateBuilds
<1>. HIDE DEF h
<1>. QED BY <1>1, <1>2, <1>4, StepKeeps

\* An expert that lives elsewhere is skipped.
LEMMA SkipKeeps ==
    ASSUME IInv, NEW r \in Ranks, NEW e, NEW shard, NEW kind, Skip(r, e, shard, kind)
    PROVE  IInv'
<1>1. Upcoming(r, e, shard, kind) /\ ~Local(r, e)
  BY DEF Skip
<1>2. /\ UNCHANGED <<cfg, lean>> /\ st' = st /\ held' = held
      /\ todo' = [todo EXCEPT ![r] = Tail(todo[r])]
  BY DEF Skip, Advance
<1>3. /\ todo[r] \in Seq(Experts \X Shards \X Kinds) /\ todo[r] # <<>>
      /\ Head(todo[r]) = <<e, shard, kind>> /\ Built(r, held[r], todo[r])
  BY <1>1, UpcomingIs
<1>4. Built(r, held[r], Tail(todo[r]))
  BY <1>1, <1>3, SkipBuilds
<1>5. /\ st' = [st EXCEPT ![r] = "loading"] /\ held' = [held EXCEPT ![r] = held[r]]
      /\ Tail(todo[r]) \in Seq(Experts \X Shards \X Kinds)
  BY <1>1, <1>2, UpcomingIs
<1>. QED BY <1>2, <1>4, <1>5, StepKeeps

\* The step of a load that stores the rank's own units.
LEMMA StoredKeeps ==
    ASSUME IInv, NEW r \in Ranks, NEW e \in Mine(r), NEW shard \in Shards, NEW kind \in Kinds,
           Upcoming(r, e, shard, kind), Advance(r),
           Cut(TpRank(r)) % Elts(kind) = 0,
           Stored(r, e, shard, kind, First(r, kind), Units(r, kind))
    PROVE  IInv'
<1>. DEFINE g == [held[r] EXCEPT ![e][Half(shard)][kind] =
                    Placed(held[r][e][Half(shard)][kind], Base(r, shard, kind),
                           First(r, kind), Units(r, kind))]
<1>1. /\ UNCHANGED <<cfg, lean>> /\ st' = st
      /\ todo' = [todo EXCEPT ![r] = Tail(todo[r])]
  BY DEF Advance
<1>2. held' = [held EXCEPT ![r] = g]
  BY DEF Stored
<1>3. /\ todo[r] \in Seq(Experts \X Shards \X Kinds) /\ todo[r] # <<>> /\ LayerOK
      /\ Head(todo[r]) = <<e, shard, kind>> /\ Built(r, held[r], todo[r])
  BY UpcomingIs
<1>4. Built(r, g, Tail(todo[r]))
  BY <1>3, StoreBuilds
<1>5. /\ st' = [st EXCEPT ![r] = "loading"]
      /\ Tail(todo[r]) \in Seq(Experts \X Shards \X Kinds)
  BY <1>1, UpcomingIs
<1>. HIDE DEF g
<1>. QED BY <1>1, <1>2, <1>4, <1>5, StepKeeps

\* _load_w13 and _load_w2 store the rank's own units, or none where it has none.
LEMMA LoadMoeKeeps ==
    ASSUME IInv, NEW r \in Ranks, NEW e \in Experts, NEW shard \in Shards, NEW kind \in Kinds,
           LoadMoe(r, e, shard, kind)
    PROVE  IInv'
<1>. DEFINE start == MoeStart(r, kind)
            avail == AxisTotal(kind) - start
            size  == IF MoeSize(r, kind) < avail THEN MoeSize(r, kind) ELSE avail
<1>1. Upcoming(r, e, shard, kind) /\ cfg.layer # "mlp" /\ e \in Mine(r)
  BY DEF LoadMoe, Mine
<1>2. CASE Raises(r)
  BY <1>2, RaisesKeeps
<1>3. CASE ~Raises(r)
  <2>1. /\ MoeShardable(r, kind) /\ Advance(r)
        /\ IF avail <= 0 THEN UNCHANGED held ELSE Stored(r, e, shard, kind, start, size)
    BY <1>3 DEF LoadMoe
  <2>2. LayerOK /\ Built(r, held[r], todo[r])
    BY <1>1, UpcomingIs
  <2>3. Sized /\ Creatable(r, "w2")
    BY <2>2 DEF Built
  <2>4. /\ Cut(TpRank(r)) % Elts(kind) = 0
        /\ MoeStart(r, kind) = First(r, kind) /\ MoeSize(r, kind) = Units(r, kind)
    BY <1>1, <2>1, <2>2, <2>3, MoeShardIs
  <2>5. /\ First(r, kind) \in Nat /\ Units(r, kind) \in Nat /\ AxisTotal(kind) \in Nat
        /\ First(r, kind) + Units(r, kind) <= AxisTotal(kind)
    BY <2>2, <2>3, <2>4, OnUnit DEF Aligned
  <2>6. size = Units(r, kind) /\ start = First(r, kind)
    BY <2>4, <2>5
  <2>7. CASE avail <= 0
    <3>1. Units(r, kind) = 0
      BY <2>4, <2>5, <2>7
    <3>2. /\ UNCHANGED <<cfg, lean>> /\ st' = st /\ held' = held
          /\ todo' = [todo EXCEPT ![r] = Tail(todo[r])]
      BY <2>1, <2>7 DEF Advance
    <3>3. /\ todo[r] \in Seq(Experts \X Shards \X Kinds) /\ todo[r] # <<>>
          /\ Head(todo[r]) = <<e, shard, kind>>
      BY <1>1, UpcomingIs
    <3>4. Built(r, held[r], Tail(todo[r]))
      BY <2>2, <2>4, <3>1, <3>3, NoneBuilds
    <3>5. /\ st' = [st EXCEPT ![r] = "loading"] /\ held' = [held EXCEPT ![r] = held[r]]
          /\ Tail(todo[r]) \in Seq(Experts \X Shards \X Kinds)
      BY <1>1, <3>2, UpcomingIs
    <3>. QED BY <3>2, <3>4, <3>5, StepKeeps
  <2>8. CASE ~(avail <= 0)
    <3>1. Stored(r, e, shard, kind, First(r, kind), Units(r, kind))
      BY <2>1, <2>6, <2>8
    <3>. QED BY <1>1, <2>1, <2>4, <3>1, StoredKeeps
  <2>. QED BY <2>7, <2>8
<1>. QED BY <1>2, <1>3

\* The loaders of a dense layer store the rank's own units.
LEMMA LoadLinearKeeps ==
    ASSUME IInv, NEW r \in Ranks, NEW shard \in Shards, NEW kind \in Kinds,
           LoadLinear(r, shard, kind)
    PROVE  IInv'
<1>1. Upcoming(r, 0, shard, kind) /\ cfg.layer = "mlp"
  BY DEF LoadLinear
<1>2. 0 \in Mine(r)
  BY <1>1 DEF Mine, Experts, Local
<1>3. CASE Raises(r)
  BY <1>3, RaisesKeeps
<1>4. CASE ~Raises(r)
  <2>1. /\ LinearPlaceable(r, Half(shard), kind) /\ Advance(r)
        /\ Stored(r, 0, shard, kind, LinearStart(r, Half(shard), kind), Slots(r, Half(shard), kind))
    BY <1>4 DEF LoadLinear
  <2>2. LayerOK /\ Built(r, held[r], todo[r])
    BY <1>1, UpcomingIs
  <2>3. Sized /\ Creatable(r, "w2") /\ Half(shard) \in {"w13", "w2"}
    BY <2>2 DEF Built, Half
  <2>4. /\ Cut(TpRank(r)) % Elts(kind) = 0
        /\ LinearStart(r, Half(shard), kind) = First(r, kind)
        /\ Slots(r, Half(shard), kind) = Units(r, kind)
    BY <1>1, <2>1, <2>2, <2>3, LinearShardIs
  <2>5. Stored(r, 0, shard, kind, First(r, kind), Units(r, kind))
    BY <2>1, <2>4
  <2>. QED BY <1>1, <1>2, <2>1, <2>4, <2>5, StoredKeeps
<1>. QED BY <1>3, <1>4

\* A rank is ready when nothing is awaited.
LEMMA ReadyKeeps ==
    ASSUME IInv, NEW r \in Ranks, Ready(r) PROVE IInv'
<1>1. /\ UNCHANGED <<cfg, lean>> /\ st' = [st EXCEPT ![r] = "ready"]
      /\ todo' = [todo EXCEPT ![r] = todo[r]] /\ held' = [held EXCEPT ![r] = held[r]]
      /\ todo[r] \in Seq(Experts \X Shards \X Kinds) /\ todo[r] = <<>>
      /\ Built(r, held[r], todo[r])
  BY DEF Ready, IInv, StateOK
<1>. QED BY <1>1, StepKeeps

\* Nothing happens.
LEMMA StutterKeeps == ASSUME IInv, UNCHANGED vars PROVE IInv'
<1>1. UNCHANGED <<cfg, lean>> /\ st' = st /\ todo' = todo /\ held' = held
  BY DEF vars
<1>2. LayerOK' /\ Experts' = Experts /\ Checkpoint' = Checkpoint
  BY <1>1, LayerStays DEF IInv
<1>3. \A q \in Ranks : Built(q, held[q], todo[q])' <=> Built(q, held'[q], todo'[q])
  BY <1>1, LayerStays
<1>. QED BY <1>1, <1>2, <1>3 DEF IInv, StateOK

\* The invariant holds always: whatever a rank has loaded is its own interval of the
\* checkpoint, in the slots that the kernels read.
THEOREM Invariance == Spec => []IInv
<1>1. Init => IInv
  BY InitHolds
<1>2. IInv /\ [Next]_vars => IInv'
  <2>. SUFFICES ASSUME IInv, [Next]_vars PROVE IInv'
    OBVIOUS
  <2>1. ASSUME NEW r \in Ranks, Create(r) PROVE IInv'
    BY <2>1, CreateKeeps
  <2>2. ASSUME NEW r \in Ranks, CreateRaises(r) PROVE IInv'
    BY <2>2, RaisesKeeps DEF CreateRaises
  <2>3. ASSUME NEW r \in Ranks, Ready(r) PROVE IInv'
    BY <2>3, ReadyKeeps
  <2>4. ASSUME NEW r \in Ranks, NEW e \in Experts, NEW shard \in {"w1", "w3", "w2"},
               NEW kind \in Kinds, Skip(r, e, shard, kind)
        PROVE  IInv'
    BY <2>4, SkipKeeps
  <2>5. ASSUME NEW r \in Ranks, NEW e \in Experts, NEW shard \in {"w1", "w3", "w2"},
               NEW kind \in Kinds, LoadMoe(r, e, shard, kind)
        PROVE  IInv'
    BY <2>5, LoadMoeKeeps DEF Shards
  <2>6. ASSUME NEW r \in Ranks, NEW shard \in {"w1", "w3", "w2"}, NEW kind \in Kinds,
               LoadLinear(r, shard, kind)
        PROVE  IInv'
    BY <2>6, LoadLinearKeeps DEF Shards
  <2>7. CASE Done
    BY <2>7, StutterKeeps DEF Done
  <2>8. CASE UNCHANGED vars
    BY <2>8, StutterKeeps
  <2>. QED BY <2>1, <2>2, <2>3, <2>4, <2>5, <2>6, <2>7, <2>8 DEF Next
<1>. QED BY <1>1, <1>2, PTL DEF Spec

-----------------------------------------------------------------------------
(* What the invariant implies *)

\* On a rank that is ready, all of its tensors are in place.
LEMMA ReadyIs ==
    ASSUME IInv, NEW r \in Ranks, st[r] = "ready"
    PROVE  /\ LayerOK /\ Sized /\ Creatable(r, "w2") /\ Shaped(r, held[r])
           /\ DOMAIN held[r] = Mine(r)
           /\ \A e \in Mine(r), shard \in Shards, kind \in Kinds :
                 InPlace(r, held[r], e, shard, kind)
<1>1. LayerOK /\ todo[r] = <<>> /\ Built(r, held[r], todo[r])
  BY DEF IInv, StateOK
<1>2. \A e, shard, kind : ~Awaited(todo[r], e, shard, kind)
  BY <1>1 DEF Awaited
<1>. QED BY <1>1, <1>2 DEF Built, Filled, Shaped

\* The kernels find the units of the rank where they read.
LEMMA FoundIs ==
    ASSUME IInv, NEW r \in Ranks, st[r] = "ready", NEW e \in Mine(r), NEW shard \in Shards,
           NEW kind \in Kinds, NEW slot \in 0..Units(r, kind)-1
    PROVE  Found(r, e, shard, kind, slot) = First(r, kind) + slot
<1>1. /\ LayerOK /\ Sized /\ Creatable(r, "w2") /\ Shaped(r, held[r])
      /\ InPlace(r, held[r], e, shard, kind)
  BY ReadyIs
<1>2. held[r][e][Half(shard)][kind][Base(r, shard, kind) + slot] = First(r, kind) + slot
  BY <1>1 DEF InPlace
<1>3. slot \in Int
  <2>1. Units(r, kind) \in Nat
    BY <1>1, SlotsFit
  <2>. QED BY <2>1
<1>4. CASE shard = "w3"
  <2>1. Half(shard) = "w13" /\ Base(r, shard, kind) = Slots(r, "w13", kind)
    BY <1>4 DEF Half, Base
  <2>2. PICK s \in Nat : s = Slots(r, "w13", kind)
    BY <1>1, SlotsFit
  <2>3. DOMAIN held[r][e]["w13"][kind] = 0..(2 * s)-1
    BY <1>1, <2>2 DEF Shaped, Halves, Width
  <2>4. Cardinality(0..(2 * s)-1) = 2 * s
    <3>1. PICK m \in Nat : m = 2 * s
      OBVIOUS
    <3>2. Cardinality(0..m-1) = m
      BY FS_Interval
    <3>. QED BY <3>1, <3>2
  <2>5. (2 * s) \div 2 = s
    OBVIOUS
  <2>. QED BY <1>2, <1>4, <2>1, <2>2, <2>3, <2>4, <2>5 DEF Found
<1>5. CASE shard # "w3"
  <2>1. Base(r, shard, kind) = 0
    BY <1>5 DEF Base
  <2>. QED BY <1>2, <1>3, <1>5, <2>1 DEF Found
<1>. QED BY <1>4, <1>5

\* Division of a sum whose first part is in whole units.
LEMMA SplitDivision ==
    ASSUME NEW u \in Nat \ {0}, NEW f \in Nat, NEW n \in Nat, NEW p \in 0..(u * n)-1
    PROVE  /\ p \div u \in 0..n-1
           /\ ((f + (p \div u)) * u) + (p % u) = u * f + p
           /\ (u * f + p) \div u = f + (p \div u)
<1>1. u * n \in Nat /\ p \in Nat /\ u * n >= p + 1
  OBVIOUS
<1>2. PICK q \in Nat : q = p \div u
  BY <1>1, Division
<1>3. PICK y \in Int : y = p % u
  BY <1>1, Division
<1>4. y \in 0..u-1 /\ p = u * q + y
  BY <1>1, <1>2, <1>3, Division
<1>5. q < n
  <2>. SUFFICES ASSUME n <= q PROVE FALSE
    OBVIOUS
  <2>1. u * n <= u * q /\ u * q \in Nat
    OBVIOUS
  <2>. QED BY <1>1, <1>4, <2>1
<1>6. u * f + p = u * (f + q) + y
  <2>1. u * (f + q) = u * f + u * q /\ u * f \in Nat /\ u * q \in Nat
    OBVIOUS
  <2>. QED BY <1>4, <2>1
<1>7. (u * (f + q) + y) \div u = f + q
  <2>1. PICK x \in Nat : x = f + q
    OBVIOUS
  <2>2. (u * x + y) \div u = x
    BY <1>4, Division
  <2>. QED BY <2>1, <2>2
<1>8. (f + q) * u = u * (f + q)
  OBVIOUS
<1>. QED BY <1>2, <1>3, <1>5, <1>6, <1>7, <1>8

\* The p-th channel of a rank is the p-th one after its cut, by each of the weights.
LEMMA ChannelIs ==
    ASSUME IInv, NEW r \in Ranks, st[r] = "ready", NEW e \in Mine(r), NEW shard \in Shards,
           NEW p \in 0..PerPartition(r, "w2")-1
    PROVE  /\ Channel(r, e, shard, p) = Cut(TpRank(r)) + p
           /\ Found(r, e, shard, "scale", p \div cfg.group) = (Cut(TpRank(r)) + p) \div cfg.group
<1>1. LayerOK /\ Sized /\ Creatable(r, "w2")
  BY ReadyIs
<1>2. ASSUME NEW kind \in Kinds
      PROVE  /\ Elts(kind) \in Nat \ {0} /\ Aligned(r, kind)
             /\ p \div Elts(kind) \in 0..Units(r, kind)-1
             /\ ((First(r, kind) + (p \div Elts(kind))) * Elts(kind)) + (p % Elts(kind)) = Cut(TpRank(r)) + p
             /\ (Cut(TpRank(r)) + p) \div Elts(kind) = First(r, kind) + (p \div Elts(kind))
  <2>1. InPlace(r, held[r], e, shard, kind)
    BY ReadyIs
  <2>2. Aligned(r, kind)
    BY <1>1, <2>1, OnUnit DEF InPlace
  <2>3. PICK u \in Nat \ {0} : u = Elts(kind)
    BY <1>1, GroupIs
  <2>4. PICK f \in Nat, n \in Nat : f = First(r, kind) /\ n = Units(r, kind)
    BY <2>2 DEF Aligned
  <2>5. p \in 0..(u * n)-1 /\ Cut(TpRank(r)) = u * f
    BY <2>2, <2>3, <2>4 DEF Aligned
  <2>6. /\ p \div u \in 0..n-1
        /\ ((f + (p \div u)) * u) + (p % u) = u * f + p
        /\ (u * f + p) \div u = f + (p \div u)
    BY <2>5, SplitDivision, ZenonT(20)
  <2>. QED BY <2>2, <2>3, <2>4, <2>5, <2>6
<1>3. Elts("weight") = cfg.pack /\ Elts("scale") = cfg.group /\ "weight" \in Kinds /\ "scale" \in Kinds
  BY DEF Elts, Kinds
<1>4. Channel(r, e, shard, p) = Cut(TpRank(r)) + p
  <2>1. Found(r, e, shard, "weight", p \div cfg.pack) = First(r, "weight") + (p \div cfg.pack)
    BY <1>2, <1>3, FoundIs
  <2>. QED BY <1>2, <1>3, <2>1 DEF Channel
<1>5. Found(r, e, shard, "scale", p \div cfg.group) = First(r, "scale") + (p \div cfg.group)
  BY <1>2, <1>3, FoundIs
<1>. QED BY <1>2, <1>3, <1>4, <1>5

\* The p-th channel of each weight is the p-th one after the cut, and its scale is its group's.
LEMMA SlotsMeetHolds == IInv => SlotsMeet
<1>. SUFFICES ASSUME IInv, NEW r \in Ranks, st[r] = "ready"
              PROVE  /\ PerPartition(r, "w13") = PerPartition(r, "w2")
                     /\ \A e \in DOMAIN held[r], p \in 0..PerPartition(r, "w2")-1, shard \in {"w1", "w3", "w2"} :
                         /\ Channel(r, e, shard, p) = Channel(r, e, "w2", p)
                         /\ Found(r, e, shard, "scale", p \div cfg.group) = Channel(r, e, "w2", p) \div cfg.group
  BY DEF SlotsMeet
<1>1. LayerOK /\ Sized /\ DOMAIN held[r] = Mine(r)
  BY ReadyIs
<1>2. PerPartition(r, "w13") = PerPartition(r, "w2")
  BY <1>1, HalvesAgree
<1>3. "w2" \in Shards /\ Shards = {"w1", "w3", "w2"}
  BY DEF Shards
<1>4. ASSUME NEW e \in Mine(r), NEW p \in 0..PerPartition(r, "w2")-1, NEW shard \in Shards
      PROVE  /\ Channel(r, e, shard, p) = Channel(r, e, "w2", p)
             /\ Found(r, e, shard, "scale", p \div cfg.group) = Channel(r, e, "w2", p) \div cfg.group
  BY <1>3, ChannelIs
<1>. QED BY <1>1, <1>2, <1>3, <1>4

\* One rank has an expert and a place in the tensor-parallel group.
LEMMA OneRank ==
    ASSUME LayerOK, NEW e \in Experts, NEW t \in 0..TpSize-1
    PROVE  \E r \in Ranks : \A q \in Ranks : (e \in Mine(q) /\ TpRank(q) = t) <=> q = r
<1>1. N \in Nat \ {0}
  BY GroupIs
<1>2. CASE cfg.layer = "ep"
  <2>1. t = 0 /\ e \in Nat /\ \A q : TpRank(q) = 0
    BY <1>2 DEF TpSize, TpRank, Experts
  <2>2. e % N \in 0..N-1
    BY <1>1, <2>1, Division
  <2>3. \A q : e \in Mine(q) <=> q = e % N
    BY <1>2 DEF Mine, Local
  <2>. QED BY <2>1, <2>2, <2>3 DEF Ranks
<1>3. CASE cfg.layer # "ep"
  <2>1. TpSize = N /\ \A q : TpRank(q) = q /\ e \in Mine(q)
    BY <1>3 DEF TpSize, TpRank, Mine, Local
  <2>. QED BY <2>1 DEF Ranks
<1>. QED BY <1>2, <1>3

\* A channel lies between two cuts, and one rank has the expert there.
LEMMA EachOnceHolds == IInv => EachOnce
<1>. SUFFICES ASSUME IInv, \A r \in Ranks : st[r] = "ready", NEW e \in Experts, NEW c \in 0..cfg.inter-1
              PROVE  Cardinality({x \in Ranks \X (0..cfg.inter-1) :
                        /\ e \in DOMAIN held[x[1]] /\ x[2] < PerPartition(x[1], "w2")
                        /\ Channel(x[1], e, "w2", x[2]) = c}) = 1
  BY DEF EachOnce
<1>. DEFINE X == {x \in Ranks \X (0..cfg.inter-1) :
                     /\ e \in DOMAIN held[x[1]] /\ x[2] < PerPartition(x[1], "w2")
                     /\ Channel(x[1], e, "w2", x[2]) = c}
            g == [t \in 0..TpSize |-> Cut(t)]
<1>1. /\ LayerOK /\ N \in Nat \ {0} /\ TpSize \in Nat \ {0} /\ cfg.inter \in Nat \ {0}
      /\ \A r \in Ranks : TpRank(r) \in 0..TpSize-1
  BY GroupIs DEF IInv
<1>2. Sized
  <2>1. 0 \in Ranks
    BY <1>1 DEF Ranks
  <2>. QED BY <2>1, ReadyIs
<1>3. /\ \A t \in 0..TpSize : Cut(t) \in Nat
      /\ Cut(0) = 0 /\ Cut(TpSize) = cfg.inter
      /\ \A t \in 0..TpSize-1 : Cut(t) <= Cut(t + 1)
      /\ \A r \in Ranks : /\ PerPartition(r, "w2") \in Nat
                          /\ Cut(TpRank(r) + 1) = Cut(TpRank(r)) + PerPartition(r, "w2")
  BY <1>1, <1>2, Cuts
<1>4. /\ \E t \in 0..TpSize-1 : Cut(t) <= c /\ c < Cut(t + 1)
      /\ \A t, s \in 0..TpSize-1 :
            Cut(t) <= c /\ c < Cut(t + 1) /\ Cut(s) <= c /\ c < Cut(s + 1) => t = s
  <2>1. PICK n \in Nat, total \in Nat : n = TpSize /\ total = cfg.inter
    BY <1>1
  <2>2. /\ \A i \in 0..n : g[i] = Cut(i) /\ g[i] \in Nat
        /\ g[0] = 0 /\ g[n] = total /\ \A i \in 0..n-1 : g[i] <= g[i + 1]
        /\ \A i \in 0..n-1 : g[i] = Cut(i) /\ g[i + 1] = Cut(i + 1)
        /\ c \in 0..total-1
    BY <1>3, <2>1
  <2>. HIDE DEF g
  <2>3. /\ \E i \in 0..n-1 : g[i] <= c /\ c < g[i + 1]
        /\ \A i, j \in 0..n-1 :
             g[i] <= c /\ c < g[i + 1] /\ g[j] <= c /\ c < g[j + 1] => i = j
    BY <2>2, CutsCover
  <2>. QED BY <2>1, <2>2, <2>3
<1>5. PICK t \in 0..TpSize-1 : Cut(t) <= c /\ c < Cut(t + 1)
  BY <1>4
<1>6. PICK r \in Ranks : \A q \in Ranks : (e \in Mine(q) /\ TpRank(q) = t) <=> q = r
  BY <1>1, OneRank
<1>7. \A q \in Ranks : DOMAIN held[q] = Mine(q)
  BY ReadyIs
<1>8. ASSUME NEW q \in Ranks, e \in Mine(q), NEW p \in 0..PerPartition(q, "w2")-1
      PROVE  Channel(q, e, "w2", p) = Cut(TpRank(q)) + p
  <2>1. "w2" \in Shards
    BY DEF Shards
  <2>. QED BY <1>8, <2>1, ChannelIs
<1>9. X = {<<r, c - Cut(t)>>}
  <2>1. ASSUME NEW x \in X PROVE x = <<r, c - Cut(t)>>
    <3>1. PICK q \in Ranks, p \in 0..cfg.inter-1 : x = <<q, p>>
      OBVIOUS
    <3>2. e \in Mine(q) /\ p < PerPartition(q, "w2") /\ Channel(q, e, "w2", p) = c
      BY <1>7, <3>1
    <3>3. PerPartition(q, "w2") \in Nat /\ TpRank(q) \in 0..TpSize-1
          /\ Cut(TpRank(q)) \in Nat
          /\ Cut(TpRank(q) + 1) = Cut(TpRank(q)) + PerPartition(q, "w2")
      BY <1>1, <1>3
    <3>4. p \in 0..PerPartition(q, "w2")-1
      BY <1>1, <3>2, <3>3
    <3>5. c = Cut(TpRank(q)) + p
      BY <1>8, <3>2, <3>4
    <3>6. TpRank(q) = t
      <4>1. Cut(TpRank(q)) <= c /\ c < Cut(TpRank(q) + 1)
        BY <3>3, <3>4, <3>5
      <4>. QED BY <1>4, <1>5, <3>3, <4>1
    <3>7. q = r
      BY <1>6, <3>2, <3>6
    <3>8. p = c - Cut(t)
      BY <3>3, <3>4, <3>5, <3>6
    <3>. QED BY <3>1, <3>7, <3>8
  <2>2. <<r, c - Cut(t)>> \in X
    <3>1. e \in Mine(r) /\ TpRank(r) = t
      BY <1>6
    <3>2. PerPartition(r, "w2") \in Nat /\ Cut(t) \in Nat
          /\ Cut(t + 1) = Cut(t) + PerPartition(r, "w2")
      BY <1>1, <1>3, <3>1
    <3>3. PICK p \in Int : p = c - Cut(t)
      BY <1>1, <3>2
    <3>4. p \in 0..PerPartition(r, "w2")-1 /\ p \in 0..cfg.inter-1 /\ p < PerPartition(r, "w2")
      BY <1>1, <1>5, <3>2, <3>3
    <3>5. Channel(r, e, "w2", p) = Cut(t) + p
      BY <1>8, <3>1, <3>4
    <3>6. Cut(t) + p = c
      BY <1>1, <3>2, <3>3
    <3>. QED BY <1>7, <3>1, <3>3, <3>4, <3>5, <3>6
  <2>. HIDE DEF X
  <2>. QED BY <2>1, <2>2
<1>10. Cardinality({<<r, c - Cut(t)>>}) = 1
  BY FS_Singleton
<1>. QED BY <1>9, <1>10

\* The shards are the shares, in tiles.
LEMMA BiggerHolds == IInv => BiggerNotLess
<1>. SUFFICES ASSUME IInv, NEW r \in 0..TpSize-1, NEW s \in 0..TpSize-1, NEW half \in {"w13", "w2"},
                     HetHalf(half), Weights[r+1] >= Weights[s+1], Weights[r+1] # Weights[s+1]
              PROVE  PerPartition(r, half) >= PerPartition(s, half)
  BY DEF BiggerNotLess
<1>1. /\ LayerOK /\ TpSize \in Nat \ {0} /\ IsOrder(lean, TpSize) /\ cfg.inter \in Nat
      /\ Align \in Nat \ {0}
  BY GroupIs, AlignIs DEF IInv
<1>2. IsWeights(Weights) /\ Len(Weights) = TpSize /\ Parts(Weights) = 0..TpSize-1
  BY <1>1, GroupIs DEF HetHalf
<1>3. TpRank(r) = r /\ TpRank(s) = s
  <2>1. cfg.layer = "ep" => r = 0 /\ s = 0
    BY DEF TpSize
  <2>. QED BY <2>1 DEF TpRank
<1>. DEFINE units == cfg.inter \div Align
<1>4. units \in Nat
  BY <1>1, Division
<1>5. Weights[r+1] > Weights[s+1]
  <2>1. Weights[r+1] \in Nat /\ Weights[s+1] \in Nat
    BY <1>2, WeightsAdd
  <2>. QED BY <2>1
<1>6. /\ Share(units, Weights, lean, r) >= Share(units, Weights, lean, s)
      /\ Share(units, Weights, lean, r) \in Nat /\ Share(units, Weights, lean, s) \in Nat
  <2>. HIDE DEF units
  <2>. QED BY <1>1, <1>2, <1>4, <1>5, SharesFollowWeights, SharesAdd
<1>7. /\ PerPartition(r, half) = Share(units, Weights, lean, r) * Align
      /\ PerPartition(s, half) = Share(units, Weights, lean, s) * Align
  BY <1>3, SizeIs DEF PerPartition
<1>8. \A x, y \in Nat, a \in Nat \ {0} : x >= y => x * a >= y * a
  OBVIOUS
<1>. HIDE DEF units
<1>. QED BY <1>1, <1>6, <1>7, <1>8

\* The types are among what the invariant says.
LEMMA TypeHolds == IInv => TypeOK
<1>. SUFFICES ASSUME IInv PROVE TypeOK
  OBVIOUS
<1>1. /\ cfg \in Layer /\ lean \in Orders
      /\ st \in [Ranks -> {"init", "loading", "ready", "raised"}]
  BY DEF IInv, StateOK, LayerOK
<1>2. ASSUME NEW r \in Ranks
      PROVE  /\ todo[r] \in Seq(Experts \X {"w1", "w3", "w2"} \X Kinds)
             /\ st[r] = "ready" => todo[r] = <<>>
  BY DEF IInv, StateOK, Shards
<1>3. ASSUME NEW r \in Ranks, st[r] \in {"loading", "ready"}
      PROVE  \A e \in DOMAIN held[r] : \A half \in {"w13", "w2"}, kind \in Kinds :
                \A p \in DOMAIN held[r][e][half][kind] :
                   held[r][e][half][kind][p] \in (0..AxisTotal(kind)-1) \cup {Unset}
  <2>1. Shaped(r, held[r])
    BY <1>3 DEF IInv, StateOK, Built
  <2>. QED BY <2>1 DEF Shaped, Halves
<1>. QED BY <1>1, <1>2, <1>3 DEF TypeOK

\* The state has its types, and a parameter holds units that the checkpoint has.
THEOREM TypeCorrect == Spec => []TypeOK
BY Invariance, TypeHolds, PTL

\* On a rank that has loaded, gate, up and down are the same channels and each is scaled by
\* its own group, however the loaders cut, pad and skip (routed_experts.py, het_tp.py).
THEOREM SlotsAgree == Spec => []SlotsMeet
BY Invariance, SlotsMeetHolds, PTL

\* When every rank has loaded, the all-reduce adds each channel of each expert exactly once:
\* no channel is lost at a cut, none is held by two ranks.
THEOREM ChannelsCountedOnce == Spec => []EachOnce
BY Invariance, EachOnceHolds, PTL

\* The card with more compute units never gets the smaller shard, however equal remainders
\* are rounded (het_tp.py:229).
THEOREM MoreUnitsNoSmallerShard == Spec => []BiggerNotLess
BY Invariance, BiggerHolds, PTL

=============================================================================
