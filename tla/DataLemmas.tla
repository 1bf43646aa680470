---------------------------- MODULE DataLemmas ----------------------------
(***************************************************************************)
(* What the proofs need of data and say of no model.                       *)
(* Induction and recursion on an interval of naturals, for the models that *)
(* sum, concatenate and filter: the library's induction theorems speak of  *)
(* a predicate; here a set takes its place, and finiteness does the work:  *)
(* a proper closed subset would let n |-> n + 1 map a finite set into      *)
(* itself without 0.  Then, for the kernels, the texts their waves run,    *)
(* the numbers of a grid, and outputs that are shared out.                 *)
(***************************************************************************)
EXTENDS Integers, Sequences, FiniteSets, FiniteSetTheorems, SequenceTheorems, TLAPS

\* A set that has 0 and, below n, the successor of each of its elements has all of 0..n.
LEMMA Reach ==
  ASSUME NEW n \in Nat, NEW S, 0 \in S, \A i \in 0 .. n - 1 : i \in S => i + 1 \in S
  PROVE  0 .. n \subseteq S
<1> DEFINE Below == {m \in 0 .. n : 0 .. m \subseteq S}
           Succ  == [m \in Below |-> m + 1]
<1>1. IsFiniteSet(Below)
  BY FS_Interval, FS_Subset, 0 \in Int, n \in Int
<1>2. 0 \in Below
  OBVIOUS
<1>3. IsFiniteSet(Below \ {0}) /\ Cardinality(Below \ {0}) < Cardinality(Below)
  <2>1. /\ IsFiniteSet(Below \ {0})
        /\ Cardinality(Below \ {0}) = Cardinality(Below) - 1
    BY <1>1, <1>2, FS_RemoveElement
  <2>2. Cardinality(Below) \in Nat
    BY <1>1, FS_CardinalityType
  <2> HIDE DEF Below
  <2> QED
    BY <2>1, <2>2
<1>4. n \in Below
  <2> SUFFICES ASSUME n \notin Below PROVE FALSE
    OBVIOUS
  <2>1. \A m \in Below : m + 1 \in Below
    <3> SUFFICES ASSUME NEW m \in Below PROVE m + 1 \in Below
      OBVIOUS
    <3>1. m \in 0 .. n - 1 /\ m \in S /\ m + 1 \in S
      OBVIOUS
    <3>2. 0 .. m + 1 = (0 .. m) \cup {m + 1}
      BY <3>1
    <3> QED
      BY <3>1, <3>2
  <2>2. Succ \in [Below -> Below \ {0}]
    BY <2>1
  <2>3. PICK x \in Below, y \in Below : x # y /\ Succ[x] = Succ[y]
    <3> HIDE DEF Below, Succ
    <3> QED
      BY <1>1, <1>3, <2>2, FS_PigeonHole
  <2> QED
    BY <2>3
<1> QED
  BY <1>4

\* A set of naturals up to n that is not empty has a least element.
LEMMA LeastOf ==
  ASSUME NEW n \in Nat, NEW S \in SUBSET (0 .. n), S # {}
  PROVE  \E m \in S : \A k \in S : m <= k
<1> SUFFICES ASSUME \A m \in S : \E k \in S : ~(m <= k)
             PROVE  FALSE
  OBVIOUS
<1> DEFINE R == {i \in 0 .. n : \A k \in S : i <= k}
<1>1. 0 \in R
  <2>1. \A k \in S : k \in Nat
    OBVIOUS
  <2> QED
    BY <2>1
<1>2. \A i \in 0 .. n - 1 : i \in R => i + 1 \in R
  <2> SUFFICES ASSUME NEW i \in 0 .. n - 1, i \in R PROVE i + 1 \in R
    OBVIOUS
  <2>1. i \notin S
    OBVIOUS
  <2>2. ASSUME NEW k \in S PROVE i + 1 <= k
    BY <2>1
  <2> QED
    BY <2>2
<1>3. n \in R
  <2>1. 0 .. n \subseteq R
    <3> HIDE DEF R
    <3> QED
      BY <1>1, <1>2, Reach
  <2> QED
    BY <2>1
<1>4. PICK s \in S : TRUE
  OBVIOUS
<1>5. s = n
  BY <1>3
<1> QED
  BY <1>3, <1>5

\* And a greatest one.
LEMMA GreatestOf ==
  ASSUME NEW n \in Nat, NEW S \in SUBSET (0 .. n), S # {}
  PROVE  \E m \in S : \A k \in S : k <= m
<1> DEFINE U == {i \in 0 .. n : \A k \in S : k <= i}
<1>1. n \in U
  OBVIOUS
<1>2. PICK m \in U : \A k \in U : m <= k
  <2>1. U \in SUBSET (0 .. n) /\ U # {}
    BY <1>1
  <2> HIDE DEF U
  <2> QED
    BY <2>1, LeastOf
<1>3. m \in S
  <2> SUFFICES ASSUME m \notin S PROVE FALSE
    OBVIOUS
  <2>1. PICK s \in S : TRUE
    OBVIOUS
  <2>2. s \in 0 .. n /\ m \in 0 .. n /\ s <= m /\ s # m
    BY <1>2
  <2>3. s < m
    BY <2>2
  <2>4. m - 1 \in U
    BY <1>2, <2>2, <2>3
  <2> QED
    BY <1>2, <2>2, <2>4
<1> QED
  BY <1>3

\* Indices up to n are finitely many, and so are those of them that are picked.
LEMMA Indices ==
  ASSUME NEW n \in Nat, NEW S \in SUBSET (1 .. n)
  PROVE  IsFiniteSet(S) /\ Cardinality(S) \in Nat /\ Cardinality(S) <= n
<1>1. IsFiniteSet(1 .. n) /\ Cardinality(1 .. n) = IF 1 > n THEN 0 ELSE n - 1 + 1
  <2>1. 1 \in Int /\ n \in Int
    OBVIOUS
  <2> QED
    BY <2>1, FS_Interval
<1>2. Cardinality(1 .. n) = n
  BY <1>1
<1>3. IsFiniteSet(S) /\ Cardinality(S) <= Cardinality(1 .. n)
  BY <1>1, FS_Subset
<1> QED
  BY <1>2, <1>3, FS_CardinalityType

----------------------------------------------------------------------------
\* Recursion: g starts at a and takes the steps given.
IsRun(g, n, A, a, step) ==
  /\ g \in [0 .. n -> A]
  /\ g[0] = a
  /\ \A i \in 1 .. n : g[i] = step[i][g[i - 1]]

\* Such a function exists, so that one defined by its own values is not arbitrary.
LEMMA Recursion ==
  ASSUME NEW n \in Nat, NEW A, NEW a \in A, NEW step \in [1 .. n -> [A -> A]]
  PROVE  \E g : IsRun(g, n, A, a, step)
<1> DEFINE Ok(m) == \E g \in [0 .. m -> A] :
                      g[0] = a /\ \A i \in 1 .. m : g[i] = step[i][g[i - 1]]
           S == {m \in 0 .. n : Ok(m)}
<1>1. 0 \in S
  <2> DEFINE g == [i \in 0 .. 0 |-> a]
  <2>1. g \in [0 .. 0 -> A] /\ g[0] = a /\ \A i \in 1 .. 0 : g[i] = step[i][g[i - 1]]
    OBVIOUS
  <2>2. Ok(0)
    BY <2>1
  <2> QED
    BY <2>2
<1>2. ASSUME NEW m \in 0 .. n - 1, m \in S PROVE m + 1 \in S
  <2>1. PICK g \in [0 .. m -> A] : g[0] = a /\ \A i \in 1 .. m : g[i] = step[i][g[i - 1]]
    BY <1>2
  <2>2. g[m] \in A /\ step[m + 1] \in [A -> A]
    OBVIOUS
  <2> DEFINE v == step[m + 1][g[m]]
             h == [i \in 0 .. m + 1 |-> IF i = m + 1 THEN v ELSE g[i]]
  <2>3. v \in A
    BY <2>2
  <2>4. h \in [0 .. m + 1 -> A]
    <3> HIDE DEF v
    <3> QED
      BY <2>3
  <2>5. h[0] = a
    BY <2>1
  <2>6. ASSUME NEW i \in 1 .. m + 1 PROVE h[i] = step[i][h[i - 1]]
    <3>1. CASE i = m + 1
      BY <3>1
    <3>2. CASE i \in 1 .. m
      BY <2>1, <3>2
    <3> QED
      BY <3>1, <3>2
  <2>7. Ok(m + 1)
    <3> HIDE DEF h
    <3> QED
      BY <2>4, <2>5, <2>6
  <2> QED
    BY <2>7
<1>3. n \in S
  <2>1. n \in 0 .. n
    OBVIOUS
  <2> HIDE DEF S
  <2>2. \A m \in 0 .. n - 1 : m \in S => m + 1 \in S
    BY <1>2
  <2>3. 0 .. n \subseteq S
    BY <1>1, <2>2, Reach
  <2> QED
    BY <2>1, <2>3
<1> QED
  BY <1>3 DEF IsRun

\* A function that takes the same steps wherever it is in A.
Follows(f, n, A, a, step) ==
  /\ f = [i \in 0 .. n |-> f[i]]
  /\ f[0] = a
  /\ \A i \in 1 .. n : f[i - 1] \in A => f[i] = step[i][f[i - 1]]

\* The recursion has no other solution.
LEMMA RunUnique ==
  ASSUME NEW n \in Nat, NEW A, NEW a, NEW step, NEW g, IsRun(g, n, A, a, step),
         NEW f, Follows(f, n, A, a, step)
  PROVE  f = g
<1> DEFINE S == {i \in 0 .. n : f[i] = g[i]}
<1>1. 0 \in S
  BY DEF IsRun, Follows
<1>2. \A i \in 0 .. n - 1 : i \in S => i + 1 \in S
  <2> SUFFICES ASSUME NEW i \in 0 .. n - 1, i \in S PROVE i + 1 \in S
    OBVIOUS
  <2>1. i + 1 \in 1 .. n /\ (i + 1) - 1 = i /\ i \in 0 .. n /\ i + 1 \in 0 .. n
    OBVIOUS
  <2>2. g[i] \in A /\ g[i + 1] = step[i + 1][g[i]] /\ f[i] = g[i]
    BY <2>1 DEF IsRun
  <2>3. f[i + 1] = step[i + 1][f[i]]
    BY <2>1, <2>2 DEF Follows
  <2> QED
    BY <2>1, <2>2, <2>3
<1>3. \A i \in 0 .. n : f[i] = g[i]
  <2>1. 0 .. n \subseteq S
    <3> HIDE DEF S
    <3> QED
      BY <1>1, <1>2, Reach
  <2> QED
    BY <2>1
<1>4. g = [i \in 0 .. n |-> g[i]]
  BY DEF IsRun
<1> HIDE DEF S
<1> QED
  BY <1>3, <1>4 DEF Follows

----------------------------------------------------------------------------
\* Partial sums, as a recursive function defines them.
Sums(f, n) == CHOOSE s : s = [i \in 0 .. n |-> IF i = 0 THEN 0 ELSE s[i - 1] + f[i]]

\* Partial sums are what their definition says, and whole numbers.
LEMMA SumsExist ==
  ASSUME NEW n \in Nat, NEW f \in [1 .. n -> Int]
  PROVE  /\ Sums(f, n) = [i \in 0 .. n |-> IF i = 0 THEN 0 ELSE Sums(f, n)[i - 1] + f[i]]
         /\ Sums(f, n) \in [0 .. n -> Int]
         /\ Sums(f, n)[0] = 0
         /\ \A i \in 1 .. n : Sums(f, n)[i] = Sums(f, n)[i - 1] + f[i]
<1> DEFINE step == [i \in 1 .. n |-> [v \in Int |-> v + f[i]]]
<1>1. step \in [1 .. n -> [Int -> Int]]
  OBVIOUS
<1>2. PICK g : IsRun(g, n, Int, 0, step)
  <2>1. 0 \in Int
    OBVIOUS
  <2> HIDE DEF step
  <2> QED
    BY <1>1, <2>1, Recursion
<1>3. \A i \in 1 .. n : g[i] = g[i - 1] + f[i]
  <2> SUFFICES ASSUME NEW i \in 1 .. n PROVE g[i] = g[i - 1] + f[i]
    OBVIOUS
  <2>1. i - 1 \in 0 .. n
    OBVIOUS
  <2>2. g[i] = step[i][g[i - 1]] /\ g[i - 1] \in Int
    <3> HIDE DEF step
    <3> QED
      BY <1>2, <2>1 DEF IsRun
  <2>3. step[i] = [v \in Int |-> v + f[i]]
    OBVIOUS
  <2> HIDE DEF step
  <2> QED
    BY <2>2, <2>3
<1> HIDE DEF step
<1>4. g = [i \in 0 .. n |-> IF i = 0 THEN 0 ELSE g[i - 1] + f[i]]
  <2>1. g = [i \in 0 .. n |-> g[i]] /\ g[0] = 0
    BY <1>2 DEF IsRun
  <2>2. \A i \in 0 .. n : g[i] = IF i = 0 THEN 0 ELSE g[i - 1] + f[i]
    <3> SUFFICES ASSUME NEW i \in 0 .. n PROVE g[i] = IF i = 0 THEN 0 ELSE g[i - 1] + f[i]
      OBVIOUS
    <3>1. CASE i = 0
      BY <2>1, <3>1
    <3>2. CASE i \in 1 .. n
      BY <1>3, <3>2
    <3> QED
      BY <3>1, <3>2
  <2> QED
    BY <2>1, <2>2
<1>5. Sums(f, n) = [i \in 0 .. n |-> IF i = 0 THEN 0 ELSE Sums(f, n)[i - 1] + f[i]]
  BY <1>4 DEF Sums
<1>6. Sums(f, n) = g
  <2> DEFINE F == Sums(f, n)
  <2>1. F = [i \in 0 .. n |-> F[i]] /\ F[0] = 0
    BY <1>5
  <2>2. ASSUME NEW i \in 1 .. n, F[i - 1] \in Int PROVE F[i] = step[i][F[i - 1]]
    <3>1. F[i] = F[i - 1] + f[i]
      BY <1>5
    <3> HIDE DEF F
    <3> QED
      BY <2>2, <3>1 DEF step
  <2> HIDE DEF F
  <2>3. Follows(F, n, Int, 0, step)
    BY <2>1, <2>2 DEF Follows
  <2>4. F = g
    BY <1>2, <2>3, RunUnique
  <2> QED
    BY <2>4 DEF F
<1> QED
  BY <1>2, <1>3, <1>5, <1>6 DEF IsRun

\* Division with remainder, and its inverse.
LEMMA Division ==
    /\ \A a \in Nat, b \in Nat \ {0} :
          a = b * (a \div b) + (a % b) /\ a % b \in 0..b-1 /\ a \div b \in Nat
    /\ \A b \in Nat \ {0}, q \in Nat : \A r \in 0..b-1 :
          (b * q + r) \div b = q /\ (b * q + r) % b = r
OBVIOUS
-----------------------------------------------------------------------------
(* Texts: sequences put together, and loops over them unrolled. *)
\* A text: statements, each of which says whether it is a barrier.
IsText(s) == /\ Len(s) \in Nat /\ s = [i \in 1 .. Len(s) |-> s[i]]
             /\ \A i \in 1 .. Len(s) : s[i].sync \in BOOLEAN

\* Each wave runs a, then b.
Cat(a, b) == [w \in DOMAIN a |-> a[w] \o b[w]]

\* The texts of two parts, one after the other.
LEMMA TextCat ==
    ASSUME NEW s, NEW t, IsText(s), IsText(t)
    PROVE  /\ IsText(s \o t) /\ Len(s \o t) = Len(s) + Len(t)
           /\ \A i \in 1 .. Len(s) : (s \o t)[i] = s[i]
           /\ \A i \in 1 .. Len(t) : (s \o t)[Len(s) + i] = t[i]
<1> DEFINE S == {s[i] : i \in 1 .. Len(s)} \cup {t[i] : i \in 1 .. Len(t)}
<1>1. s \in Seq(S) /\ t \in Seq(S)
  <2>1. \A i \in 1 .. Len(s) : s[i] \in S
    OBVIOUS
  <2>2. \A i \in 1 .. Len(t) : t[i] \in S
    OBVIOUS
  <2> HIDE DEF S
  <2>3. s \in [1 .. Len(s) -> S] /\ t \in [1 .. Len(t) -> S]
    BY <2>1, <2>2 DEF IsText
  <2> QED
    BY <2>3 DEF IsText
<1> HIDE DEF S
<1>2. s \o t \in Seq(S) /\ Len(s \o t) = Len(s) + Len(t) /\ Len(s) \in Nat /\ Len(t) \in Nat
  BY <1>1
<1>3. \A i \in 1 .. Len(s) : (s \o t)[i] = s[i]
  BY <1>1
<1>4. \A i \in 1 .. Len(t) : (s \o t)[Len(s) + i] = t[i]
  BY <1>1
<1>5. \A i \in 1 .. Len(s) + Len(t) : i \in 1 .. Len(s) \/ i - Len(s) \in 1 .. Len(t)
  BY <1>2
<1>6. \A i \in 1 .. Len(s) + Len(t) : (s \o t)[i].sync \in BOOLEAN
  <2> SUFFICES ASSUME NEW i \in 1 .. Len(s) + Len(t) PROVE (s \o t)[i].sync \in BOOLEAN
    OBVIOUS
  <2>1. CASE i \in 1 .. Len(s)
    BY <2>1, <1>3 DEF IsText
  <2>2. CASE i - Len(s) \in 1 .. Len(t)
    <3>1. Len(s) + (i - Len(s)) = i
      BY <1>2
    <3>2. (s \o t)[i] = t[i - Len(s)]
      BY <2>2, <3>1, <1>4
    <3> QED
      BY <2>2, <3>2 DEF IsText
  <2> QED
    BY <2>1, <2>2, <1>5
<1>7. s \o t = [i \in 1 .. Len(s \o t) |-> (s \o t)[i]]
  <2> DEFINE f == s \o t
  <2>1. f \in Seq(S)
    BY <1>2
  <2> HIDE DEF f
  <2>2. f \in [1 .. Len(f) -> S]
    BY <2>1
  <2>3. f = [i \in 1 .. Len(f) |-> f[i]]
    BY <2>2
  <2> QED
    BY <2>3 DEF f
<1> QED
  BY <1>2, <1>3, <1>4, <1>6, <1>7 DEF IsText

\* Texts one after the other, in any grouping.
LEMMA TextAssoc ==
    ASSUME NEW a, NEW b, NEW c, IsText(a), IsText(b), IsText(c)
    PROVE  (a \o b) \o c = a \o (b \o c)
<1> DEFINE S == {a[i] : i \in 1 .. Len(a)} \cup {b[i] : i \in 1 .. Len(b)} \cup {c[i] : i \in 1 .. Len(c)}
<1>1. (\A i \in 1 .. Len(a) : a[i] \in S) /\ (\A i \in 1 .. Len(b) : b[i] \in S) /\ (\A i \in 1 .. Len(c) : c[i] \in S)
  OBVIOUS
<1> HIDE DEF S
<1>2. ASSUME NEW s, IsText(s), \A i \in 1 .. Len(s) : s[i] \in S PROVE s \in Seq(S)
  <2>1. s \in [1 .. Len(s) -> S] /\ Len(s) \in Nat
    BY <1>2 DEF IsText
  <2> QED
    BY <2>1
<1> QED
  BY <1>1, <1>2, ConcatAssociative

\* Texts that may be grouped either way.
Assoc(a, b, c) == (a \o b) \o c = a \o (b \o c)

\* TextAssoc with its equation named.
LEMMA TextsAssoc == ASSUME NEW a, NEW b, NEW c, IsText(a), IsText(b), IsText(c) PROVE Assoc(a, b, c)
BY TextAssoc DEF Assoc

\* The empty text adds nothing.
LEMMA EmptyText ==
    /\ IsText(<<>>) /\ Len(<<>>) = 0
    /\ \A a : IsText(a) => <<>> \o a = a /\ a \o <<>> = a
<1>1. IsText(<<>>) /\ Len(<<>>) = 0
  BY DEF IsText
<1>2. ASSUME NEW a, IsText(a) PROVE <<>> \o a = a /\ a \o <<>> = a
  <2> DEFINE S == {a[i] : i \in 1 .. Len(a)}
  <2>1. \A i \in 1 .. Len(a) : a[i] \in S
    OBVIOUS
  <2> HIDE DEF S
  <2>2. a \in [1 .. Len(a) -> S] /\ Len(a) \in Nat
    BY <1>2, <2>1 DEF IsText
  <2>3. a \in Seq(S)
    BY <2>2
  <2> QED
    BY <2>3, ConcatEmptySeq
<1> QED
  BY <1>1, <1>2

\* What a loop runs: the bodies B one after the other.
Unrolled(f, first, end, B) == f = [i \in first .. end |-> IF i = first THEN <<>> ELSE f[i - 1] \o B[i - 1]]

\* Every body of the loop is a text.
Bodies(first, end, B) == \A i \in first .. end - 1 : IsText(B[i])

\* There is an unrolling of every loop.
LEMMA UnrollExists ==
    ASSUME NEW first \in Nat, NEW end \in Nat, first <= end, NEW B, Bodies(first, end, B)
    PROVE  \E f : Unrolled(f, first, end, B)
<1> DEFINE n == end - first
           S == UNION {{B[i][j] : j \in 1 .. Len(B[i])} : i \in first .. end - 1}
           step == [i \in 1 .. n |-> [x \in Seq(S) |-> x \o B[first + i - 1]]]
<1>0. n \in Nat /\ \A i \in 1 .. n : first + i - 1 \in first .. end - 1
  OBVIOUS
<1>1. ASSUME NEW i \in first .. end - 1 PROVE B[i] \in Seq(S)
  <2>1. \A j \in 1 .. Len(B[i]) : B[i][j] \in S
    OBVIOUS
  <2> HIDE DEF S
  <2>2. B[i] \in [1 .. Len(B[i]) -> S] /\ Len(B[i]) \in Nat
    BY <2>1 DEF Bodies, IsText
  <2> QED
    BY <2>2
<1> HIDE DEF S
<1>2. step \in [1 .. n -> [Seq(S) -> Seq(S)]]
  BY <1>0, <1>1
<1>3. <<>> \in Seq(S)
  OBVIOUS
<1> HIDE DEF step, n
<1>4. PICK g : IsRun(g, n, Seq(S), <<>>, step)
  BY <1>0, <1>2, <1>3, Recursion
<1> DEFINE f == [i \in first .. end |-> g[i - first]]
<1>5. ASSUME NEW i \in first .. end, i # first PROVE f[i] = f[i - 1] \o B[i - 1]
  <2>1. i - first \in 1 .. n /\ i - 1 \in first .. end /\ (i - 1) - first = (i - first) - 1
        /\ first + (i - first) - 1 = i - 1
    BY <1>5 DEF n
  <2>2. g[(i - first) - 1] \in Seq(S)
    BY <2>1, <1>0, <1>4 DEF IsRun
  <2>3. g[i - first] = step[i - first][g[(i - first) - 1]]
    BY <2>1, <1>4 DEF IsRun
  <2>4. step[i - first][g[(i - first) - 1]] = g[(i - first) - 1] \o B[i - 1]
    BY <2>1, <2>2 DEF step
  <2> QED
    BY <2>1, <2>3, <2>4
<1>6. f[first] = <<>>
  BY <1>4 DEF IsRun
<1>7. Unrolled(f, first, end, B)
  BY <1>5, <1>6 DEF Unrolled
<1> QED
  BY <1>7

\* The unrolling, a body at a time.
Goes(f, first, end, B) == f[first] = <<>> /\ \A i \in first .. end - 1 : f[i + 1] = f[i] \o B[i]

\* An unrolling starts empty and appends a body at a time.
LEMMA UnrolledIs ==
    ASSUME NEW first \in Nat, NEW end \in Nat, first <= end, NEW B, NEW f, Unrolled(f, first, end, B)
    PROVE  Goes(f, first, end, B)
<1>1. f[first] = <<>>
  BY DEF Unrolled
<1>2. ASSUME NEW i \in first .. end - 1 PROVE f[i + 1] = f[i] \o B[i]
  <2>1. i + 1 \in first .. end /\ i + 1 # first /\ (i + 1) - 1 = i
    OBVIOUS
  <2> QED
    BY <2>1 DEF Unrolled
<1> QED
  BY <1>1, <1>2 DEF Goes

\* F[w] unrolls the bodies B[w] of each wave.
Unrolls(F, W, first, end, B) == \A w \in W : Unrolled(F[w], first, end, B[w])

\* The two groupings of four texts that a loop with a lead meets.
Regroups(p, d, s, x) == ((p \o d) \o s) \o x = p \o ((d \o s) \o x)

\* Four texts in a row, grouped otherwise.
LEMMA FourTexts ==
    ASSUME NEW p, NEW d, NEW s, NEW x, IsText(p), IsText(d), IsText(s), IsText(x)
    PROVE  Regroups(p, d, s, x)
<1>1. IsText(d \o s)
  BY TextCat
<1>2. Assoc(p, d, s)
  BY TextsAssoc
<1>3. Assoc(p, d \o s, x)
  BY <1>1, TextsAssoc
<1> QED
  BY <1>2, <1>3 DEF Regroups, Assoc

\* A loop whose first body has a prefix.
Prefixed(p, B, B2, n) == B2[0] = p \o B[0] /\ \A i \in 1 .. n - 1 : B2[i] = B[i]

\* A text before a loop may be taken into its first round.
LEMMA PrefixLoop ==
    ASSUME NEW n \in Nat \ {0}, NEW p, IsText(p), NEW B, Bodies(0, n, B), NEW B2, Prefixed(p, B, B2, n),
           NEW f, Unrolled(f, 0, n, B), NEW g, Unrolled(g, 0, n, B2)
    PROVE  p \o f[n] = g[n]
<1> DEFINE P(m) == IsText(f[m + 1]) /\ p \o f[m + 1] = g[m + 1]
           S == {m \in 0 .. n - 1 : P(m)}
<1>0. n \in Nat /\ 0 \in Nat /\ 0 <= n /\ n - 1 \in Nat /\ (n - 1) + 1 = n /\ 0 \in 0 .. n - 1
  OBVIOUS
<1>1. Goes(f, 0, n, B) /\ Goes(g, 0, n, B2)
  BY <1>0, UnrolledIs
<1>2. P(0)
  <2>1. f[0] = <<>> /\ f[0 + 1] = f[0] \o B[0] /\ g[0] = <<>> /\ g[0 + 1] = g[0] \o B2[0]
    BY <1>0, <1>1 DEF Goes
  <2>2. IsText(B[0])
    BY <1>0 DEF Bodies
  <2>3. IsText(p \o B[0])
    BY <2>2, TextCat
  <2>4. <<>> \o B[0] = B[0] /\ <<>> \o (p \o B[0]) = p \o B[0]
    BY <2>2, <2>3, EmptyText
  <2>5. f[0 + 1] = B[0] /\ g[0 + 1] = p \o B[0]
    BY <2>1, <2>4 DEF Prefixed
  <2> QED
    BY <2>2, <2>5
<1>3. ASSUME NEW m \in 0 .. (n - 1) - 1, P(m) PROVE P(m + 1)
  <2> PICK i : i = m + 1
    OBVIOUS
  <2>1. i \in 1 .. n - 1 /\ i \in 0 .. n - 1
    OBVIOUS
  <2>2. f[i + 1] = f[i] \o B[i] /\ g[i + 1] = g[i] \o B2[i]
    BY <1>1, <2>1 DEF Goes
  <2>3. IsText(B[i]) /\ B2[i] = B[i]
    BY <2>1 DEF Bodies, Prefixed
  <2>4. IsText(f[i]) /\ p \o f[i] = g[i]
    BY <1>3
  <2>5. IsText(f[i] \o B[i]) /\ p \o (f[i] \o B[i]) = (p \o f[i]) \o B[i]
    <3> PICK x, y : x = f[i] /\ y = B[i]
      OBVIOUS
    <3>1. IsText(x) /\ IsText(y) /\ IsText(p)
      BY <2>3, <2>4
    <3>2. IsText(x \o y)
      BY <3>1, TextCat
    <3>3. Assoc(p, x, y)
      BY <3>1, TextsAssoc
    <3> QED
      BY <3>2, <3>3 DEF Assoc
  <2> QED
    BY <2>2, <2>3, <2>4, <2>5
<1> HIDE DEF P
<1>4. 0 \in S /\ \A m \in 0 .. (n - 1) - 1 : m \in S => m + 1 \in S
  BY <1>0, <1>2, <1>3
<1> HIDE DEF S
<1>5. 0 .. n - 1 \subseteq S
  BY <1>0, <1>4, Reach
<1>6. P(n - 1)
  BY <1>0, <1>5 DEF S
<1> QED
  BY <1>0, <1>6 DEF P

\* b is a behind p.
Behind(p, a, b) == IsText(p) /\ IsText(a) /\ b = p \o a

\* What follows a text may grow.
LEMMA BehindAdd == ASSUME NEW p, NEW a, NEW b, Behind(p, a, b), NEW c, IsText(c) PROVE Behind(p, a \o c, b \o c)
<1>1. IsText(p) /\ IsText(a) /\ b = p \o a
  BY DEF Behind
<1>2. IsText(a \o c)
  BY <1>1, TextCat
<1>3. Assoc(p, a, c)
  BY <1>1, TextsAssoc
<1> QED
  BY <1>1, <1>2, <1>3 DEF Behind, Assoc

\* An unrolled loop is a text.
LEMMA UnrolledText ==
    ASSUME NEW n \in Nat, NEW B, Bodies(0, n, B), NEW f, Unrolled(f, 0, n, B)
    PROVE  IsText(f[n])
<1> DEFINE S == {m \in 0 .. n : IsText(f[m])}
<1>1. Goes(f, 0, n, B)
  BY UnrolledIs
<1>2. 0 \in S
  BY <1>1, EmptyText DEF Goes
<1>3. ASSUME NEW m \in 0 .. n - 1, m \in S PROVE m + 1 \in S
  <2>1. f[m + 1] = f[m] \o B[m] /\ IsText(f[m]) /\ IsText(B[m])
    BY <1>1, <1>3 DEF Goes, Bodies
  <2>2. IsText(f[m + 1])
    BY <2>1, TextCat
  <2> QED
    BY <2>2
<1> HIDE DEF S
<1>4. 0 .. n \subseteq S
  BY <1>2, <1>3, Reach
<1> QED
  BY <1>4 DEF S
-----------------------------------------------------------------------------
(* Numbers: spans of one length, places of a grid, pieces of a line. *)
\* Spans of one length, side by side.
Span(base, q, d) == base + q * d .. base + q * d + d - 1

\* Spans of one length at different places are apart.
LEMMA SpansApart ==
    ASSUME NEW base \in Nat, NEW d \in Nat, NEW p \in Nat, NEW q \in Nat, p # q
    PROVE  Span(base, p, d) \cap Span(base, q, d) = {}
<1>1. ASSUME NEW x \in Nat, NEW y \in Nat, x < y PROVE Span(base, x, d) \cap Span(base, y, d) = {}
  <2>1. PICK e \in Nat : y = x + 1 + e
    <3>1. y - (x + 1) \in Nat /\ y = x + 1 + (y - (x + 1))
      BY <1>1
    <3> QED
      BY <3>1
  <2>2. y * d = x * d + d + e * d
    BY <2>1
  <2>3. PICK a \in Nat, b \in Nat, c \in Nat : a = x * d /\ b = e * d /\ c = y * d
    OBVIOUS
  <2> QED
    BY <2>2, <2>3 DEF Span
<1>2. p < q \/ q < p
  OBVIOUS
<1> QED
  BY <1>1, <1>2

\* Waves differ in their row of fragments or in their column.
LEMMA PlacesDiffer ==
    ASSUME NEW v \in Nat, NEW w \in Nat, v # w, NEW n \in Nat \ {0}
    PROVE  /\ v \div n \in Nat /\ v % n \in Nat /\ w \div n \in Nat /\ w % n \in Nat
           /\ v \div n # w \div n \/ v % n # w % n
<1>1. v = n * (v \div n) + (v % n) /\ v % n \in 0 .. n - 1 /\ v \div n \in Nat
  BY Division
<1>2. w = n * (w \div n) + (w % n) /\ w % n \in 0 .. n - 1 /\ w \div n \in Nat
  BY Division
<1> PICK qv, rv, qw, rw : qv = v \div n /\ rv = v % n /\ qw = w \div n /\ rw = w % n
  OBVIOUS
<1> QED
  BY <1>1, <1>2

\* Multiplication and order.
LEMMA Scaled ==
    ASSUME NEW d \in Nat, NEW a \in Nat, NEW b \in Nat, a < b
    PROVE  a * d + d <= b * d /\ a * d \in Nat /\ b * d \in Nat
<1>1. PICK e \in Nat : b = a + 1 + e
  <2>1. b - (a + 1) \in Nat /\ b = a + 1 + (b - (a + 1))
    OBVIOUS
  <2> QED
    BY <2>1
<1>2. b * d = a * d + d + e * d
  BY <1>1
<1>3. PICK x \in Nat, y \in Nat, z \in Nat : x = a * d /\ y = e * d /\ z = b * d
  OBVIOUS
<1> QED
  BY <1>2, <1>3

\* Waves numbered row by row.
Numbered(m, n, i, j) == \E w \in 0 .. m * n - 1 : w \div n = i /\ w % n = j

\* Every row and column of fragments has a wave.
LEMMA WaveAt ==
    ASSUME NEW m \in Nat, NEW n \in Nat \ {0}, NEW i \in 0 .. m - 1, NEW j \in 0 .. n - 1
    PROVE  Numbered(m, n, i, j)
<1> DEFINE w == n * i + j
<1>1. w \div n = i /\ w % n = j
  BY Division
<1>2. PICK x \in Nat, y \in Nat : x = i * n /\ y = m * n /\ x + n <= y
  BY Scaled
<1>3. n * i = x
  BY <1>2
<1>4. w \in 0 .. m * n - 1
  BY <1>2, <1>3
<1> QED
  BY <1>1, <1>4 DEF Numbered

\* Only one.
LEMMA WaveIs ==
    ASSUME NEW m \in Nat, NEW n \in Nat \ {0}, NEW w \in 0 .. m * n - 1
    PROVE  w \div n \in 0 .. m - 1 /\ w % n \in 0 .. n - 1
<1>1. PICK q \in Nat, r \in 0 .. n - 1 : q = w \div n /\ r = w % n /\ w = n * q + r
  <2>1. m * n \in Nat
    OBVIOUS
  <2>2. w \in Nat
    BY <2>1
  <2> QED
    BY <2>2, Division
<1>2. PICK x \in Nat, y \in Nat : x = q * n /\ y = m * n
  OBVIOUS
<1>3. n * q = x
  BY <1>2
<1>4. q < m
  <2> SUFFICES ASSUME ~(q < m) PROVE FALSE
    OBVIOUS
  <2>1. q = m \/ m < q
    OBVIOUS
  <2>2. y <= x
    BY <2>1, <1>2, Scaled
  <2> QED
    BY <1>1, <1>2, <1>3, <2>2
<1> QED
  BY <1>1, <1>4

\* Tiles of m fragments of d rows.
Fragments(s, m, d) == s \in Nat \ {0} /\ m \in Nat \ {0} /\ d \in Nat \ {0} /\ s = m * d

\* Fragments of different waves have no row in common.
LEMMA FragmentsApart ==
    ASSUME NEW s, NEW m, NEW d, Fragments(s, m, d), NEW q \in Nat, NEW p \in Nat,
           NEW i \in 0 .. m - 1, NEW j \in 0 .. m - 1, NEW x, x \in Span(q * s, i, d), x \in Span(p * s, j, d)
    PROVE  q = p /\ i = j
<1>0. s \in Nat \ {0} /\ m \in Nat \ {0} /\ d \in Nat \ {0} /\ s = m * d
  BY DEF Fragments
<1>1. ASSUME NEW a \in Nat, NEW k \in 0 .. m - 1, x \in Span(a * s, k, d)
      PROVE  x \in Span(0, a, s)
  <2>1. PICK y \in Nat, z \in Nat : y = k * d /\ z = a * s /\ y + d <= s
    <3>1. k * d + d <= m * d /\ k * d \in Nat
      BY <1>0, Scaled
    <3> QED
      BY <1>0, <3>1
  <2> QED
    BY <1>0, <1>1, <2>1 DEF Span
<1>2. x \in Span(0, q, s) /\ x \in Span(0, p, s)
  BY <1>1
<1>3. q = p
  BY <1>0, <1>2, SpansApart
<1>4. i = j
  <2>1. q * s \in Nat
    BY <1>0
  <2> QED
    BY <1>0, <1>3, <2>1, SpansApart
<1> QED
  BY <1>3, <1>4

\* Tiles that divide are in whole fragments.
Divides(n, s) == s % n = 0

\* A tile's rows divide into fragments.
LEMMA RowFragments ==
    ASSUME NEW s \in Nat \ {0}, NEW d \in Nat \ {0}, Divides(d, s)
    PROVE  Fragments(s, s \div d, d)
<1>1. s = d * (s \div d) + (s % d) /\ s \div d \in Nat
  <2>1. s \in Nat
    OBVIOUS
  <2> QED
    BY <2>1, Division
<1>2. PICK q \in Nat : q = s \div d
  BY <1>1
<1>3. s = q * d
  BY <1>1, <1>2 DEF Divides
<1>4. q # 0
  BY <1>3
<1> QED
  BY <1>2, <1>3, <1>4 DEF Fragments

\* A tile's columns divide among its waves.
LEMMA ColumnFragments ==
    ASSUME NEW s \in Nat \ {0}, NEW d \in Nat \ {0}, NEW n \in Nat \ {0}, Divides(d * n, s)
    PROVE  Fragments(s, n, s \div n)
<1>1. PICK e \in Nat \ {0} : e = d * n
  OBVIOUS
<1>2. s = e * (s \div e) + (s % e) /\ s \div e \in Nat
  <2>1. s \in Nat
    OBVIOUS
  <2> QED
    BY <1>1, <2>1, Division
<1> PICK q : q = s \div e
  OBVIOUS
<1>3. q \in Nat /\ s = e * q
  <2>1. s % e = 0
    BY <1>1 DEF Divides
  <2>2. s = e * q + 0 /\ q \in Nat
    BY <1>2, <2>1
  <2> QED
    BY <1>1, <2>2
<1>4. PICK p \in Nat : p = d * q
  BY <1>3
<1>5. s = n * p + 0
  <2>1. n * p = n * (d * q)
    BY <1>4
  <2>2. n * (d * q) = (d * n) * q
    BY <1>3
  <2>3. s = n * p /\ n * p \in Nat
    BY <1>1, <1>3, <2>1, <2>2
  <2> QED
    BY <2>3
<1>6. s \div n = p
  <2>1. 0 \in 0 .. n - 1
    OBVIOUS
  <2>2. (n * p + 0) \div n = p
    BY <2>1, Division
  <2> QED
    BY <1>5, <2>2
<1>7. s = n * p
  BY <1>5
<1>8. p # 0
  BY <1>7
<1> QED
  BY <1>6, <1>7, <1>8 DEF Fragments

\* Numbers along a line of blocks of s.
SameOnLine(s, a, i, b, j) == a * s + i = b * s + j

\* Places along a line of blocks are apart.
LEMMA LineOnce ==
    ASSUME NEW s \in Nat \ {0}, NEW a \in Nat, NEW b \in Nat, NEW i \in 0 .. s - 1, NEW j \in 0 .. s - 1,
           SameOnLine(s, a, i, b, j)
    PROVE  a = b /\ i = j
<1>1. s * a + i = s * b + j
  BY DEF SameOnLine
<1>2. (s * a + i) \div s = a /\ (s * a + i) % s = i
  BY Division
<1>3. (s * b + j) \div s = b /\ (s * b + j) % s = j
  BY Division
<1> QED
  BY <1>1, <1>2, <1>3

\* The places of an output of M rows and N columns.
Matrix(M, N) == (0 .. M - 1) \X (0 .. N - 1)

\* A place of the output is a row and a column.
LEMMA MatrixIs == ASSUME NEW M, NEW N
                PROVE  \A x : x \in Matrix(M, N) <=> \E r \in 0 .. M - 1 : \E c \in 0 .. N - 1 : x = <<r, c>>
BY DEF Matrix
-----------------------------------------------------------------------------
(* Sharing out: contributions of places, each by one party. *)
\* The contributions of the places P from each of X.
Contributions(P, X) == {<<<<"out", p>>, x>> : p \in P, x \in X}

\* Over the blocks and waves of a grid everything of V is in one set of Y, and nothing else is in any.
Once(Bs, W, Y, V) ==
    /\ \A b \in Bs, w \in W : Y[b][w] \subseteq V
    /\ \A x \in V : \E b \in Bs, w \in W : x \in Y[b][w]
    /\ \A b, c \in Bs, v, w \in W : \A x \in Y[b][v] \cap Y[c][w] : b = c /\ v = w

\* A contribution by its coordinates.
OutAt(r, c, g) == <<<<"out", <<r, c>>>>, g>>

\* S has a contribution of every row, column and K group, and no other.
Holds(S, R, C, X) == \A x : x \in S <=> \E r, c, g : r \in R /\ c \in C /\ g \in X /\ x = OutAt(r, c, g)

\* A contribution by row, column and K group.
LEMMA ContributionIs ==
    ASSUME NEW R, NEW C, NEW X
    PROVE  Holds(Contributions(R \X C, X), R, C, X)
<1>1. \A p : p \in R \X C <=> \E r \in R : \E c \in C : p = <<r, c>>
  OBVIOUS
<1>2. \A x : x \in Contributions(R \X C, X) <=> \E p \in R \X C : \E g \in X : x = <<<<"out", p>>, g>>
  BY DEF Contributions
<1>3. ASSUME NEW x, x \in Contributions(R \X C, X) PROVE \E r, c, g : r \in R /\ c \in C /\ g \in X /\ x = OutAt(r, c, g)
  <2>1. PICK p \in R \X C : \E g \in X : x = <<<<"out", p>>, g>>
    BY <1>2, <1>3
  <2>2. PICK g \in X : x = <<<<"out", p>>, g>>
    BY <2>1
  <2>3. PICK r \in R : \E c \in C : p = <<r, c>>
    BY <1>1
  <2>4. PICK c \in C : p = <<r, c>>
    BY <2>3
  <2>5. x = OutAt(r, c, g)
    BY <2>2, <2>4 DEF OutAt
  <2> QED
    BY <2>5
<1>4. ASSUME NEW r \in R, NEW c \in C, NEW g \in X PROVE OutAt(r, c, g) \in Contributions(R \X C, X)
  <2>1. PICK p \in R \X C : p = <<r, c>>
    OBVIOUS
  <2>2. OutAt(r, c, g) = <<<<"out", p>>, g>>
    BY <2>1 DEF OutAt
  <2> QED
    BY <1>2, <2>2
<1> QED
  BY <1>3, <1>4 DEF Holds

\* The same, with its equation named.
IsAt(x, r, c, g) == x = OutAt(r, c, g)

\* A contribution has one row, one column and one K group.
LEMMA AtIsOne ==
    ASSUME NEW x, NEW r, NEW c, NEW g, NEW r2, NEW c2, NEW g2, IsAt(x, r, c, g), IsAt(x, r2, c2, g2)
    PROVE  r = r2 /\ c = c2 /\ g = g2
<1>1. x[2] = g /\ x[1][2][1] = r /\ x[1][2][2] = c
  BY DEF IsAt, OutAt
<1>2. x[2] = g2 /\ x[1][2][1] = r2 /\ x[1][2][2] = c2
  BY DEF IsAt, OutAt
<1> QED
  BY <1>1, <1>2

\* x is the contribution of place p from g.
PartAt(x, p, g) == x = <<<<"out", p>>, g>>

\* A contribution by its place and its K group.
LEMMA PartsAt ==
    /\ \A P, X, x : x \in Contributions(P, X) <=> \E p, g : p \in P /\ g \in X /\ PartAt(x, p, g)
    /\ \A x, p, q, g, h : PartAt(x, p, g) /\ PartAt(x, q, h) => p = q /\ g = h
<1>1. ASSUME NEW x, NEW p, NEW q, NEW g, NEW h, PartAt(x, p, g), PartAt(x, q, h) PROVE p = q /\ g = h
  <2>1. x[1][2] = p /\ x[2] = g
    BY <1>1 DEF PartAt
  <2>2. x[1][2] = q /\ x[2] = h
    BY <1>1 DEF PartAt
  <2> QED
    BY <2>1, <2>2
<1>2. ASSUME NEW P, NEW X, NEW x
      PROVE  x \in Contributions(P, X) <=> \E p, g : p \in P /\ g \in X /\ PartAt(x, p, g)
  BY DEF Contributions, PartAt
<1> QED
  BY <1>1, <1>2

\* What the waves contribute whose places are P, from each of X.
YieldsOf(Bs, W, P, X) == [b \in Bs |-> [w \in W |-> Contributions(P[b][w], X)]]

\* If every place has one wave, every contribution has.
LEMMA OnceByPlaces ==
    ASSUME NEW Bs, NEW W, NEW P, NEW Q, NEW X, Once(Bs, W, P, Q)
    PROVE  Once(Bs, W, YieldsOf(Bs, W, P, X), Contributions(Q, X))
<1> PICK Y, V : Y = YieldsOf(Bs, W, P, X) /\ V = Contributions(Q, X)
  OBVIOUS
<1>1. \A b \in Bs, w \in W : Y[b][w] = Contributions(P[b][w], X)
  BY DEF YieldsOf
<1>2. \A b \in Bs, w \in W : \A x : x \in Y[b][w] <=> \E p, g : p \in P[b][w] /\ g \in X /\ PartAt(x, p, g)
  BY <1>1, PartsAt
<1>3. \A x : x \in V <=> \E p, g : p \in Q /\ g \in X /\ PartAt(x, p, g)
  BY PartsAt
<1>4. ASSUME NEW b \in Bs, NEW w \in W PROVE Y[b][w] \subseteq V
  <2>1. P[b][w] \subseteq Q
    BY DEF Once
  <2> QED
    BY <1>2, <1>3, <2>1
<1>5. ASSUME NEW x \in V PROVE \E b \in Bs, w \in W : x \in Y[b][w]
  <2>1. PICK p, g : p \in Q /\ g \in X /\ PartAt(x, p, g)
    BY <1>3
  <2>2. PICK b \in Bs, w \in W : p \in P[b][w]
    BY <2>1 DEF Once
  <2>3. x \in Y[b][w]
    BY <1>2, <2>1, <2>2
  <2> QED
    BY <2>3
<1>6. ASSUME NEW b \in Bs, NEW c \in Bs, NEW v \in W, NEW w \in W, NEW x, x \in Y[b][v], x \in Y[c][w]
      PROVE  b = c /\ v = w
  <2>1. PICK p, g : p \in P[b][v] /\ PartAt(x, p, g)
    BY <1>2, <1>6
  <2>2. PICK q, h : q \in P[c][w] /\ PartAt(x, q, h)
    BY <1>2, <1>6
  <2>3. p = q
    BY <2>1, <2>2, PartsAt
  <2>4. p \in P[b][v] \cap P[c][w]
    BY <2>1, <2>2, <2>3
  <2> QED
    BY <2>4 DEF Once
<1>7. Once(Bs, W, Y, V)
  BY <1>4, <1>5, <1>6 DEF Once
<1> QED
  BY <1>7

\* Sets as large as each other.
LEMMA SameSize ==
    ASSUME NEW S, IsFiniteSet(S), NEW T, NEW f \in [S -> T],
           \A x, y \in S : f[x] = f[y] => x = y, \A t \in T : \E x \in S : f[x] = t
    PROVE  Cardinality(T) = Cardinality(S)
<1>1. f \in Bijection(S, T)
  BY DEF Bijection, Injection, Surjection, IsInjective
<1>2. ExistsBijection(S, T)
  BY <1>1 DEF ExistsBijection
<1> QED
  BY <1>2, FS_Bijection

\* Everything of V is tagged, and with one tag.
CountedOnce(tagged, V) == {t[3] : t \in tagged} = V /\ Cardinality(tagged) = Cardinality({t[3] : t \in tagged})

\* Finitely many places and K groups make finitely many contributions.
LEMMA FiniteContributions ==
    ASSUME NEW P, IsFiniteSet(P), NEW X, IsFiniteSet(X)
    PROVE  IsFiniteSet(Contributions(P, X))
<1> DEFINE S == P \X X
           T == Contributions(P, X)
           f == [q \in S |-> <<<<"out", q[1]>>, q[2]>>]
<1>1. IsFiniteSet(S)
  BY FS_Product
<1>2. f \in [S -> T]
  BY DEF Contributions
<1>3. \A t \in T : \E q \in S : f[q] = t
  <2> SUFFICES ASSUME NEW t \in T PROVE \E q \in S : f[q] = t
    OBVIOUS
  <2>1. PICK p \in P, x \in X : t = <<<<"out", p>>, x>>
    BY DEF Contributions
  <2>2. <<p, x>> \in S /\ f[<<p, x>>] = t
    BY <2>1
  <2> QED
    BY <2>2
<1>4. f \in Surjection(S, T)
  <2> HIDE DEF f, S, T
  <2> QED
    BY <1>2, <1>3 DEF Surjection
<1> HIDE DEF f, S
<1> QED
  BY <1>1, <1>4, FS_Surjection

\* Each place with keys of its own.
Keyed(P, K) == UNION {Contributions({p}, K[p]) : p \in P}

\* What the waves contribute whose places are P, each from its keys.
KeyedOf(Bs, W, P, K) == [b \in Bs |-> [w \in W |-> Keyed(P[b][w], K)]]

\* A contribution of a place and one of its keys.
LEMMA KeyedIs ==
    ASSUME NEW P, NEW K
    PROVE  \A x : x \in Keyed(P, K) <=> \E p \in P : \E j \in K[p] : PartAt(x, p, j)
<1>1. \A p, x : x \in Contributions({p}, K[p]) <=> \E j \in K[p] : PartAt(x, p, j)
  BY DEF Contributions, PartAt
<1>2. \A x : x \in Keyed(P, K) <=> \E p \in P : x \in Contributions({p}, K[p])
  BY DEF Keyed
<1> QED
  BY <1>1, <1>2

\* If every place has one wave, every key of every place has.
LEMMA OnceByKeys ==
    ASSUME NEW Bs, NEW W, NEW P, NEW Q, NEW K, Once(Bs, W, P, Q)
    PROVE  Once(Bs, W, KeyedOf(Bs, W, P, K), Keyed(Q, K))
<1> PICK Y, V : Y = KeyedOf(Bs, W, P, K) /\ V = Keyed(Q, K)
  OBVIOUS
<1>1. \A b \in Bs, w \in W : Y[b][w] = Keyed(P[b][w], K)
  BY DEF KeyedOf
<1>2. \A b \in Bs, w \in W : \A x : x \in Y[b][w] <=> \E p \in P[b][w] : \E j \in K[p] : PartAt(x, p, j)
  BY <1>1, KeyedIs
<1>3. \A x : x \in V <=> \E p \in Q : \E j \in K[p] : PartAt(x, p, j)
  BY KeyedIs
<1>4. ASSUME NEW b \in Bs, NEW w \in W PROVE Y[b][w] \subseteq V
  <2>1. P[b][w] \subseteq Q
    BY DEF Once
  <2> QED
    BY <1>2, <1>3, <2>1
<1>5. ASSUME NEW x \in V PROVE \E b \in Bs, w \in W : x \in Y[b][w]
  <2>1. PICK p \in Q : \E j \in K[p] : PartAt(x, p, j)
    BY <1>3
  <2>2. PICK b \in Bs, w \in W : p \in P[b][w]
    BY DEF Once
  <2> QED
    BY <1>2, <2>1, <2>2
<1>6. ASSUME NEW b \in Bs, NEW c \in Bs, NEW v \in W, NEW w \in W, NEW x, x \in Y[b][v], x \in Y[c][w]
      PROVE  b = c /\ v = w
  <2>1. PICK p, i : p \in P[b][v] /\ PartAt(x, p, i)
    BY <1>2, <1>6
  <2>2. PICK q, j : q \in P[c][w] /\ PartAt(x, q, j)
    BY <1>2, <1>6
  <2>3. p = q
    BY <2>1, <2>2, PartsAt
  <2>4. p \in P[b][v] \cap P[c][w]
    BY <2>1, <2>2, <2>3
  <2> QED
    BY <2>4 DEF Once
<1>7. Once(Bs, W, Y, V)
  BY <1>4, <1>5, <1>6 DEF Once
<1> QED
  BY <1>7

\* Finitely many finite sets.
LEMMA FiniteFamily ==
    ASSUME NEW S, IsFiniteSet(S), NEW f, \A s \in S : IsFiniteSet(f[s])
    PROVE  IsFiniteSet(UNION {f[s] : s \in S})
<1> DEFINE T == {f[s] : s \in S}
           g == [s \in S |-> f[s]]
<1>1. g \in Surjection(S, T)
  BY DEF Surjection
<1>2. \A t \in T : IsFiniteSet(t)
  OBVIOUS
<1> HIDE DEF T, g
<1>3. IsFiniteSet(T)
  BY <1>1, FS_Surjection
<1>4. IsFiniteSet(UNION T)
  BY <1>2, <1>3, FS_UNION
<1> QED
  BY <1>4 DEF T

\* Finitely many places, each with finitely many keys.
LEMMA KeyedFinite ==
    ASSUME NEW P, IsFiniteSet(P), NEW K, \A p \in P : IsFiniteSet(K[p])
    PROVE  IsFiniteSet(Keyed(P, K))
<1> DEFINE f == [p \in P |-> Contributions({p}, K[p])]
<1>1. ASSUME NEW p \in P PROVE IsFiniteSet(f[p])
  <2> PICK one : one = {p}
    OBVIOUS
  <2>1. IsFiniteSet(one)
    BY FS_Singleton
  <2>2. IsFiniteSet(Contributions(one, K[p]))
    BY <2>1, FiniteContributions
  <2> QED
    BY <2>2
<1>2. Keyed(P, K) = UNION {f[p] : p \in P}
  BY DEF Keyed
<1> HIDE DEF f
<1> QED
  BY <1>1, <1>2, FiniteFamily

\* What a row has seen after n tiles is what the n tiles do not mask.
Accumulates(u, n, M) == u = [i \in 0 .. n |-> IF i = 0 THEN {} ELSE u[i - 1] \cup M[i - 1]]

\* Unions taken one at a time have the members of all.
LEMMA AccumulatesAll ==
    ASSUME NEW n \in Nat, NEW M
    PROVE  /\ \E u : Accumulates(u, n, M)
           /\ \A u : Accumulates(u, n, M) => \A x : x \in u[n] <=> \E i \in 0 .. n - 1 : x \in M[i]
<1> DEFINE upto(i) == UNION {M[j] : j \in 0 .. i - 1}
           g == [i \in 0 .. n |-> upto(i)]
<1>1. \A i \in 0 .. n : upto(i) = IF i = 0 THEN {} ELSE upto(i - 1) \cup M[i - 1]
  <2> SUFFICES ASSUME NEW i \in 0 .. n PROVE upto(i) = IF i = 0 THEN {} ELSE upto(i - 1) \cup M[i - 1]
    OBVIOUS
  <2>1. CASE i = 0
    <3>1. 0 .. i - 1 = {}
      BY <2>1
    <3> QED
      BY <2>1, <3>1
  <2>2. CASE i # 0
    <3>1. 0 .. i - 1 = (0 .. (i - 1) - 1) \cup {i - 1}
      BY <2>2
    <3>2. \A x : x \in upto(i) <=> x \in upto(i - 1) \/ x \in M[i - 1]
      BY <3>1
    <3> HIDE DEF upto
    <3> QED
      BY <2>2, <3>2
  <2> QED
    BY <2>1, <2>2
<1>2. \A i, x : x \in upto(i) <=> \E j \in 0 .. i - 1 : x \in M[j]
  OBVIOUS
<1> HIDE DEF upto
<1>3. Accumulates(g, n, M)
  <2>1. \A i \in 0 .. n : g[i] = upto(i)
    OBVIOUS
  <2>2. \A i \in 0 .. n : i # 0 => i - 1 \in 0 .. n
    OBVIOUS
  <2>3. \A i \in 0 .. n : upto(i) = IF i = 0 THEN {} ELSE g[i - 1] \cup M[i - 1]
    BY <1>1, <2>1, <2>2
  <2>4. g = [i \in 0 .. n |-> IF i = 0 THEN {} ELSE g[i - 1] \cup M[i - 1]]
    BY <2>3
  <2> QED
    BY <2>4 DEF Accumulates
<1> HIDE DEF g
<1>4. ASSUME NEW u, Accumulates(u, n, M) PROVE u[n] = upto(n)
  <2> DEFINE S == {m \in 0 .. n : u[m] = upto(m)}
  <2>0. \A i \in 0 .. n : u[i] = IF i = 0 THEN {} ELSE u[i - 1] \cup M[i - 1]
    BY <1>4 DEF Accumulates
  <2>1. 0 \in S
    <3> PICK z : z = 0
      OBVIOUS
    <3>1. z \in 0 .. n
      OBVIOUS
    <3>2. u[z] = {} /\ upto(z) = {}
      BY <1>1, <2>0, <3>1
    <3> QED
      BY <3>1, <3>2
  <2>2. ASSUME NEW i \in 0 .. n - 1, i \in S PROVE i + 1 \in S
    <3>1. i + 1 \in 0 .. n /\ i + 1 # 0 /\ (i + 1) - 1 = i
      OBVIOUS
    <3>2. u[i + 1] = u[i] \cup M[i] /\ upto(i + 1) = upto(i) \cup M[i]
      BY <1>1, <2>0, <3>1
    <3> QED
      BY <2>2, <3>1, <3>2
  <2> HIDE DEF S
  <2>3. 0 .. n \subseteq S
    BY <2>1, <2>2, Reach
  <2> QED
    BY <2>3 DEF S
<1> QED
  BY <1>2, <1>3, <1>4
=============================================================================
