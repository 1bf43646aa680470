------------------------------ MODULE CcaProofs -----------------------------
(***************************************************************************)
(* Proofs about CcaState, for any number of sequences, blocks, speculated  *)
(* tokens and padding rows, any total_padding and any bounds.              *)
(*                                                                         *)
(* The inductive invariant IInv says that each running sequence owns a row *)
(* of blocks (LayoutOK), that progress and columns are in their ranges     *)
(* (ProgressOK), that the engine which does its part makes the column that *)
(* is home the one read next (RollOK), that the block in column home holds *)
(* the tokens before the next one while block 0 stays zero (CacheOK), and  *)
(* that answers are typed (RowsOK).  Each part of a pass is then what      *)
(* CausalConv computes of the sequence alone: both prefills (EagerIs,      *)
(* HipIs, HidIs), both decodes (DecodeIs) and the verification of drafts   *)
(* from the right column (VerifyConvIs, VerRowIs), wherever the batch puts *)
(* their tokens; and each writes the blocks it owns and no other           *)
(* (FirstStage, DecWrites, PutsAre, AlignIs).  So every pass keeps IInv,   *)
(* and is a step of CausalConv (PlainPassIs, VerifyPassIs), which gives up *)
(* a sequence that has read a wrong column.                                *)
(***************************************************************************)
EXTENDS CcaState, DataLemmas

-----------------------------------------------------------------------------
\* Batches: parts laid end to end.

\* c[i] is how many items the first i of m parts have, n[i] the items of part i.
Counts(c, m, n) ==
  /\ c \in [0 .. m -> Nat] /\ c[0] = 0
  /\ \A i \in 1 .. m : n[i] \in Nat /\ c[i] = c[i - 1] + n[i]

\* More parts have more items.
LEMMA CountsGrow ==
  ASSUME NEW m \in Nat, NEW n, NEW c, Counts(c, m, n)
  PROVE  \A i, k \in 0 .. m : i <= k => c[i] <= c[k]
<1> DEFINE S == {k \in 0 .. m : \A i \in 0 .. k : c[i] <= c[k]}
<1>1. 0 \in S
  BY DEF Counts
<1>2. ASSUME NEW k \in 0 .. m - 1, k \in S PROVE k + 1 \in S
  <2>1. k + 1 \in 1 .. m /\ (k + 1) - 1 = k /\ k \in 0 .. m /\ k + 1 \in 0 .. m
    OBVIOUS
  <2>2. c[k + 1] = c[k] + n[k + 1] /\ n[k + 1] \in Nat /\ c[k] \in Nat
    BY <2>1 DEF Counts
  <2>3. ASSUME NEW i \in 0 .. k + 1 PROVE c[i] <= c[k + 1]
    <3>1. CASE i = k + 1
      BY <2>2, <3>1
    <3>2. CASE i \in 0 .. k
      <4>1. i \in 0 .. m /\ c[i] \in Nat /\ c[i] <= c[k]
        BY <1>2, <3>2 DEF Counts
      <4> QED
        BY <4>1, <2>2
    <3> QED
      BY <3>1, <3>2
  <2> QED
    BY <2>1, <2>3
<1>3. 0 .. m \subseteq S
  <2> HIDE DEF S
  <2> QED
    BY <1>1, <1>2, Reach
<1> QED
  BY <1>3

\* Each item is in one of the parts,
LEMMA PlaceExists ==
  ASSUME NEW m \in Nat, NEW n, NEW c, Counts(c, m, n), NEW t \in 1 .. c[m]
  PROVE  \E i \in 1 .. m : \E j \in 1 .. n[i] : t = c[i - 1] + j
<1> DEFINE S == {i \in 0 .. m : t <= c[i]}
<1>1. m \in S /\ c[m] \in Nat
  BY DEF Counts
<1>2. PICK i \in S : \A k \in S : i <= k
  <2> HIDE DEF S
  <2>1. S \in SUBSET (0 .. m)
    BY DEF S
  <2> QED
    BY <1>1, <2>1, LeastOf
<1>3. i \in 1 .. m /\ i - 1 \in 0 .. m /\ i - 1 \notin S
  <2>1. c[0] = 0 /\ t >= 1
    BY <1>1 DEF Counts
  <2>2. i # 0
    BY <2>1
  <2> QED
    BY <1>2, <2>2
<1>4. c[i] = c[i - 1] + n[i] /\ c[i - 1] \in Nat /\ n[i] \in Nat /\ c[i - 1] < t /\ t <= c[i]
  <2>1. c[i] = c[i - 1] + n[i] /\ c[i - 1] \in Nat /\ n[i] \in Nat
    BY <1>3 DEF Counts
  <2>2. ~(t <= c[i - 1]) /\ t <= c[i]
    BY <1>3
  <2> QED
    BY <1>1, <2>1, <2>2
<1>5. t - c[i - 1] \in 1 .. n[i] /\ t = c[i - 1] + (t - c[i - 1])
  BY <1>1, <1>4
<1> QED
  BY <1>3, <1>5

\* and in one place only.
LEMMA OnePlace ==
  ASSUME NEW m \in Nat, NEW n, NEW c, Counts(c, m, n),
         NEW i \in 1 .. m, NEW k \in 1 .. m, NEW j \in 1 .. n[i], NEW l \in 1 .. n[k]
  PROVE  /\ c[i - 1] + j \in 1 .. c[m]
         /\ c[i - 1] + j = c[k - 1] + l => i = k /\ j = l
<1>1. /\ c[i] = c[i - 1] + n[i] /\ c[i - 1] \in Nat /\ n[i] \in Nat
      /\ c[k] = c[k - 1] + n[k] /\ c[k - 1] \in Nat /\ n[k] \in Nat /\ c[m] \in Nat
  BY DEF Counts
<1>2. \A x, y \in 0 .. m : x <= y => c[x] <= c[y]
  BY CountsGrow
<1>3. c[i] <= c[m]
  BY <1>2
<1>4. c[i - 1] + j \in 1 .. c[m]
  BY <1>1, <1>3
<1>5. ASSUME c[i - 1] + j = c[k - 1] + l PROVE i = k /\ j = l
  <2>1. CASE i < k
    <3>1. c[i] <= c[k - 1]
      BY <1>2, <2>1
    <3> QED
      BY <1>1, <1>5, <3>1
  <2>2. CASE k < i
    <3>1. c[k] <= c[i - 1]
      BY <1>2, <2>2
    <3> QED
      BY <1>1, <1>5, <3>1
  <2>3. CASE i = k
    BY <1>1, <1>5, <2>3
  <2> QED
    BY <2>1, <2>2, <2>3
<1> QED
  BY <1>4, <1>5

\* m sequences over S of n[i] elements each.
Parts(p, S, m, n) ==
  m \in Nat /\ p \in [1 .. m -> Seq(S)] /\ \A i \in 1 .. m : n[i] = Len(p[i])

\* Those sequences laid end to end.
IsFlat(f, p, S, m, n, c) ==
  /\ f \in Seq(S) /\ Len(f) = c[m] /\ DOMAIN f = 1 .. c[m]
  /\ \A i \in 1 .. m : \A j \in 1 .. n[i] : f[c[i - 1] + j] = p[i][j]

\* FlattenSeq is what it is called.
LEMMA FlattenIs ==
  ASSUME NEW m, NEW S, NEW p, NEW n, NEW c, Parts(p, S, m, n), Counts(c, m, n)
  PROVE  IsFlat(FlattenSeq(p), p, S, m, n, c)
<1>0. m \in Nat /\ p \in [1 .. m -> Seq(S)] /\ \A i \in 1 .. m : n[i] = Len(p[i])
  BY DEF Parts
<1> USE <1>0
<1> DEFINE A == Seq(S)
           e == <<>>
           step == [i \in 1 .. m |-> [v \in A |-> v \o p[i]]]
<1>1. step \in [1 .. m -> [A -> A]]
  <2>1. ASSUME NEW i \in 1 .. m, NEW v \in A PROVE v \o p[i] \in A
    BY ConcatProperties
  <2> HIDE DEF A
  <2> QED
    BY <2>1
<1>2. e \in A
  OBVIOUS
<1>3. PICK g : IsRun(g, m, A, e, step)
  <2> HIDE DEF step, A, e
  <2> QED
    BY <1>1, <1>2, Recursion
<1>4. ASSUME NEW i \in 1 .. m PROVE g[i - 1] \in A /\ g[i] \in A /\ g[i] = g[i - 1] \o p[i]
  <2>1. i - 1 \in 0 .. m /\ i \in 0 .. m
    OBVIOUS
  <2>2. g[i - 1] \in A /\ g[i] \in A /\ g[i] = step[i][g[i - 1]]
    <3> HIDE DEF step, A, e
    <3> QED
      BY <1>3, <2>1 DEF IsRun
  <2>3. step[i] = [v \in A |-> v \o p[i]]
    OBVIOUS
  <2> HIDE DEF step, A
  <2> QED
    BY <2>2, <2>3
<1>5. g[0] = <<>>
  <2> HIDE DEF step, A
  <2> QED
    BY <1>3 DEF IsRun
<1> HIDE DEF step
<1>6. Len(p) = m /\ DOMAIN p = 1 .. m
  OBVIOUS
<1>7. FlattenSeq(p) = g[m]
  <2>1. CASE m = 0
    <3>1. p = <<>>
      BY <1>6, <2>1
    <3>2. FlattenSeq(p) = p
      BY <1>6, <2>1 DEF FlattenSeq
    <3> QED
      BY <1>5, <2>1, <3>1, <3>2
  <2>2. CASE m # 0
    <3> DEFINE body(f) == [i \in 1 .. m |-> IF i = 1 THEN p[i] ELSE f[i - 1] \o p[i]]
               F == CHOOSE f : f = body(f)
               h == [i \in 1 .. m |-> g[i]]
    <3>1. FlattenSeq(p) = F[m]
      BY <1>6, <2>2 DEF FlattenSeq
    <3>2. h = body(h)
      <4>1. ASSUME NEW i \in 1 .. m PROVE g[i] = IF i = 1 THEN p[i] ELSE h[i - 1] \o p[i]
        <5>1. CASE i = 1
          <6>1. g[1] = g[0] \o p[1]
            <7>1. 1 - 1 = 0
              OBVIOUS
            <7> QED
              BY <1>4, <5>1, <7>1
          <6>2. p[i] \in A
            OBVIOUS
          <6> QED
            BY <1>5, <5>1, <6>1, <6>2, ConcatEmptySeq
        <5>2. CASE i # 1
          <6>1. i - 1 \in 1 .. m
            BY <5>2
          <6>2. h[i - 1] = g[i - 1]
            BY <6>1
          <6> QED
            BY <1>4, <5>2, <6>2
        <5> QED
          BY <5>1, <5>2
      <4> QED
        BY <4>1
    <3>3. F = body(F)
      <4> HIDE DEF body, h
      <4> QED
        BY <3>2
    <3>4. \A i \in 1 .. m : F[i] = IF i = 1 THEN p[i] ELSE F[i - 1] \o p[i]
      <4> HIDE DEF F
      <4> QED
        BY <3>3
    <3> HIDE DEF F, body
    <3> DEFINE R == {i \in 0 .. m - 1 : F[i + 1] = h[i + 1]}
    <3>5. \A i \in 1 .. m : h[i] = IF i = 1 THEN p[i] ELSE h[i - 1] \o p[i]
      BY <3>2 DEF body
    <3> HIDE DEF h
    <3>6. 0 \in R
      BY <2>2, <3>4, <3>5
    <3>7. ASSUME NEW i \in 0 .. (m - 1) - 1, i \in R PROVE i + 1 \in R
      <4>1. (i + 1) + 1 \in 1 .. m /\ (i + 1) + 1 # 1 /\ ((i + 1) + 1) - 1 = i + 1 /\ i + 1 \in 0 .. m - 1
        OBVIOUS
      <4>2. F[i + 1] = h[i + 1]
        BY <3>7
      <4>3. F[(i + 1) + 1] = h[(i + 1) + 1]
        BY <3>4, <3>5, <4>1, <4>2
      <4> QED
        BY <4>1, <4>3
    <3>8. m - 1 \in R
      <4> HIDE DEF R
      <4>1. m - 1 \in Nat
        BY <2>2
      <4>2. 0 .. m - 1 \subseteq R
        BY <3>6, <3>7, <4>1, Reach
      <4> QED
        BY <4>1, <4>2
    <3>9. F[m] = h[m]
      <4>1. (m - 1) + 1 = m
        OBVIOUS
      <4> QED
        BY <3>8, <4>1
    <3> QED
      BY <2>2, <3>1, <3>9 DEF h
  <2> QED
    BY <2>1, <2>2
<1> DEFINE Good == {k \in 0 .. m : /\ Len(g[k]) = c[k]
                                   /\ \A i \in 1 .. k : \A j \in 1 .. n[i] : g[k][c[i - 1] + j] = p[i][j]}
<1>8. 0 \in Good
  BY <1>5 DEF Counts
<1>9. ASSUME NEW k \in 0 .. m - 1, k \in Good PROVE k + 1 \in Good
  <2>1. k + 1 \in 1 .. m /\ (k + 1) - 1 = k /\ k \in 0 .. m /\ k + 1 \in 0 .. m
    OBVIOUS
  <2>2. /\ g[k] \in Seq(S) /\ g[k + 1] = g[k] \o p[k + 1] /\ p[k + 1] \in Seq(S)
        /\ Len(g[k]) = c[k] /\ c[k] \in Nat /\ n[k + 1] = Len(p[k + 1])
        /\ c[k + 1] = c[k] + n[k + 1] /\ n[k + 1] \in Nat
    BY <1>4, <1>9, <2>1 DEF Counts
  <2>20. c[k] \in Nat /\ n[k + 1] \in Nat /\ c[k + 1] = c[k] + n[k + 1]
    BY <2>2
  <2>3. /\ Len(g[k + 1]) = c[k + 1]
        /\ \A x \in 1 .. c[k + 1] : g[k + 1][x] = IF x <= c[k] THEN g[k][x] ELSE p[k + 1][x - c[k]]
    <3>1. \A a, b \in Seq(S) : /\ Len(a \o b) = Len(a) + Len(b)
                                /\ \A x \in 1 .. Len(a) + Len(b) :
                                     (a \o b)[x] = IF x <= Len(a) THEN a[x] ELSE b[x - Len(a)]
      BY ConcatProperties
    <3> DEFINE a == g[k]
               b == p[k + 1]
    <3>2. /\ a \in Seq(S) /\ b \in Seq(S) /\ g[k + 1] = a \o b
          /\ Len(a) = c[k] /\ c[k + 1] = Len(a) + Len(b)
      BY <2>2
    <3>20. Len(a \o b) = Len(a) + Len(b) /\ \A x \in 1 .. Len(a) + Len(b) :
                                     (a \o b)[x] = IF x <= Len(a) THEN a[x] ELSE b[x - Len(a)]
      <4> HIDE DEF a, b
      <4> QED
        BY <3>1, <3>2
    <3> HIDE DEF a, b
    <3>3. Len(a \o b) = c[k + 1] /\ \A x \in 1 .. c[k + 1] :
            (a \o b)[x] = IF x <= c[k] THEN a[x] ELSE b[x - c[k]]
      BY <3>2, <3>20
    <3>4. Len(g[k + 1]) = c[k + 1] /\ \A x \in 1 .. c[k + 1] :
            g[k + 1][x] = IF x <= c[k] THEN a[x] ELSE b[x - c[k]]
      BY <3>2, <3>3
    <3> QED
      BY <3>4 DEF a, b
  <2>4. ASSUME NEW i \in 1 .. k + 1, NEW j \in 1 .. n[i] PROVE g[k + 1][c[i - 1] + j] = p[i][j]
    <3>1. i - 1 \in 0 .. m /\ c[i - 1] \in Nat /\ n[i] \in Nat /\ c[i] = c[i - 1] + n[i]
      BY <2>1 DEF Counts
    <3>2. CASE i = k + 1
      <4>0. c[i - 1] = c[k] /\ n[i] = n[k + 1]
        BY <2>1, <3>2
      <4>1. c[i - 1] + j \in 1 .. c[k + 1] /\ ~(c[i - 1] + j <= c[k]) /\ (c[i - 1] + j) - c[k] = j
        BY <2>20, <3>1, <4>0
      <4> QED
        BY <2>3, <3>2, <4>1
    <3>3. CASE i \in 1 .. k
      <4>0. \A x, y \in 0 .. m : x <= y => c[x] <= c[y]
        BY CountsGrow
      <4>1. c[i] <= c[k] /\ c[i - 1] + n[i] <= c[k]
        BY <2>1, <3>1, <3>3, <4>0
      <4>10. j \in Nat /\ 1 <= j /\ j <= n[i]
        BY <3>1
      <4>2. c[i - 1] + j \in Nat /\ 1 <= c[i - 1] + j /\ c[i - 1] + j <= c[k]
        <5>1. PICK a \in Nat : a = c[i - 1]
          BY <3>1
        <5>2. PICK b \in Nat : b = n[i]
          BY <3>1
        <5>3. PICK x \in Nat : x = c[k]
          BY <2>20
        <5>4. a + b <= x
          BY <4>1, <5>1, <5>2, <5>3
        <5>5. j <= b
          BY <4>10, <5>2
        <5>6. a + j \in Nat /\ 1 <= a + j /\ a + j <= x
          BY <4>10, <5>4, <5>5
        <5> QED
          BY <5>1, <5>3, <5>6
      <4>20. c[i - 1] + j \in 1 .. c[k + 1]
        BY <2>20, <4>2
      <4>3. g[k][c[i - 1] + j] = p[i][j]
        BY <1>9, <3>3
      <4> QED
        BY <2>3, <4>2, <4>20, <4>3
    <3> QED
      BY <3>2, <3>3
  <2> QED
    BY <2>1, <2>3, <2>4
<1>10. m \in Good
  <2> HIDE DEF Good
  <2>1. 0 .. m \subseteq Good
    BY <1>8, <1>9, Reach
  <2> QED
    BY <2>1
<1>11. g[m] \in Seq(S)
  <2>1. CASE m = 0
    <3>1. <<>> \in Seq(S)
      OBVIOUS
    <3> QED
      BY <1>5, <2>1, <3>1
  <2>2. CASE m \in 1 .. m
    BY <1>4, <2>2
  <2> QED
    BY <2>1, <2>2
<1>12. DOMAIN g[m] = 1 .. c[m]
  <2>1. Len(g[m]) = c[m]
    BY <1>10
  <2> QED
    BY <1>11, <2>1, LenProperties
<1> QED
  BY <1>7, <1>10, <1>11, <1>12 DEF IsFlat

-----------------------------------------------------------------------------
\* The chunks of a prefill region.

\* The history and the window of a token, and the values they hold.
Before(s, n) == Exact!Before(s, n)
Win(s, n) == Append(Before(s, n), Tok(s, n))
TokensOf(s) == {Tok(s, i) : i \in Int}
Tokens == {Tok(s, i) : s \in Seqs, i \in Int}

\* A list of chunks of different sequences.
IsChunks(pre) ==
  /\ pre \in Seq([seq : Seqs, n : Nat \ {0}])
  /\ \A i, k \in 1 .. Len(pre) : pre[i].seq = pre[k].seq => i = k

\* A list of parts of at least one token each.
IsSized(pre) ==
  /\ Len(pre) \in Nat /\ DOMAIN pre = 1 .. Len(pre)
  /\ \A i \in 1 .. Len(pre) : pre[i].n \in Nat /\ pre[i].n >= 1

\* query_start_loc counts the tokens of the chunks.
LEMMA QStartCounts ==
  ASSUME NEW m \in Nat, NEW pre, \A k \in 1 .. m : pre[k].n \in Nat
  PROVE  Counts([i \in 0 .. m |-> QStart(pre, i + 1)], m, [i \in 1 .. m |-> pre[i].n])
<1> DEFINE body(k, g) == [i \in 0 .. k |-> IF i = 0 THEN 0 ELSE g[i - 1] + pre[i].n]
           S(k) == CHOOSE g : g = body(k, g)
           F(k) == [i \in 1 .. k |-> pre[i].n]
<1>1. ASSUME NEW k \in 0 .. m
      PROVE  /\ QStart(pre, k + 1) = S(k)[k]
             /\ S(k)[0] = 0 /\ \A i \in 0 .. k : S(k)[i] \in Int
             /\ \A i \in 1 .. k : S(k)[i] = S(k)[i - 1] + pre[i].n
  <2>1. k \in Nat /\ F(k) \in [1 .. k -> Int]
    OBVIOUS
  <2>2. /\ Sums(F(k), k) \in [0 .. k -> Int]
        /\ Sums(F(k), k)[0] = 0
        /\ \A i \in 1 .. k : Sums(F(k), k)[i] = Sums(F(k), k)[i - 1] + F(k)[i]
    <3> HIDE DEF F
    <3> QED
      BY <2>1, SumsExist
  <2>3. ASSUME NEW g PROVE body(k, g) = [i \in 0 .. k |-> IF i = 0 THEN 0 ELSE g[i - 1] + F(k)[i]]
    <3>1. ASSUME NEW i \in 0 .. k, i # 0 PROVE pre[i].n = F(k)[i]
      BY <3>1
    <3> HIDE DEF F
    <3> QED
      BY <3>1
  <2>4. S(k) = Sums(F(k), k)
    <3> HIDE DEF F
    <3> QED
      BY <2>3 DEF Sums
  <2>5. \A i \in 1 .. k : F(k)[i] = pre[i].n
    OBVIOUS
  <2>6. QStart(pre, k + 1) = S(k)[k]
    <3>1. (k + 1) - 1 = k
      OBVIOUS
    <3> QED
      BY <3>1 DEF QStart
  <2> HIDE DEF F, S
  <2> QED
    BY <2>2, <2>4, <2>5, <2>6
<1> HIDE DEF S
<1>2. QStart(pre, 1) = 0
  <2>1. 0 \in 0 .. m /\ 0 + 1 = 1
    OBVIOUS
  <2> QED
    BY <1>1, <2>1
<1>3. ASSUME NEW k \in 0 .. m - 1 PROVE QStart(pre, (k + 1) + 1) = QStart(pre, k + 1) + pre[k + 1].n
  <2> DEFINE R == {i \in 0 .. k : S(k + 1)[i] = S(k)[i]}
  <2>1. k \in 0 .. m /\ k + 1 \in 0 .. m /\ (k + 1) - 1 = k /\ k + 1 \in 1 .. k + 1
    OBVIOUS
  <2>2. 0 \in R
    BY <1>1, <2>1
  <2>3. ASSUME NEW i \in 0 .. k - 1, i \in R PROVE i + 1 \in R
    <3>1. i + 1 \in 1 .. k /\ i + 1 \in 1 .. k + 1 /\ (i + 1) - 1 = i
      OBVIOUS
    <3> QED
      BY <1>1, <2>1, <2>3, <3>1
  <2>4. k \in R
    <3> HIDE DEF R
    <3>1. 0 .. k \subseteq R
      BY <2>2, <2>3, Reach
    <3> QED
      BY <3>1
  <2>5. S(k + 1)[k + 1] = S(k + 1)[k] + pre[k + 1].n
    BY <1>1, <2>1
  <2> QED
    BY <1>1, <2>1, <2>4, <2>5
<1> DEFINE c == [i \in 0 .. m |-> QStart(pre, i + 1)]
           n == [i \in 1 .. m |-> pre[i].n]
<1>4. c[0] = 0
  BY <1>2
<1>5. ASSUME NEW i \in 1 .. m PROVE n[i] \in Nat /\ c[i] = c[i - 1] + n[i]
  <2>1. i - 1 \in 0 .. m - 1 /\ (i - 1) + 1 = i /\ i - 1 \in 0 .. m /\ i \in 0 .. m
    OBVIOUS
  <2>2. QStart(pre, i + 1) = QStart(pre, i) + pre[i].n
    BY <1>3, <2>1
  <2> QED
    BY <2>1, <2>2
<1>6. \A i \in 0 .. m : c[i] \in Int
  BY <1>1
<1>7. \A i \in 0 .. m : c[i] \in Nat
  <2> DEFINE R == {i \in 0 .. m : c[i] \in Nat}
  <2> HIDE DEF c, n
  <2>1. 0 \in R
    BY <1>4
  <2>2. ASSUME NEW i \in 0 .. m - 1, i \in R PROVE i + 1 \in R
    <3>1. i + 1 \in 1 .. m /\ (i + 1) - 1 = i
      OBVIOUS
    <3> QED
      BY <1>5, <2>2, <3>1
  <2> HIDE DEF R
  <2>3. 0 .. m \subseteq R
    BY <2>1, <2>2, Reach
  <2> QED
    BY <2>3 DEF R
<1>8. c \in [0 .. m -> Nat]
  BY <1>7
<1> HIDE DEF c, n
<1>9. Counts(c, m, n)
  BY <1>4, <1>5, <1>8 DEF Counts
<1> QED
  BY <1>9 DEF c, n

\* The place of token j of chunk i in the prefill region.
LEMMA QStartIs ==
  ASSUME NEW pre, IsSized(pre)
  PROVE  /\ QStart(pre, 1) = 0 /\ QStart(pre, Len(pre) + 1) \in Nat
         /\ \A i \in 1 .. Len(pre) :
              /\ QStart(pre, i) \in Nat /\ QStart(pre, i + 1) = QStart(pre, i) + pre[i].n
              /\ QStart(pre, i + 1) <= QStart(pre, Len(pre) + 1)
         /\ \A i \in 1 .. Len(pre) : \A j \in 1 .. pre[i].n :
              QStart(pre, i) + j \in 1 .. QStart(pre, Len(pre) + 1)
         /\ \A i, k \in 1 .. Len(pre) : \A j \in 1 .. pre[i].n : \A l \in 1 .. pre[k].n :
              QStart(pre, i) + j = QStart(pre, k) + l => i = k /\ j = l
         /\ \A t \in 1 .. QStart(pre, Len(pre) + 1) :
              \E i \in 1 .. Len(pre) : \E j \in 1 .. pre[i].n : t = QStart(pre, i) + j
<1> DEFINE m == Len(pre)
           c == [i \in 0 .. m |-> QStart(pre, i + 1)]
           n == [i \in 1 .. m |-> pre[i].n]
<1>1. m \in Nat /\ \A i \in 1 .. m : pre[i].n \in Nat
  BY DEF IsSized
<1> HIDE DEF m
<1>2. Counts(c, m, n)
  BY <1>1, QStartCounts
<1>3. \A i \in 1 .. m : c[i - 1] = QStart(pre, i) /\ c[i] = QStart(pre, i + 1) /\ n[i] = pre[i].n
  <2> SUFFICES ASSUME NEW i \in 1 .. m
               PROVE  c[i - 1] = QStart(pre, i) /\ c[i] = QStart(pre, i + 1) /\ n[i] = pre[i].n
    OBVIOUS
  <2>1. i - 1 \in 0 .. m /\ (i - 1) + 1 = i /\ i \in 0 .. m
    BY <1>1
  <2> QED
    BY <2>1
<1>4. c[0] = QStart(pre, 1) /\ c[m] = QStart(pre, m + 1)
  <2>1. 0 \in 0 .. m /\ m \in 0 .. m /\ 0 + 1 = 1
    BY <1>1
  <2> QED
    BY <2>1
<1> HIDE DEF c, n
<1>5. c[0] = 0 /\ c[m] \in Nat /\ \A i \in 1 .. m : c[i - 1] \in Nat /\ c[i] = c[i - 1] + n[i] /\ c[i] <= c[m]
  <2>1. c[0] = 0 /\ c[m] \in Nat /\ \A i \in 1 .. m : c[i - 1] \in Nat /\ c[i] = c[i - 1] + n[i]
    BY <1>1, <1>2 DEF Counts
  <2>2. \A i, k \in 0 .. m : i <= k => c[i] <= c[k]
    BY <1>1, <1>2, CountsGrow
  <2>3. \A i \in 1 .. m : i \in 0 .. m /\ m \in 0 .. m /\ i <= m
    BY <1>1
  <2> QED
    BY <2>1, <2>2, <2>3
<1>6. \A i, k \in 1 .. m : \A j \in 1 .. n[i] : \A l \in 1 .. n[k] :
        c[i - 1] + j \in 1 .. c[m] /\ (c[i - 1] + j = c[k - 1] + l => i = k /\ j = l)
  BY <1>1, <1>2, OnePlace
<1>7. \A t \in 1 .. c[m] : \E i \in 1 .. m : \E j \in 1 .. n[i] : t = c[i - 1] + j
  BY <1>1, <1>2, PlaceExists
<1>8. \A i \in 1 .. m : \A j \in 1 .. n[i] : c[i - 1] + j \in 1 .. c[m]
  BY <1>6
<1>9. \A t \in 1 .. QStart(pre, m + 1) : \E i \in 1 .. m : \E j \in 1 .. pre[i].n : t = QStart(pre, i) + j
  <2> SUFFICES ASSUME NEW t \in 1 .. QStart(pre, m + 1)
               PROVE  \E i \in 1 .. m : \E j \in 1 .. pre[i].n : t = QStart(pre, i) + j
    OBVIOUS
  <2>1. PICK i \in 1 .. m : \E j \in 1 .. n[i] : t = c[i - 1] + j
    BY <1>4, <1>7
  <2>2. PICK j \in 1 .. n[i] : t = c[i - 1] + j
    BY <2>1
  <2> QED
    BY <1>3, <2>2
<1>10. \A i, k \in 1 .. m : \A j \in 1 .. pre[i].n : \A l \in 1 .. pre[k].n :
         QStart(pre, i) + j = QStart(pre, k) + l => i = k /\ j = l
  BY <1>3, <1>6
<1>11. \A i \in 1 .. m : \A j \in 1 .. pre[i].n : QStart(pre, i) + j \in 1 .. QStart(pre, m + 1)
  BY <1>3, <1>4, <1>8
<1>12. \A i \in 1 .. m : /\ QStart(pre, i) \in Nat /\ QStart(pre, i + 1) = QStart(pre, i) + pre[i].n
                         /\ QStart(pre, i + 1) <= QStart(pre, m + 1)
  BY <1>3, <1>4, <1>5
<1>13. QStart(pre, 1) = 0 /\ QStart(pre, m + 1) \in Nat
  BY <1>4, <1>5
<1> QED
  BY <1>9, <1>10, <1>11, <1>12, <1>13 DEF m

\* The place of token j of chunk i, and the number of tokens.
At(pre, i, j) == QStart(pre, i) + j
Total(pre) == QStart(pre, Len(pre) + 1)

\* Histories and windows, entry by entry.
LEMMA BeforeIs ==
  ASSUME NEW s, NEW n \in Int
  PROVE  /\ Before(s, n) = [c \in 1 .. TP |-> Tok(s, n - TP + c - 1)]
         /\ Win(s, n) = [c \in 1 .. TP + 1 |-> Tok(s, n - TP + c - 1)]
         /\ Win(s, n) \in Seq(TokensOf(s)) /\ Before(s, n) \in Seq(TokensOf(s))
         /\ Len(Before(s, n)) = TP /\ Len(Win(s, n)) = TP + 1
<1> DEFINE S == TokensOf(s)
           b == [c \in 1 .. TP |-> Tok(s, n - TP + c - 1)]
           w == [c \in 1 .. TP + 1 |-> Tok(s, n - TP + c - 1)]
<1>1. TP \in Nat \ {0} /\ TP \in Nat
  BY CcaAssumption
<1>2. Before(s, n) = b
  BY DEF Before, Exact!Before, Tok
<1>3. \A i \in Int : Tok(s, i) \in S
  BY DEF TokensOf
<1> HIDE DEF S
<1>4. b \in Seq(S) /\ Len(b) = TP
  <2>1. \A c \in 1 .. TP : Tok(s, n - TP + c - 1) \in S
    BY <1>1, <1>3
  <2> QED
    BY <1>1, <2>1
<1>5. w \in Seq(S) /\ Len(w) = TP + 1
  <2>1. \A c \in 1 .. TP + 1 : Tok(s, n - TP + c - 1) \in S
    BY <1>1, <1>3
  <2> QED
    BY <1>1, <2>1
<1>6. Append(b, Tok(s, n)) = w
  <2>1. /\ Append(b, Tok(s, n)) \in Seq(S) /\ Len(Append(b, Tok(s, n))) = TP + 1
        /\ \A c \in 1 .. TP + 1 : Append(b, Tok(s, n))[c] = IF c <= TP THEN b[c] ELSE Tok(s, n)
    <3>1. Tok(s, n) \in S
      BY <1>3
    <3> HIDE DEF b
    <3> QED
      BY <1>1, <1>4, <3>1
  <2>2. ASSUME NEW c \in 1 .. TP + 1 PROVE Append(b, Tok(s, n))[c] = w[c]
    <3>1. CASE c <= TP
      BY <1>1, <2>1, <3>1
    <3>2. CASE ~(c <= TP)
      <4>1. c = TP + 1 /\ n - TP + c - 1 = n
        BY <1>1, <3>2
      <4> QED
        BY <1>1, <2>1, <3>2, <4>1
    <3> QED
      BY <3>1, <3>2
  <2> HIDE DEF b, w
  <2>3. \A c \in 1 .. Len(w) : Append(b, Tok(s, n))[c] = w[c]
    BY <1>5, <2>2
  <2> QED
    BY <1>5, <2>1, <2>3, SeqEqual
<1>7. Win(s, n) = w
  <2> HIDE DEF b, w
  <2> QED
    BY <1>2, <1>6 DEF Win
<1> QED
  BY <1>2, <1>4, <1>5, <1>7 DEF S

\* Chunks have tokens and belong to sequences.
LEMMA ChunkTypes ==
  ASSUME NEW pre, IsChunks(pre)
  PROVE  /\ IsSized(pre) /\ Len(pre) \in Nat /\ DOMAIN pre = 1 .. Len(pre)
         /\ \A i \in 1 .. Len(pre) : pre[i].seq \in Seqs /\ pre[i].n \in Nat /\ pre[i].n >= 1
<1>1. pre \in Seq([seq : Seqs, n : Nat \ {0}])
  BY DEF IsChunks
<1>2. Len(pre) \in Nat /\ DOMAIN pre = 1 .. Len(pre)
  BY <1>1, LenProperties
<1>3. \A i \in 1 .. Len(pre) : pre[i] \in [seq : Seqs, n : Nat \ {0}]
  BY <1>1, ElementOfSeq
<1>4. \A x \in [seq : Seqs, n : Nat \ {0}] : x.seq \in Seqs /\ x.n \in Nat /\ x.n >= 1
  OBVIOUS
<1> QED
  BY <1>2, <1>3, <1>4 DEF IsSized

\* A chunk is the next tokens of its sequence.
LEMMA ChunkIs ==
  ASSUME NEW r, r.seq \in Seqs, r.n \in Nat, len[r.seq] \in Nat
  PROVE  /\ Chunk(r) \in Seq(Tokens) /\ Len(Chunk(r)) = r.n
         /\ \A j \in 1 .. r.n : Chunk(r)[j] = Tok(r.seq, len[r.seq] + j - 1)
<1> DEFINE s == r.seq
           k == r.n
<1>1. Chunk(r) = [t \in 1 .. k |-> Tok(s, len[s] + t - 1)]
  BY DEF Chunk
<1>2. s \in Seqs /\ k \in Nat /\ len[s] \in Nat
  OBVIOUS
<1> HIDE DEF s, k
<1>3. \A t \in 1 .. k : Tok(s, len[s] + t - 1) \in Tokens
  BY <1>2 DEF Tokens
<1>4. /\ Chunk(r) \in Seq(Tokens) /\ Len(Chunk(r)) = k
      /\ \A j \in 1 .. k : Chunk(r)[j] = Tok(s, len[s] + j - 1)
  BY <1>1, <1>2, <1>3
<1> QED
  BY <1>4 DEF s, k

\* The parts of a batch, laid end to end, one for each of its chunks.
Laid(f, p, S, pre) ==
  /\ f \in Seq(S) /\ Len(f) = Total(pre) /\ DOMAIN f = 1 .. Total(pre)
  /\ \A i \in 1 .. Len(pre) : \A j \in 1 .. pre[i].n : f[At(pre, i, j)] = p[i][j]

\* Parts of the length of the chunks lie where the chunks lie.
LEMMA LaidIs ==
  ASSUME NEW pre, IsSized(pre), NEW S, NEW p \in [1 .. Len(pre) -> Seq(S)],
         \A i \in 1 .. Len(pre) : Len(p[i]) = pre[i].n
  PROVE  Laid(FlattenSeq(p), p, S, pre)
<1> DEFINE m == Len(pre)
           c == [i \in 0 .. m |-> QStart(pre, i + 1)]
           n == [i \in 1 .. m |-> pre[i].n]
<1>1. m \in Nat /\ \A i \in 1 .. m : pre[i].n \in Nat
  BY DEF IsSized
<1>2. Counts(c, m, n)
  <2> HIDE DEF m
  <2> QED
    BY <1>1, QStartCounts
<1>3. Parts(p, S, m, n)
  BY <1>1 DEF Parts
<1>4. c[m] = Total(pre) /\ \A i \in 1 .. m : n[i] = pre[i].n /\ c[i - 1] = QStart(pre, i)
  <2>1. \A i \in 1 .. m : i - 1 \in 0 .. m /\ (i - 1) + 1 = i
    BY <1>1
  <2>2. m \in 0 .. m
    BY <1>1
  <2> QED
    BY <2>1, <2>2 DEF Total
<1> HIDE DEF m, c, n
<1>5. IsFlat(FlattenSeq(p), p, S, m, n, c)
  BY <1>2, <1>3, FlattenIs
<1>6. \A i \in 1 .. m : \A j \in 1 .. pre[i].n : FlattenSeq(p)[At(pre, i, j)] = p[i][j]
  <2> SUFFICES ASSUME NEW i \in 1 .. m, NEW j \in 1 .. pre[i].n PROVE FlattenSeq(p)[At(pre, i, j)] = p[i][j]
    OBVIOUS
  <2>1. c[i - 1] + j = At(pre, i, j) /\ j \in 1 .. n[i]
    BY <1>4 DEF At
  <2> QED
    BY <1>5, <2>1 DEF IsFlat
<1> QED
  BY <1>4, <1>5, <1>6 DEF IsFlat, Laid, m

\* The request of each token of a batch.
OfRequest(req, pre) == \A i \in 1 .. Len(pre) : \A j \in 1 .. pre[i].n : req[At(pre, i, j)] = i

\* The request of a token is the chunk it lies in.
LEMMA ReqIs ==
  ASSUME NEW pre, IsSized(pre)
  PROVE  OfRequest(Req(pre), pre)
<1> DEFINE m == Len(pre)
           q == [i \in DOMAIN pre |-> [t \in 1 .. pre[i].n |-> i]]
<1>1. /\ m \in Nat /\ DOMAIN pre = 1 .. m /\ \A i \in 1 .. m : pre[i].n \in Nat
  BY DEF IsSized
<1>2. /\ q \in [1 .. m -> Seq(Nat)] /\ \A i \in 1 .. m : Len(q[i]) = pre[i].n
      /\ \A i \in 1 .. m : \A j \in 1 .. pre[i].n : q[i][j] = i
  <2>1. ASSUME NEW i \in 1 .. m
        PROVE  /\ q[i] \in Seq(Nat) /\ Len(q[i]) = pre[i].n /\ \A j \in 1 .. pre[i].n : q[i][j] = i
    <3>1. i \in Nat /\ pre[i].n \in Nat
      BY <1>1
    <3>2. q[i] = [t \in 1 .. pre[i].n |-> i]
      BY <1>1
    <3>3. q[i] \in Seq(Nat) /\ Len(q[i]) = pre[i].n
      BY <3>1, <3>2
    <3> QED
      BY <3>2, <3>3
  <2> QED
    BY <1>1, <2>1
<1>3. Req(pre) = FlattenSeq(q)
  BY DEF Req
<1> HIDE DEF q
<1>4. Laid(FlattenSeq(q), q, Nat, pre)
  BY <1>2, LaidIs
<1>5. ASSUME NEW i \in 1 .. m, NEW j \in 1 .. pre[i].n PROVE FlattenSeq(q)[At(pre, i, j)] = i
  <2>1. FlattenSeq(q)[At(pre, i, j)] = q[i][j]
    BY <1>4 DEF Laid
  <2> QED
    BY <1>2, <2>1
<1> QED
  BY <1>3, <1>5 DEF OfRequest

\* The prefill region holds the tokens of the chunks, one after the other.
LEMMA ToksIs ==
  ASSUME NEW pre, IsChunks(pre), len \in [Seqs -> Nat]
  PROVE  /\ Toks(pre) \in Seq(Tokens) /\ Len(Toks(pre)) = Total(pre) /\ DOMAIN Toks(pre) = 1 .. Total(pre)
         /\ \A i \in 1 .. Len(pre) : \A j \in 1 .. pre[i].n :
              /\ Toks(pre)[At(pre, i, j)] = Tok(pre[i].seq, len[pre[i].seq] + j - 1)
              /\ Req(pre)[At(pre, i, j)] = i
<1> DEFINE m == Len(pre)
           p == [i \in DOMAIN pre |-> Chunk(pre[i])]
<1>1. /\ m \in Nat /\ DOMAIN pre = 1 .. m
      /\ \A i \in 1 .. m : pre[i].seq \in Seqs /\ pre[i].n \in Nat /\ pre[i].n >= 1
  BY ChunkTypes
<1>2. ASSUME NEW i \in 1 .. m
      PROVE  /\ Chunk(pre[i]) \in Seq(Tokens) /\ Len(Chunk(pre[i])) = pre[i].n
             /\ \A j \in 1 .. pre[i].n : Chunk(pre[i])[j] = Tok(pre[i].seq, len[pre[i].seq] + j - 1)
  <2>1. pre[i].seq \in Seqs /\ pre[i].n \in Nat /\ len[pre[i].seq] \in Nat
    BY <1>1
  <2> QED
    BY <2>1, ChunkIs
<1>3. /\ p \in [1 .. m -> Seq(Tokens)] /\ \A i \in 1 .. m : p[i] = Chunk(pre[i]) /\ Len(p[i]) = pre[i].n
  BY <1>1, <1>2
<1>4. Toks(pre) = FlattenSeq(p)
  BY DEF Toks
<1> HIDE DEF p
<1>5. Laid(FlattenSeq(p), p, Tokens, pre)
  BY <1>3, LaidIs, ChunkTypes
<1>6. \A i \in 1 .. m : \A j \in 1 .. pre[i].n : Req(pre)[At(pre, i, j)] = i
  BY ReqIs, ChunkTypes DEF OfRequest
<1>7. \A i \in 1 .. m : \A j \in 1 .. pre[i].n : Toks(pre)[At(pre, i, j)] = Tok(pre[i].seq, len[pre[i].seq] + j - 1)
  <2>1. ASSUME NEW i \in 1 .. m, NEW j \in 1 .. pre[i].n
        PROVE  FlattenSeq(p)[At(pre, i, j)] = Tok(pre[i].seq, len[pre[i].seq] + j - 1)
    <3>1. FlattenSeq(p)[At(pre, i, j)] = p[i][j]
      BY <1>5 DEF Laid
    <3>2. p[i][j] = Chunk(pre[i])[j]
      BY <1>3
    <3> QED
      BY <1>2, <3>1, <3>2
  <2> QED
    BY <1>4, <2>1
<1> QED
  BY <1>4, <1>5, <1>6, <1>7 DEF Laid

-----------------------------------------------------------------------------
\* Pieces of a sequence.

\* From index k on, f holds n adjacent tokens of s that begin TP before token l.
Adjacent(f, k, n, s, l) == \A o \in 1 .. n : f[k + o - 1] = Tok(s, l - TP + o - 1)

\* A piece of a sequence that holds adjacent tokens is a window or a history.
LEMMA PieceIs ==
  ASSUME NEW f, NEW k \in Int, NEW s, NEW l \in Int
  PROVE  /\ Adjacent(f, k, TP + 1, s, l) => SubSeq(f, k, k + TP) = Win(s, l)
         /\ Adjacent(f, k, TP, s, l) => SubSeq(f, k, k + TP - 1) = Before(s, l)
<1> DEFINE S == TokensOf(s)
<1>1. TP \in Nat /\ k + TP \in Int /\ k + TP - 1 \in Int
  BY CcaAssumption
<1>2. \A i \in Int : Tok(s, i) \in S
  BY DEF TokensOf
<1>3. /\ Before(s, l) = [c \in 1 .. TP |-> Tok(s, l - TP + c - 1)]
      /\ Win(s, l) = [c \in 1 .. TP + 1 |-> Tok(s, l - TP + c - 1)]
      /\ Win(s, l) \in Seq(S) /\ Before(s, l) \in Seq(S) /\ Len(Before(s, l)) = TP /\ Len(Win(s, l)) = TP + 1
  BY BeforeIs
<1> HIDE DEF S
<1>4. ASSUME \A o \in 1 .. TP + 1 : f[k + o - 1] = Tok(s, l - TP + o - 1)
      PROVE  SubSeq(f, k, k + TP) = Win(s, l)
  <2>1. ASSUME NEW i \in k .. k + TP PROVE f[i] \in S
    <3>1. i - k + 1 \in 1 .. TP + 1 /\ k + (i - k + 1) - 1 = i
      BY <1>1
    <3>2. f[i] = Tok(s, l - TP + (i - k + 1) - 1)
      BY <1>4, <3>1
    <3>3. l - TP + (i - k + 1) - 1 \in Int
      BY <1>1
    <3> QED
      BY <1>2, <3>2, <3>3
  <2>2. /\ SubSeq(f, k, k + TP) \in Seq(S)
        /\ Len(SubSeq(f, k, k + TP)) = IF k <= k + TP THEN (k + TP) - k + 1 ELSE 0
        /\ \A i \in 1 .. (k + TP) - k + 1 : SubSeq(f, k, k + TP)[i] = f[k + i - 1]
    BY <1>1, <2>1, SubSeqProperties
  <2>3. Len(SubSeq(f, k, k + TP)) = TP + 1 /\ (k + TP) - k + 1 = TP + 1
    BY <1>1, <2>2
  <2>4. \A i \in 1 .. TP + 1 : SubSeq(f, k, k + TP)[i] = Win(s, l)[i]
    BY <1>3, <1>4, <2>2, <2>3
  <2> QED
    BY <1>3, <2>2, <2>3, <2>4, SeqEqual
<1>5. ASSUME \A o \in 1 .. TP : f[k + o - 1] = Tok(s, l - TP + o - 1)
      PROVE  SubSeq(f, k, k + TP - 1) = Before(s, l)
  <2>1. ASSUME NEW i \in k .. k + TP - 1 PROVE f[i] \in S
    <3>1. i - k + 1 \in 1 .. TP /\ k + (i - k + 1) - 1 = i
      BY <1>1
    <3>2. f[i] = Tok(s, l - TP + (i - k + 1) - 1)
      BY <1>5, <3>1
    <3>3. l - TP + (i - k + 1) - 1 \in Int
      BY <1>1
    <3> QED
      BY <1>2, <3>2, <3>3
  <2>2. /\ SubSeq(f, k, k + TP - 1) \in Seq(S)
        /\ Len(SubSeq(f, k, k + TP - 1)) = IF k <= k + TP - 1 THEN (k + TP - 1) - k + 1 ELSE 0
        /\ \A i \in 1 .. (k + TP - 1) - k + 1 : SubSeq(f, k, k + TP - 1)[i] = f[k + i - 1]
    BY <1>1, <2>1, SubSeqProperties
  <2>3. Len(SubSeq(f, k, k + TP - 1)) = TP /\ (k + TP - 1) - k + 1 = TP
    BY <1>1, <2>2
  <2>4. \A i \in 1 .. TP : SubSeq(f, k, k + TP - 1)[i] = Before(s, l)[i]
    BY <1>3, <1>5, <2>2, <2>3
  <2> QED
    BY <1>3, <2>2, <2>3, <2>4, SeqEqual
<1> QED
  BY <1>4, <1>5 DEF Adjacent

\* The history of a sequence, followed by its next tokens.
LEMMA SegmentIs ==
  ASSUME NEW r, r.seq \in Seqs, r.n \in Nat, len[r.seq] \in Nat
  PROVE  /\ Before(r.seq, len[r.seq]) \o Chunk(r) \in Seq(Tokens)
         /\ Len(Before(r.seq, len[r.seq]) \o Chunk(r)) = r.n + TP
         /\ \A x \in 1 .. r.n + TP : (Before(r.seq, len[r.seq]) \o Chunk(r))[x] =
                                       Tok(r.seq, len[r.seq] - TP + x - 1)
<1> DEFINE s == r.seq
           k == r.n
           a == Before(s, len[s])
           b == Chunk(r)
<1>1. s \in Seqs /\ k \in Nat /\ len[s] \in Nat /\ TP \in Nat
  BY CcaAssumption
<1>2. a \in Seq(Tokens) /\ Len(a) = TP /\ \A c \in 1 .. TP : a[c] = Tok(s, len[s] - TP + c - 1)
  <2> HIDE DEF s
  <2>1. TokensOf(s) \subseteq Tokens
    BY <1>1 DEF Tokens, TokensOf
  <2>2. /\ a = [c \in 1 .. TP |-> Tok(s, len[s] - TP + c - 1)] /\ Len(a) = TP
        /\ a \in Seq(TokensOf(s))
    BY <1>1, BeforeIs
  <2>3. a \in Seq(Tokens)
    BY <2>1, <2>2, SeqMonotonic
  <2> QED
    BY <2>2, <2>3
<1>3. b \in Seq(Tokens) /\ Len(b) = k /\ \A j \in 1 .. k : b[j] = Tok(s, len[s] + j - 1)
  BY ChunkIs
<1> HIDE DEF s, k, a, b
<1>4. /\ a \o b \in Seq(Tokens) /\ Len(a \o b) = TP + k
      /\ \A x \in 1 .. TP + k : (a \o b)[x] = IF x <= TP THEN a[x] ELSE b[x - TP]
  BY <1>2, <1>3, ConcatProperties
<1>5. ASSUME NEW x \in 1 .. k + TP PROVE (a \o b)[x] = Tok(s, len[s] - TP + x - 1)
  <2>1. CASE x <= TP
    <3>1. x \in 1 .. TP + k /\ x \in 1 .. TP
      BY <1>1, <2>1
    <3> QED
      BY <1>2, <1>4, <2>1, <3>1
  <2>2. CASE ~(x <= TP)
    <3>1. x \in 1 .. TP + k /\ x - TP \in 1 .. k /\ len[s] + (x - TP) - 1 = len[s] - TP + x - 1
      BY <1>1, <2>2
    <3> QED
      BY <1>3, <1>4, <2>2, <3>1
  <2> QED
    BY <2>1, <2>2
<1>6. TP + k = k + TP
  BY <1>1
<1> QED
  BY <1>4, <1>5, <1>6 DEF s, k, a, b

\* Cached state that is what the sequence has taken.
Cached(s) == InitState(s) = Before(s, len[s]) /\ InitHid(s) = Tok(s, len[s] - 1)

\* What the prefill has to answer and to store.
IsFilled(p, pre) ==
  /\ DOMAIN p.win = 1 .. Total(pre)
  /\ \A i \in 1 .. Len(pre) : \A j \in 1 .. pre[i].n :
       p.win[At(pre, i, j)] = Win(pre[i].seq, len[pre[i].seq] + j - 1)
  /\ p.put = {<<Base(pre[i].seq), Before(pre[i].seq, len[pre[i].seq] + pre[i].n)>> : i \in 1 .. Len(pre)}

-----------------------------------------------------------------------------
\* The prefill, eager and fused.

\* One convolution over the segments of all chunks: none of its windows that is kept spans
\* two segments.
LEMMA EagerIs ==
  ASSUME NEW pre, IsChunks(pre), len \in [Seqs -> Nat], \A i \in 1 .. Len(pre) : Cached(pre[i].seq)
  PROVE  IsFilled(EagerPrefill(pre), pre)
<1> DEFINE m == Len(pre)
           p == [i \in DOMAIN pre |-> InitState(pre[i].seq) \o Chunk(pre[i])]
           n == [i \in 1 .. m |-> pre[i].n + TP]
           c == [i \in 0 .. m |-> QStart(pre, i + 1) + i * TP]
           flat == FlattenSeq(p)
<1>1. /\ m \in Nat /\ DOMAIN pre = 1 .. m /\ TP \in Nat
      /\ \A i \in 1 .. m : pre[i].seq \in Seqs /\ pre[i].n \in Nat /\ pre[i].n >= 1 /\ len[pre[i].seq] \in Nat
  BY ChunkTypes, CcaAssumption
<1>2. /\ QStart(pre, 1) = 0 /\ QStart(pre, m + 1) \in Nat
      /\ \A i \in 1 .. m : QStart(pre, i) \in Nat /\ QStart(pre, i + 1) = QStart(pre, i) + pre[i].n
      /\ \A i \in 1 .. m : \A j \in 1 .. pre[i].n : At(pre, i, j) \in 1 .. QStart(pre, m + 1)
      /\ \A t \in 1 .. QStart(pre, m + 1) : \E i \in 1 .. m : \E j \in 1 .. pre[i].n : t = At(pre, i, j)
  BY QStartIs, ChunkTypes DEF At
<1>3. Counts(c, m, n)
  <2>1. \A i \in 0 .. m : QStart(pre, i + 1) \in Nat /\ i * TP \in Nat
    <3> SUFFICES ASSUME NEW i \in 0 .. m PROVE QStart(pre, i + 1) \in Nat /\ i * TP \in Nat
      OBVIOUS
    <3>1. i \in Nat /\ i * TP \in Nat
      BY <1>1
    <3>2. CASE i = 0
      BY <1>2, <3>1, <3>2
    <3>3. CASE i \in 1 .. m
      BY <1>1, <1>2, <3>1, <3>3
    <3> QED
      BY <1>1, <3>2, <3>3
  <2>2. c \in [0 .. m -> Nat]
    BY <2>1
  <2>3. c[0] = 0
    <3>1. 0 \in 0 .. m /\ 0 + 1 = 1 /\ 0 * TP = 0
      BY <1>1
    <3> QED
      BY <1>2, <3>1
  <2>4. ASSUME NEW i \in 1 .. m PROVE n[i] \in Nat /\ c[i] = c[i - 1] + n[i]
    <3>1. i - 1 \in 0 .. m /\ i \in 0 .. m /\ (i - 1) + 1 = i /\ i * TP = (i - 1) * TP + TP
          /\ (i - 1) * TP \in Nat
      BY <1>1
    <3>2. c[i] = QStart(pre, i + 1) + i * TP /\ c[i - 1] = QStart(pre, i) + (i - 1) * TP /\ n[i] = pre[i].n + TP
      BY <3>1
    <3>3. PICK x \in Nat : x = QStart(pre, i)
      BY <1>2
    <3>4. PICK y \in Nat : y = (i - 1) * TP
      BY <3>1
    <3>5. QStart(pre, i + 1) = x + pre[i].n /\ i * TP = y + TP
      BY <1>2, <3>1, <3>3, <3>4
    <3>6. pre[i].n \in Nat /\ TP \in Nat
      BY <1>1
    <3> HIDE DEF c, n
    <3>7. c[i] = (x + pre[i].n) + (y + TP) /\ c[i - 1] = x + y /\ n[i] = pre[i].n + TP
      BY <3>2, <3>3, <3>4, <3>5
    <3> QED
      BY <3>6, <3>7
  <2> HIDE DEF c, n
  <2> QED
    BY <2>2, <2>3, <2>4 DEF Counts
<1>4. ASSUME NEW i \in 1 .. m
      PROVE  /\ p[i] \in Seq(Tokens) /\ Len(p[i]) = pre[i].n + TP
             /\ \A x \in 1 .. pre[i].n + TP : p[i][x] = Tok(pre[i].seq, len[pre[i].seq] - TP + x - 1)
  <2>1. p[i] = Before(pre[i].seq, len[pre[i].seq]) \o Chunk(pre[i])
    BY <1>1 DEF Cached
  <2> DEFINE r == pre[i]
  <2>2. r.seq \in Seqs /\ r.n \in Nat /\ len[r.seq] \in Nat
    BY <1>1
  <2> HIDE DEF r
  <2>3. /\ Before(r.seq, len[r.seq]) \o Chunk(r) \in Seq(Tokens)
        /\ Len(Before(r.seq, len[r.seq]) \o Chunk(r)) = r.n + TP
        /\ \A x \in 1 .. r.n + TP : (Before(r.seq, len[r.seq]) \o Chunk(r))[x] =
                                       Tok(r.seq, len[r.seq] - TP + x - 1)
    BY <2>2, SegmentIs
  <2> HIDE DEF p
  <2> QED
    BY <2>1, <2>3 DEF r
<1>5. IsFlat(flat, p, Tokens, m, n, c)
  <2>1. Parts(p, Tokens, m, n)
    <3>1. DOMAIN p = 1 .. m /\ p = [i \in 1 .. m |-> p[i]] /\ \A i \in 1 .. m : n[i] = pre[i].n + TP
      BY <1>1
    <3> HIDE DEF m, p, n, c
    <3> QED
      BY <1>1, <1>4, <3>1 DEF Parts
  <2> HIDE DEF m, p, n, c
  <2> QED
    BY <1>3, <2>1, FlattenIs
<1>6. \A i \in 1 .. m : i - 1 \in 0 .. m /\ c[i - 1] = QStart(pre, i) + (i - 1) * TP /\ n[i] = pre[i].n + TP
  <2>1. \A i \in 1 .. m : i - 1 \in 0 .. m /\ (i - 1) + 1 = i
    BY <1>1
  <2> QED
    BY <2>1
<1>7. /\ EagerPrefill(pre).win = [t \in DOMAIN Toks(pre) |-> Conv(flat)[(t - 1 + (Req(pre)[t] - 1) * TP) + 1]]
      /\ EagerPrefill(pre).put = {<<Base(pre[i].seq), SubSeq(flat, NewStatePos(pre, i) + 1, NewStatePos(pre, i) + TP)>>
                                    : i \in DOMAIN pre}
  BY DEF EagerPrefill
<1> HIDE DEF flat, p, n, c, m
<1>8. /\ Len(flat) = c[m] /\ c \in [0 .. m -> Nat]
      /\ \A i \in 1 .. m : /\ c[i - 1] \in Nat /\ c[i] = c[i - 1] + (pre[i].n + TP) /\ c[i] <= Len(flat)
                           /\ \A x \in 1 .. pre[i].n + TP :
                                flat[c[i - 1] + x] = Tok(pre[i].seq, len[pre[i].seq] - TP + x - 1)
  <2>1. Len(flat) = c[m] /\ \A i \in 1 .. m : \A j \in 1 .. n[i] : flat[c[i - 1] + j] = p[i][j]
    BY <1>5 DEF IsFlat
  <2>2. c \in [0 .. m -> Nat] /\ \A i \in 1 .. m : c[i] = c[i - 1] + n[i]
    BY <1>3 DEF Counts
  <2>3. \A i, k \in 0 .. m : i <= k => c[i] <= c[k]
    BY <1>1, <1>3, CountsGrow
  <2>4. \A i \in 1 .. m : i \in 0 .. m /\ m \in 0 .. m /\ i <= m
    BY <1>1
  <2>5. \A i \in 1 .. m : c[i - 1] \in Nat /\ c[i] <= Len(flat)
    BY <1>6, <2>1, <2>2, <2>3, <2>4
  <2>6. \A i \in 1 .. m : c[i] = c[i - 1] + (pre[i].n + TP)
    BY <1>6, <2>2
  <2>7. \A i \in 1 .. m : \A x \in 1 .. pre[i].n + TP :
           flat[c[i - 1] + x] = Tok(pre[i].seq, len[pre[i].seq] - TP + x - 1)
    BY <1>4, <1>6, <2>1
  <2> QED
    BY <2>1, <2>2, <2>5, <2>6, <2>7
<1>9. /\ DOMAIN Toks(pre) = 1 .. Total(pre)
      /\ \A i \in 1 .. m : \A j \in 1 .. pre[i].n : Req(pre)[At(pre, i, j)] = i
  BY ToksIs DEF m
<1>10. ASSUME NEW i \in 1 .. m, NEW j \in 1 .. pre[i].n
       PROVE  EagerPrefill(pre).win[At(pre, i, j)] = Win(pre[i].seq, len[pre[i].seq] + j - 1)
  <2> DEFINE t == At(pre, i, j)
             k == c[i - 1] + j
             s == pre[i].seq
             l == len[s] + j - 1
  <2>1. t \in 1 .. Total(pre) /\ Req(pre)[t] = i
    BY <1>2, <1>9 DEF Total, m
  <2>2. (t - 1 + (i - 1) * TP) + 1 = k
    <3>1. PICK y \in Nat : y = (i - 1) * TP
      BY <1>1
    <3>2. PICK x \in Nat : x = QStart(pre, i)
      BY <1>2
    <3>3. t = x + j /\ k = (x + y) + j
      BY <1>6, <3>1, <3>2 DEF At
    <3> HIDE DEF t, k
    <3>4. (t - 1 + y) + 1 = k
      BY <1>1, <3>3
    <3> QED
      BY <3>1, <3>4
  <2>3. k \in Int /\ l \in Int /\ k \in 1 .. Len(flat) - TP
    <3>1. c[i - 1] \in Nat /\ c[i - 1] + (pre[i].n + TP) <= Len(flat) /\ pre[i].n \in Nat /\ TP \in Nat
          /\ len[s] \in Nat /\ j \in Nat /\ 1 <= j /\ j <= pre[i].n
      BY <1>1, <1>8
    <3>2. PICK x \in Nat : x = c[i - 1]
      BY <3>1
    <3>3. PICK y \in Nat : y = pre[i].n
      BY <3>1
    <3>4. Len(flat) \in Nat
      <4>1. m \in 0 .. m
        BY <1>1
      <4> QED
        BY <1>8, <4>1
    <3>5. PICK z \in Nat : z = Len(flat)
      BY <3>4
    <3>6. x + (y + TP) <= z /\ j <= y
      BY <3>1, <3>2, <3>3, <3>5
    <3>7. x + j \in 1 .. z - TP
      BY <3>1, <3>6
    <3>8. k \in 1 .. Len(flat) - TP
      BY <3>2, <3>5, <3>7
    <3> QED
      BY <3>1, <3>8, SMTT(20)
  <2>4. EagerPrefill(pre).win[t] = SubSeq(flat, k, k + TP)
    <3>1. EagerPrefill(pre).win[t] = Conv(flat)[(t - 1 + (Req(pre)[t] - 1) * TP) + 1]
      BY <1>7, <1>9, <2>1
    <3>2. EagerPrefill(pre).win[t] = Conv(flat)[k]
      BY <2>1, <2>2, <3>1
    <3> HIDE DEF k, t
    <3>3. Conv(flat)[k] = SubSeq(flat, k, k + TP)
      BY <2>3 DEF Conv
    <3> QED
      BY <3>2, <3>3
  <2>5. ASSUME NEW o \in 1 .. TP + 1 PROVE flat[k + o - 1] = Tok(s, l - TP + o - 1)
    <3>1. c[i - 1] \in Nat /\ TP \in Nat /\ pre[i].n \in Nat /\ len[s] \in Nat
      BY <1>1, <1>8
    <3>2. j + o - 1 \in 1 .. pre[i].n + TP /\ k + o - 1 = c[i - 1] + (j + o - 1)
          /\ l - TP + o - 1 = len[s] - TP + (j + o - 1) - 1
      <4>1. PICK x \in Nat : x = c[i - 1]
        BY <3>1
      <4>2. PICK y \in Nat : y = pre[i].n
        BY <3>1
      <4>3. PICK z \in Nat : z = len[s]
        BY <3>1
      <4>4. j \in 1 .. y /\ k = x + j /\ l = z + j - 1
        BY <4>1, <4>2, <4>3
      <4> HIDE DEF k, l, s
      <4>5. j + o - 1 \in 1 .. y + TP /\ k + o - 1 = x + (j + o - 1) /\ l - TP + o - 1 = z - TP + (j + o - 1) - 1
        BY <3>1, <4>4
      <4> QED
        BY <4>1, <4>2, <4>3, <4>5
    <3>3. flat[c[i - 1] + (j + o - 1)] = Tok(s, len[s] - TP + (j + o - 1) - 1)
      BY <1>8, <3>2
    <3> QED
      BY <3>2, <3>3
  <2>6. SubSeq(flat, k, k + TP) = Win(s, l)
    <3> HIDE DEF k, l, s
    <3> QED
      <4>1. k \in Int /\ l \in Int
        BY <2>3
      <4>2. Adjacent(flat, k, TP + 1, s, l)
        BY <2>5 DEF Adjacent
      <4> QED
        BY <4>1, <4>2, PieceIs
  <2> QED
    BY <2>4, <2>6
<1>11. ASSUME NEW i \in 1 .. m
       PROVE  SubSeq(flat, NewStatePos(pre, i) + 1, NewStatePos(pre, i) + TP) =
                Before(pre[i].seq, len[pre[i].seq] + pre[i].n)
  <2> DEFINE s == pre[i].seq
             l == len[s] + pre[i].n
             k == NewStatePos(pre, i) + 1
  <2>1. /\ c[i - 1] \in Nat /\ TP \in Nat /\ pre[i].n \in Nat /\ len[s] \in Nat
    BY <1>1, <1>8
  <2>2. k = (c[i - 1] + pre[i].n) + 1 /\ NewStatePos(pre, i) + TP = k + TP - 1 /\ k \in Int /\ l \in Int
    <3>1. PICK y \in Nat : y = (i - 1) * TP
      BY <1>1
    <3>2. PICK x \in Nat : x = QStart(pre, i)
      BY <1>2
    <3>3. NewStatePos(pre, i) = (x + pre[i].n) + y /\ c[i - 1] = x + y
      BY <1>2, <1>6, <3>1, <3>2 DEF NewStatePos
    <3>4. k = ((x + pre[i].n) + y) + 1 /\ NewStatePos(pre, i) + TP = ((x + pre[i].n) + y) + TP
      BY <3>3
    <3>5. l \in Int
      BY <2>1
    <3> HIDE DEF k, l
    <3>6. k = ((x + y) + pre[i].n) + 1 /\ NewStatePos(pre, i) + TP = k + TP - 1 /\ k \in Int
      <4>1. PICK q \in Nat, d \in Nat : q = pre[i].n /\ d = TP
        BY <2>1
      <4>2. k = ((x + q) + y) + 1 /\ NewStatePos(pre, i) + TP = ((x + q) + y) + d
        BY <3>4, <4>1
      <4>3. \A a, e \in Nat : ((a + q) + e) + 1 = ((a + e) + q) + 1 /\ ((a + q) + e) + 1 \in Int
        OBVIOUS
      <4>4. ((x + q) + y) + d = (((x + q) + y) + 1) + d - 1
        <5>1. \A a, e \in Nat : a + e = (a + 1) + e - 1
          OBVIOUS
        <5>2. (x + q) + y \in Nat
          OBVIOUS
        <5> QED
          BY <5>1, <5>2
      <4> QED
        BY <4>1, <4>2, <4>3, <4>4
    <3> QED
      BY <3>3, <3>5, <3>6
  <2>3. ASSUME NEW o \in 1 .. TP PROVE flat[k + o - 1] = Tok(s, l - TP + o - 1)
    <3>1. pre[i].n + o \in 1 .. pre[i].n + TP /\ k + o - 1 = c[i - 1] + (pre[i].n + o)
          /\ l - TP + o - 1 = len[s] - TP + (pre[i].n + o) - 1
      <4>1. PICK x \in Nat : x = c[i - 1]
        BY <2>1
      <4>2. PICK y \in Nat : y = pre[i].n
        BY <2>1
      <4>3. PICK z \in Nat : z = len[s]
        BY <2>1
      <4>4. k = (x + y) + 1 /\ l = z + y
        BY <2>2, <4>1, <4>2, <4>3
      <4> HIDE DEF k, l, s
      <4>50. TP \in Nat
        BY <2>1
      <4>5. y + o \in 1 .. y + TP /\ k + o - 1 = x + (y + o) /\ l - TP + o - 1 = z - TP + (y + o) - 1
        BY <4>4, <4>50
      <4> QED
        BY <4>1, <4>2, <4>3, <4>5
    <3>2. flat[c[i - 1] + (pre[i].n + o)] = Tok(s, len[s] - TP + (pre[i].n + o) - 1)
      BY <1>8, <3>1
    <3> QED
      BY <3>1, <3>2
  <2>4. SubSeq(flat, k, k + TP - 1) = Before(s, l)
    <3> HIDE DEF k, l, s
    <3> QED
      <4>1. k \in Int /\ l \in Int
        BY <2>2
      <4>2. Adjacent(flat, k, TP, s, l)
        BY <2>3 DEF Adjacent
      <4> QED
        BY <4>1, <4>2, PieceIs
  <2> QED
    BY <2>2, <2>4
<1>12. EagerPrefill(pre).put = {<<Base(pre[i].seq), Before(pre[i].seq, len[pre[i].seq] + pre[i].n)>> : i \in 1 .. m}
  <2> DEFINE L == {<<Base(pre[i].seq), SubSeq(flat, NewStatePos(pre, i) + 1, NewStatePos(pre, i) + TP)>>
                    : i \in 1 .. m}
             R == {<<Base(pre[i].seq), Before(pre[i].seq, len[pre[i].seq] + pre[i].n)>> : i \in 1 .. m}
  <2>1. L = R
    BY <1>11
  <2>2. EagerPrefill(pre).put = L
    BY <1>1, <1>7
  <2> HIDE DEF L
  <2> QED
    BY <2>1, <2>2
<1>13. DOMAIN EagerPrefill(pre).win = 1 .. Total(pre)
  BY <1>7, <1>9
<1> QED
  BY <1>10, <1>12, <1>13 DEF IsFilled, m

\* A window without its first token is the history of the next one.
LEMMA Rolled ==
  ASSUME NEW s, NEW l \in Int
  PROVE  SubSeq(Win(s, l), 2, TP + 1) = Before(s, l + 1)
<1>1. TP \in Nat /\ l + 1 \in Int /\ 2 \in Int /\ 2 + TP - 1 = TP + 1
  BY CcaAssumption
<1>2. Win(s, l) = [c \in 1 .. TP + 1 |-> Tok(s, l - TP + c - 1)]
  BY BeforeIs
<1>3. ASSUME NEW o \in 1 .. TP PROVE Win(s, l)[2 + o - 1] = Tok(s, (l + 1) - TP + o - 1)
  <2>1. 2 + o - 1 \in 1 .. TP + 1 /\ l - TP + (2 + o - 1) - 1 = (l + 1) - TP + o - 1
    BY <1>1
  <2> QED
    BY <1>2, <2>1
<1>4. Adjacent(Win(s, l), 2, TP, s, l + 1)
  BY <1>3 DEF Adjacent
<1>5. SubSeq(Win(s, l), 2, 2 + TP - 1) = Before(s, l + 1)
  BY <1>1, <1>4, PieceIs
<1> QED
  BY <1>1, <1>5

\* The fused kernel gathers, token by token, the same windows and states.
LEMMA HipIs ==
  ASSUME NEW pre, IsChunks(pre), len \in [Seqs -> Nat], \A i \in 1 .. Len(pre) : Cached(pre[i].seq)
  PROVE  IsFilled(HipPrefill(pre), pre)
<1> DEFINE m == Len(pre)
           init == [i \in DOMAIN pre |-> InitState(pre[i].seq)]
           toks == Toks(pre)
           req == Req(pre)
           seg(t) == t - 1 - QStart(pre, req[t])
           win(t) == [o \in 1 .. TP + 1 |-> IF seg(t) - TP + o - 1 >= 0
                                            THEN toks[t - TP + o - 1] ELSE init[req[t]][seg(t) + o]]
           last == {t \in DOMAIN toks : t = QStart(pre, req[t] + 1)}
<1>1. /\ m \in Nat /\ DOMAIN pre = 1 .. m /\ TP \in Nat
      /\ \A i \in 1 .. m : pre[i].seq \in Seqs /\ pre[i].n \in Nat /\ pre[i].n >= 1 /\ len[pre[i].seq] \in Nat
  BY ChunkTypes, CcaAssumption
<1>2. /\ \A i \in 1 .. m : QStart(pre, i) \in Nat /\ QStart(pre, i + 1) = QStart(pre, i) + pre[i].n
      /\ \A i \in 1 .. m : \A j \in 1 .. pre[i].n : At(pre, i, j) \in 1 .. Total(pre)
      /\ \A t \in 1 .. Total(pre) : \E i \in 1 .. m : \E j \in 1 .. pre[i].n : t = At(pre, i, j)
  BY QStartIs, ChunkTypes DEF At, Total
<1>3. /\ DOMAIN toks = 1 .. Total(pre)
      /\ \A i \in 1 .. m : \A j \in 1 .. pre[i].n :
           toks[At(pre, i, j)] = Tok(pre[i].seq, len[pre[i].seq] + j - 1) /\ req[At(pre, i, j)] = i
  BY ToksIs
<1>4. /\ HipPrefill(pre).win = [t \in DOMAIN toks |-> win(t)]
      /\ HipPrefill(pre).put = {<<Base(pre[req[t]].seq), SubSeq(win(t), 2, TP + 1)>> : t \in last}
  BY DEF HipPrefill
<1>5. ASSUME NEW i \in 1 .. m
      PROVE  init[i] = [c \in 1 .. TP |-> Tok(pre[i].seq, len[pre[i].seq] - TP + c - 1)]
  <2>1. init[i] = Before(pre[i].seq, len[pre[i].seq]) /\ len[pre[i].seq] \in Int
    BY <1>1 DEF Cached
  <2> HIDE DEF init
  <2>2. Before(pre[i].seq, len[pre[i].seq]) =
          [c \in 1 .. TP |-> Tok(pre[i].seq, len[pre[i].seq] - TP + c - 1)]
    BY <2>1, BeforeIs
  <2> QED
    BY <2>1, <2>2
<1>6. ASSUME NEW i \in 1 .. m, NEW j \in 1 .. pre[i].n
      PROVE  win(At(pre, i, j)) = Win(pre[i].seq, len[pre[i].seq] + j - 1)
  <2> DEFINE s == pre[i].seq
             n == pre[i].n
             q == QStart(pre, i)
             l == len[s]
  <2>1. q \in Nat /\ l \in Nat /\ n \in Nat /\ TP \in Nat /\ j \in 1 .. n
    BY <1>1, <1>2
  <2>2. /\ \A o \in 1 .. n : toks[q + o] = Tok(s, l + o - 1)
        /\ \A o \in 1 .. TP : init[i][o] = Tok(s, l - TP + o - 1)
    <3>1. ASSUME NEW o \in 1 .. n PROVE toks[q + o] = Tok(s, l + o - 1)
      <4>1. toks[At(pre, i, o)] = Tok(pre[i].seq, len[pre[i].seq] + o - 1)
        BY <1>3
      <4> HIDE DEF toks
      <4> QED
        BY <4>1 DEF At
    <3>2. ASSUME NEW o \in 1 .. TP PROVE init[i][o] = Tok(s, l - TP + o - 1)
      <4> HIDE DEF init
      <4> QED
        BY <1>5
    <3> QED
      BY <3>1, <3>2
  <2>3. win(q + j) = [o \in 1 .. TP + 1 |-> IF ((q + j) - 1 - q) - TP + o - 1 >= 0
                        THEN toks[(q + j) - TP + o - 1] ELSE init[i][((q + j) - 1 - q) + o]]
    <3>1. req[q + j] = i
      BY <1>3 DEF At
    <3> QED
      BY <3>1
  <2> HIDE DEF s, n, q, l, win, toks, init
  <2>4. ASSUME NEW o \in 1 .. TP + 1
        PROVE  (IF ((q + j) - 1 - q) - TP + o - 1 >= 0 THEN toks[(q + j) - TP + o - 1]
                ELSE init[i][((q + j) - 1 - q) + o]) = Tok(s, (l + j - 1) - TP + o - 1)
    <3>1. CASE ((q + j) - 1 - q) - TP + o - 1 >= 0
      <4>1. j - TP + o - 1 \in 1 .. n /\ (q + j) - TP + o - 1 = q + (j - TP + o - 1)
            /\ l + (j - TP + o - 1) - 1 = (l + j - 1) - TP + o - 1
        BY <2>1, <3>1
      <4>2. toks[q + (j - TP + o - 1)] = Tok(s, l + (j - TP + o - 1) - 1)
        BY <2>2, <4>1
      <4> QED
        BY <3>1, <4>1, <4>2
    <3>2. CASE ~(((q + j) - 1 - q) - TP + o - 1 >= 0)
      <4>1. (j - 1) + o \in 1 .. TP /\ ((q + j) - 1 - q) + o = (j - 1) + o
            /\ l - TP + ((j - 1) + o) - 1 = (l + j - 1) - TP + o - 1
        BY <2>1, <3>2
      <4>2. init[i][(j - 1) + o] = Tok(s, l - TP + ((j - 1) + o) - 1)
        BY <2>2, <4>1
      <4> QED
        BY <3>2, <4>1, <4>2
    <3> QED
      BY <3>1, <3>2
  <2>5. Win(s, l + j - 1) = [o \in 1 .. TP + 1 |-> Tok(s, (l + j - 1) - TP + o - 1)]
    <3>1. l + j - 1 \in Int
      BY <2>1
    <3> QED
      BY <3>1, BeforeIs
  <2>6. win(q + j) = Win(s, l + j - 1)
    BY <2>3, <2>4, <2>5
  <2> QED
    BY <2>6 DEF s, q, l, At
<1>7. ASSUME NEW i \in 1 .. m
      PROVE  SubSeq(win(At(pre, i, pre[i].n)), 2, TP + 1) = Before(pre[i].seq, len[pre[i].seq] + pre[i].n)
  <2>1. pre[i].n \in 1 .. pre[i].n
    BY <1>1
  <2>2. win(At(pre, i, pre[i].n)) = Win(pre[i].seq, len[pre[i].seq] + pre[i].n - 1)
    BY <1>6, <2>1
  <2>3. len[pre[i].seq] + pre[i].n - 1 \in Int
        /\ (len[pre[i].seq] + pre[i].n - 1) + 1 = len[pre[i].seq] + pre[i].n
    BY <1>1
  <2> HIDE DEF win
  <2> QED
    BY <2>2, <2>3, Rolled
<1>8. \A t : t \in last <=> \E i \in 1 .. m : t = At(pre, i, pre[i].n)
  <2>1. ASSUME NEW t \in last PROVE \E i \in 1 .. m : t = At(pre, i, pre[i].n)
    <3>1. t \in 1 .. Total(pre) /\ t = QStart(pre, req[t] + 1)
      BY <1>3
    <3>2. PICK i \in 1 .. m : \E j \in 1 .. pre[i].n : t = At(pre, i, j)
      BY <1>2, <3>1
    <3>3. PICK j \in 1 .. pre[i].n : t = At(pre, i, j)
      BY <3>2
    <3>4. req[t] = i
      BY <1>3, <3>3
    <3>5. t = QStart(pre, i) + pre[i].n
      BY <1>2, <3>1, <3>4
    <3> QED
      BY <3>5 DEF At
  <2>2. ASSUME NEW i \in 1 .. m PROVE At(pre, i, pre[i].n) \in last
    <3>1. pre[i].n \in 1 .. pre[i].n
      BY <1>1
    <3>2. At(pre, i, pre[i].n) \in DOMAIN toks /\ req[At(pre, i, pre[i].n)] = i
      BY <1>2, <1>3, <3>1
    <3>3. At(pre, i, pre[i].n) = QStart(pre, i + 1)
      BY <1>2 DEF At
    <3> QED
      BY <3>2, <3>3
  <2> HIDE DEF last
  <2> QED
    BY <2>1, <2>2
<1>9. \A i \in 1 .. m : req[At(pre, i, pre[i].n)] = i
  <2>1. \A i \in 1 .. m : pre[i].n \in 1 .. pre[i].n
    BY <1>1
  <2> QED
    BY <1>3, <2>1
<1>10. HipPrefill(pre).put = {<<Base(pre[i].seq), Before(pre[i].seq, len[pre[i].seq] + pre[i].n)>> : i \in 1 .. m}
  <2> DEFINE L == {<<Base(pre[req[t]].seq), SubSeq(win(t), 2, TP + 1)>> : t \in last}
             R == {<<Base(pre[i].seq), Before(pre[i].seq, len[pre[i].seq] + pre[i].n)>> : i \in 1 .. m}
  <2>1. ASSUME NEW x \in L PROVE x \in R
    <3>1. PICK t \in last : x = <<Base(pre[req[t]].seq), SubSeq(win(t), 2, TP + 1)>>
      OBVIOUS
    <3>2. PICK i \in 1 .. m : t = At(pre, i, pre[i].n)
      <4> HIDE DEF last
      <4> QED
        BY <1>8
    <3> HIDE DEF win, last, req
    <3> QED
      BY <1>7, <1>9, <3>1, <3>2
  <2>2. ASSUME NEW x \in R PROVE x \in L
    <3>1. PICK i \in 1 .. m : x = <<Base(pre[i].seq), Before(pre[i].seq, len[pre[i].seq] + pre[i].n)>>
      OBVIOUS
    <3> DEFINE t == At(pre, i, pre[i].n)
    <3>2. t \in last
      <4> HIDE DEF last
      <4> QED
        BY <1>8
    <3> HIDE DEF win, last, req
    <3>3. x = <<Base(pre[req[t]].seq), SubSeq(win(t), 2, TP + 1)>>
      BY <1>7, <1>9, <3>1
    <3> HIDE DEF t
    <3> QED
      BY <3>2, <3>3
  <2>3. L = R
    <3> HIDE DEF L, R
    <3> QED
      BY <2>1, <2>2
  <2>4. HipPrefill(pre).put = L
    BY <1>4
  <2> HIDE DEF L
  <2> QED
    BY <2>3, <2>4
<1>11. DOMAIN HipPrefill(pre).win = 1 .. Total(pre)
  BY <1>3, <1>4
<1>12. ASSUME NEW i \in 1 .. m, NEW j \in 1 .. pre[i].n
       PROVE  HipPrefill(pre).win[At(pre, i, j)] = Win(pre[i].seq, len[pre[i].seq] + j - 1)
  <2>1. At(pre, i, j) \in DOMAIN toks
    BY <1>2, <1>3
  <2> HIDE DEF win
  <2>2. HipPrefill(pre).win[At(pre, i, j)] = win(At(pre, i, j))
    BY <1>4, <2>1
  <2> QED
    BY <1>6, <2>2
<1> QED
  BY <1>10, <1>11, <1>12 DEF IsFilled

\* A shift by one with a seed per request: the first token of each sees its seed.
IsShifted(f, toks, seed, pre) ==
  \A i \in 1 .. Len(pre) : \A j \in 1 .. pre[i].n :
    f[At(pre, i, j)] = IF j = 1 THEN seed[i] ELSE toks[At(pre, i, j - 1)]

\* The shift by one crosses no chunk: the first token of each sees its seed.
LEMMA ShiftedIs ==
  ASSUME NEW pre, IsSized(pre), NEW toks, DOMAIN toks = 1 .. Total(pre), NEW req, OfRequest(req, pre), NEW seed
  PROVE  IsShifted(Shifted(toks, req, seed), toks, seed, pre)
<1> DEFINE m == Len(pre)
<1>1. m \in Nat /\ \A k \in 1 .. m : pre[k].n \in Nat /\ pre[k].n >= 1
  BY DEF IsSized
<1>2. /\ \A k \in 1 .. m : QStart(pre, k) \in Nat
      /\ \A k \in 1 .. m : \A l \in 1 .. pre[k].n : At(pre, k, l) \in 1 .. Total(pre)
      /\ Total(pre) \in Nat
      /\ \A x \in 1 .. Total(pre) : \E k \in 1 .. m : \E l \in 1 .. pre[k].n : x = At(pre, k, l)
  BY QStartIs DEF At, Total
<1>3. \A k \in 1 .. m : \A l \in 1 .. pre[k].n : req[At(pre, k, l)] = k
  BY DEF OfRequest
<1>4. ASSUME NEW i \in 1 .. m, NEW j \in 1 .. pre[i].n
      PROVE  Shifted(toks, req, seed)[At(pre, i, j)] = IF j = 1 THEN seed[i] ELSE toks[At(pre, i, j - 1)]
  <2> DEFINE t == At(pre, i, j)
  <2>1. t \in DOMAIN toks /\ t \in 1 .. Total(pre) /\ req[t] = i
    BY <1>2, <1>3
  <2>2. t = QStart(pre, i) + j /\ QStart(pre, i) \in Nat /\ j \in Nat /\ j >= 1
    BY <1>1, <1>2 DEF At
  <2> HIDE DEF t
  <2>3. Shifted(toks, req, seed)[t] =
          IF t = 1 THEN seed[i] ELSE IF req[t - 1] # i THEN seed[i] ELSE toks[t - 1]
    BY <2>1 DEF Shifted
  <2>4. CASE j = 1
    <3>1. ASSUME t # 1 PROVE req[t - 1] # i
      <4>1. t - 1 \in 1 .. Total(pre) /\ t - 1 = QStart(pre, i)
        <5>1. PICK q \in Nat : q = QStart(pre, i)
          BY <2>2
        <5>2. PICK z \in Nat : z = Total(pre)
          BY <1>2
        <5>3. t = q + 1 /\ t \in 1 .. z
          BY <2>1, <2>2, <2>4, <5>1, <5>2
        <5>4. t - 1 \in 1 .. z /\ t - 1 = q
          BY <3>1, <5>3
        <5> QED
          BY <5>1, <5>2, <5>4
      <4>2. PICK k \in 1 .. m : \E l \in 1 .. pre[k].n : t - 1 = At(pre, k, l)
        BY <1>2, <4>1
      <4>3. PICK l \in 1 .. pre[k].n : t - 1 = At(pre, k, l)
        BY <4>2
      <4>4. req[t - 1] = k
        BY <1>3, <4>3
      <4>5. k # i
        <5>1. ASSUME k = i PROVE FALSE
          <6>1. t - 1 = QStart(pre, i) + l /\ l \in Nat /\ l >= 1
            BY <1>1, <4>3, <5>1 DEF At
          <6> QED
            BY <2>2, <4>1, <6>1
        <5> QED
          BY <5>1
      <4> QED
        BY <4>4, <4>5
    <3> QED
      BY <2>3, <2>4, <3>1 DEF t
  <2>5. CASE j # 1
    <3>1. j - 1 \in 1 .. pre[i].n /\ t # 1 /\ t - 1 = QStart(pre, i) + (j - 1)
      BY <1>1, <2>2, <2>5
    <3>2. t - 1 = At(pre, i, j - 1)
      BY <3>1 DEF At
    <3>3. req[t - 1] = i /\ toks[t - 1] = toks[At(pre, i, j - 1)]
      BY <1>3, <3>1, <3>2
    <3> QED
      BY <2>3, <2>5, <3>1, <3>3 DEF t
  <2> QED
    BY <2>4, <2>5
<1> QED
  BY <1>4 DEF IsShifted

\* The previous-token stream of the prefill: each token sees the one before it.
LEMMA HidIs ==
  ASSUME NEW pre, IsChunks(pre), len \in [Seqs -> Nat], \A i \in 1 .. Len(pre) : Cached(pre[i].seq)
  PROVE  /\ \A i \in 1 .. Len(pre) : \A j \in 1 .. pre[i].n :
              PrefillHid(pre).hs2[At(pre, i, j)] = Tok(pre[i].seq, len[pre[i].seq] + j - 2)
         /\ PrefillHid(pre).put =
              {<<Base(pre[i].seq), Tok(pre[i].seq, len[pre[i].seq] + pre[i].n - 1)>> : i \in 1 .. Len(pre)}
<1> DEFINE m == Len(pre)
           toks == Toks(pre)
           req == Req(pre)
           seed == [i \in DOMAIN pre |-> InitHid(pre[i].seq)]
<1>1. /\ m \in Nat /\ DOMAIN pre = 1 .. m
      /\ \A i \in 1 .. m : pre[i].seq \in Seqs /\ pre[i].n \in Nat /\ pre[i].n >= 1 /\ len[pre[i].seq] \in Nat
  BY ChunkTypes
<1>2. /\ \A i \in 1 .. m : QStart(pre, i) \in Nat /\ QStart(pre, i + 1) = QStart(pre, i) + pre[i].n
      /\ \A i \in 1 .. m : \A j \in 1 .. pre[i].n : At(pre, i, j) \in 1 .. Total(pre)
      /\ Total(pre) \in Nat
      /\ \A i, k \in 1 .. m : \A j \in 1 .. pre[i].n : \A l \in 1 .. pre[k].n :
           At(pre, i, j) = At(pre, k, l) => i = k /\ j = l
      /\ \A t \in 1 .. Total(pre) : \E i \in 1 .. m : \E j \in 1 .. pre[i].n : t = At(pre, i, j)
  BY QStartIs, ChunkTypes DEF At, Total
<1>3. /\ DOMAIN toks = 1 .. Total(pre)
      /\ \A i \in 1 .. m : \A j \in 1 .. pre[i].n :
           toks[At(pre, i, j)] = Tok(pre[i].seq, len[pre[i].seq] + j - 1) /\ req[At(pre, i, j)] = i
  BY ToksIs
<1>4. /\ PrefillHid(pre).hs2 = Shifted(toks, req, seed)
      /\ PrefillHid(pre).put = {<<Base(pre[i].seq), toks[QStart(pre, i + 1)]>> : i \in DOMAIN pre}
  BY DEF PrefillHid
<1>5. \A i \in 1 .. m : seed[i] = Tok(pre[i].seq, len[pre[i].seq] - 1)
  BY <1>1 DEF Cached
<1> HIDE DEF toks, req, seed
<1>6. ASSUME NEW i \in 1 .. m, NEW j \in 1 .. pre[i].n
      PROVE  Shifted(toks, req, seed)[At(pre, i, j)] = Tok(pre[i].seq, len[pre[i].seq] + j - 2)
  <2>1. Shifted(toks, req, seed)[At(pre, i, j)] = IF j = 1 THEN seed[i] ELSE toks[At(pre, i, j - 1)]
    <3>1. OfRequest(req, pre)
      BY <1>3 DEF OfRequest
    <3>2. IsShifted(Shifted(toks, req, seed), toks, seed, pre)
      BY <1>3, <3>1, ShiftedIs, ChunkTypes
    <3> QED
      BY <3>2 DEF IsShifted
  <2>2. CASE j = 1
    <3>1. len[pre[i].seq] + j - 2 = len[pre[i].seq] - 1
      BY <1>1, <2>2
    <3> QED
      BY <1>5, <2>1, <2>2, <3>1
  <2>3. CASE j # 1
    <3>1. j - 1 \in 1 .. pre[i].n /\ len[pre[i].seq] + (j - 1) - 1 = len[pre[i].seq] + j - 2
      BY <1>1, <2>3
    <3> QED
      BY <1>3, <2>1, <2>3, <3>1
  <2> QED
    BY <2>2, <2>3
<1>7. ASSUME NEW i \in 1 .. m PROVE toks[QStart(pre, i + 1)] = Tok(pre[i].seq, len[pre[i].seq] + pre[i].n - 1)
  <2>1. pre[i].n \in 1 .. pre[i].n
    BY <1>1
  <2>2. QStart(pre, i + 1) = At(pre, i, pre[i].n)
    BY <1>2 DEF At
  <2> QED
    BY <1>3, <2>1, <2>2
<1>8. PrefillHid(pre).put = {<<Base(pre[i].seq), Tok(pre[i].seq, len[pre[i].seq] + pre[i].n - 1)>> : i \in 1 .. m}
  <2> DEFINE L == {<<Base(pre[i].seq), toks[QStart(pre, i + 1)]>> : i \in 1 .. m}
             R == {<<Base(pre[i].seq), Tok(pre[i].seq, len[pre[i].seq] + pre[i].n - 1)>> : i \in 1 .. m}
  <2>1. L = R
    BY <1>7
  <2>2. PrefillHid(pre).put = L
    BY <1>1, <1>4
  <2> HIDE DEF L
  <2> QED
    BY <2>1, <2>2
<1> QED
  BY <1>4, <1>6, <1>8

-----------------------------------------------------------------------------
\* The inductive invariant.

\* Each running sequence has a row of blocks of its own.
LayoutOK ==
  /\ cfg \in [mode : Modes, hip : SUBSET {"decode", "prefill"}, keeps : BOOLEAN]
  /\ (cfg.mode = "plain" => cfg.keeps) /\ (cfg.mode = "computed" => ~cfg.keeps)
  /\ tab \in [Seqs -> Seq(1 .. NumSlots)]
  /\ \A s \in Seqs : tab[s] # <<>> => Len(tab[s]) = Width
  /\ \A s \in Seqs : IsInjective(tab[s])
  /\ \A s, t \in Seqs : s # t => Range(tab[s]) \cap Range(tab[t]) = {}

\* Only running sequences have tokens, and only "all" mode moves a prompt's column.
ProgressOK ==
  /\ len \in [Seqs -> 0 .. MaxLen]
  /\ \A s \in Seqs : len[s] > 0 => tab[s] # <<>>
  /\ \A s \in Seqs : tab[s] = <<>> => acc[s] = 0
  /\ sched \in [Seqs -> 0 .. MaxBlock] /\ acc \in [Seqs -> 0 .. P]
  /\ \A s \in Seqs : cfg.mode # "all" \/ (acc[s] = 0 /\ cfg.keeps) => sched[s] = 0

\* The state is in column 0 until drafts are verified; where the engine does its part, the
\* next pass finds it.
RollOK ==
  /\ home \in [Seqs -> -1 .. Width - 1] /\ lost \subseteq Seqs
  /\ \A s \in Seqs : acc[s] = 0 => home[s] = 0 /\ s \notin lost
  /\ cfg.mode = "plain" => \A s \in Seqs : acc[s] = 0
  /\ cfg.keeps => lost = {}
  /\ cfg.keeps /\ cfg.mode # "all" => \A s \in Seqs : home[s] = 0
  /\ cfg.keeps /\ cfg.mode = "all" => \A s \in Seqs : home[s] = sched[s] + AtLeast(acc[s], 1) - 1

\* Blocks hold tokens, the reserved one zeros, and the block read next the last tokens.
CacheOK ==
  /\ conv \in [0 .. NumSlots -> [1 .. TP -> Token]] /\ hid \in [0 .. NumSlots -> Token]
  /\ conv[0] = Zeros /\ hid[0] = Zero
  /\ CacheFollows

\* A row of an answer has its types, and zeros where it is padding.
RowOK(x) ==
  /\ x.tok \in Token \cup {Junk} /\ x.hs2 \in Token \cup {Junk} /\ x.win \in [1 .. TP + 1 -> Token \cup {Junk}]
  /\ x.tok = Zero => x.hs2 = Zero /\ \A c \in 1 .. TP + 1 : x.win[c] = Zero

\* All rows of the last answer.
RowsOK == \A r \in DOMAIN out : RowOK(out[r])

\* The inductive invariant.
IInv == LayoutOK /\ ProgressOK /\ RollOK /\ CacheOK /\ RowsOK

\* Sizes.
LEMMA WidthIs ==
  ASSUME LayoutOK
  PROVE  /\ P \in Nat /\ P >= 1 /\ Width \in Nat /\ Width >= 1
         /\ cfg.mode = "align" => Width = P
         /\ cfg.mode \in {"computed", "all"} => Width = P + MaxBlock
         /\ cfg.mode \in {"plain", "align", "computed", "all"}
  BY CcaAssumption DEF LayoutOK, P, Width

\* The blocks of the running sequences.
LEMMA BlocksAre ==
  ASSUME LayoutOK
  PROVE  /\ \A s \in Seqs : tab[s] # <<>> => \A i \in 1 .. Width : tab[s][i] \in 1 .. NumSlots
         /\ \A s, t \in Seqs : tab[s] # <<>> /\ tab[t] # <<>> =>
              \A i, j \in 1 .. Width : tab[s][i] = tab[t][j] => s = t /\ i = j
<1>1. \A s \in Seqs : tab[s] \in Seq(1 .. NumSlots)
  BY DEF LayoutOK
<1>2. \A s \in Seqs : tab[s] # <<>> => DOMAIN tab[s] = 1 .. Width
  <2> SUFFICES ASSUME NEW s \in Seqs, tab[s] # <<>> PROVE DOMAIN tab[s] = 1 .. Width
    OBVIOUS
  <2>1. DOMAIN tab[s] = 1 .. Len(tab[s])
    BY <1>1, LenProperties
  <2>2. Len(tab[s]) = Width
    BY DEF LayoutOK
  <2> QED
    BY <2>1, <2>2
<1>3. ASSUME NEW s \in Seqs, tab[s] # <<>>, NEW i \in 1 .. Width PROVE tab[s][i] \in 1 .. NumSlots
  <2>1. Len(tab[s]) = Width
    BY <1>3 DEF LayoutOK
  <2> QED
    BY <1>1, <2>1, ElementOfSeq
<1>4. ASSUME NEW s \in Seqs, NEW t \in Seqs, tab[s] # <<>>, tab[t] # <<>>,
             NEW i \in 1 .. Width, NEW j \in 1 .. Width, tab[s][i] = tab[t][j]
      PROVE  s = t /\ i = j
  <2>1. i \in DOMAIN tab[s] /\ j \in DOMAIN tab[t]
    BY <1>2, <1>4
  <2>2. s = t
    <3>1. tab[s][i] \in Range(tab[s]) /\ tab[s][i] \in Range(tab[t])
      BY <1>4, <2>1 DEF Range
    <3>2. s # t => Range(tab[s]) \cap Range(tab[t]) = {}
      BY DEF LayoutOK
    <3> QED
      BY <3>1, <3>2
  <2>3. IsInjective(tab[s])
    BY DEF LayoutOK
  <2> QED
    BY <1>4, <2>1, <2>2, <2>3 DEF IsInjective
<1> QED
  BY <1>3, <1>4

\* A running sequence has a first block.
LEMMA BaseIs ==
  ASSUME LayoutOK, NEW s \in Seqs, tab[s] # <<>>
  PROVE  Base(s) \in 1 .. NumSlots
<1>1. 1 \in 1 .. Width
  BY WidthIs
<1>2. \A i \in 1 .. Width : tab[s][i] \in 1 .. NumSlots
  BY BlocksAre
<1> QED
  BY <1>1, <1>2 DEF Base

\* Before drafts are verified the first block holds the last tokens.
LEMMA BaseHolds ==
  ASSUME IInv, NEW s \in Seqs, acc[s] = 0, len[s] > 0
  PROVE  conv[Base(s)] = Before(s, len[s]) /\ hid[Base(s)] = Tok(s, len[s] - 1)
<1>1. home[s] = 0 /\ home[s] # -1 /\ 0 + 1 = 1 /\ s \in Seqs \ lost
  BY DEF IInv, RollOK
<1> QED
  BY <1>1 DEF IInv, CacheOK, CacheFollows, Base, Before

\* A prompt that goes on reads the state of its last token; a new one reads zeros.
LEMMA CachedIs ==
  ASSUME IInv, NEW s \in Seqs, tab[s] # <<>>, acc[s] = 0
  PROVE  Cached(s)
<1>1. len[s] \in Nat /\ TP \in Nat
  BY CcaAssumption DEF IInv, ProgressOK
<1>2. CASE len[s] > 0
  BY <1>2, BaseHolds DEF Cached, InitState, InitHid
<1>3. CASE len[s] = 0
  <2>1. \A i \in Int : i < 0 => Tok(s, i) = Zero
    BY DEF Tok, Exact!Tok
  <2>2. Before(s, 0) = [c \in 1 .. TP |-> Tok(s, 0 - TP + c - 1)]
    BY BeforeIs
  <2>3. \A c \in 1 .. TP : Tok(s, 0 - TP + c - 1) = Zero
    BY <1>1, <2>1
  <2>4. Before(s, 0) = Zeros
    BY <2>2, <2>3 DEF Zeros
  <2>5. Tok(s, 0 - 1) = Zero
    BY <2>1
  <2> QED
    BY <1>3, <2>4, <2>5 DEF Cached, InitState, InitHid
<1> QED
  BY <1>1, <1>2, <1>3

-----------------------------------------------------------------------------
\* Writes to the caches.

\* No block is written twice with different values.
Consistent(w) == \A x, y \in w : x[1] = y[1] => x[2] = y[2]

\* What Put does to a block.
LEMMA PutIs ==
  ASSUME NEW f, NEW w, Consistent(w), NEW b \in DOMAIN f
  PROVE  /\ DOMAIN Put(f, w) = DOMAIN f
         /\ \A x \in w : x[1] = b => Put(f, w)[b] = x[2]
         /\ (\A x \in w : x[1] # b) => Put(f, w)[b] = f[b]
<1>1. Put(f, w)[b] = IF \E x \in w : x[1] = b THEN (CHOOSE x \in w : x[1] = b)[2] ELSE f[b]
  BY DEF Put
<1>2. DOMAIN Put(f, w) = DOMAIN f
  BY DEF Put
<1>3. ASSUME NEW x \in w, x[1] = b PROVE Put(f, w)[b] = x[2]
  <2> DEFINE y == CHOOSE y \in w : y[1] = b
  <2>1. y \in w /\ y[1] = b
    BY <1>3
  <2>2. Put(f, w)[b] = y[2]
    BY <1>1, <1>3
  <2> HIDE DEF y
  <2> QED
    BY <1>3, <2>1, <2>2 DEF Consistent
<1> QED
  BY <1>1, <1>2, <1>3

\* Writes to blocks of the cache keep its type.
LEMMA PutTyped ==
  ASSUME NEW D, NEW V, NEW f \in [D -> V], NEW w, Consistent(w), \A x \in w : x[2] \in V
  PROVE  Put(f, w) \in [D -> V]
<1>1. ASSUME NEW b \in D PROVE Put(f, w)[b] \in V
  <2>1. b \in DOMAIN f
    OBVIOUS
  <2>2. CASE \E x \in w : x[1] = b
    <3>1. PICK x \in w : x[1] = b
      BY <2>2
    <3>2. Put(f, w)[b] = x[2]
      BY <2>1, <3>1, PutIs
    <3> QED
      BY <3>2
  <2>3. CASE \A x \in w : x[1] # b
    <3>1. Put(f, w)[b] = f[b]
      BY <2>1, <2>3, PutIs
    <3> QED
      BY <3>1
  <2> QED
    BY <2>2, <2>3
<1>2. Put(f, w) = [b \in D |-> Put(f, w)[b]]
  BY DEF Put
<1> QED
  BY <1>1, <1>2

\* Tokens, histories and answers have their types.
LEMMA TokenTypes ==
  ASSUME NEW s \in Seqs
  PROVE  /\ Zero \in Token
         /\ \A i \in Int : i < 0 => Tok(s, i) = Zero
         /\ \A i \in Int : i < MaxLen => Tok(s, i) \in Token
         /\ \A i \in 0 .. MaxLen - 1 : Tok(s, i) = <<s, i, TRUE>> /\ Tok(s, i) # Zero /\ Draft(s, i) # Zero
                                       /\ Draft(s, i) \in Token
         /\ \A n \in Int : n <= MaxLen => Before(s, n) \in [1 .. TP -> Token]
         /\ Zeros \in [1 .. TP -> Token]
<1>1. TP \in Nat /\ MaxLen \in Nat /\ Zero \notin (Seqs \cup {Pad}) \X Int \X BOOLEAN
  BY CcaAssumption
<1>2. Zero \in Token /\ Zeros \in [1 .. TP -> Token]
  BY DEF Token, Zeros
<1>3. \A i \in Int : i < 0 => Tok(s, i) = Zero
  BY DEF Tok, Exact!Tok
<1>4. ASSUME NEW i \in 0 .. MaxLen - 1
      PROVE  /\ Tok(s, i) = <<s, i, TRUE>> /\ Tok(s, i) # Zero /\ Draft(s, i) # Zero
             /\ Draft(s, i) \in Token /\ Tok(s, i) \in Token
  <2>1. i \in Int /\ ~(i < 0)
    BY <1>1
  <2>2. Tok(s, i) = <<s, i, TRUE>> /\ Draft(s, i) = <<s, i, FALSE>>
    BY <2>1 DEF Tok, Exact!Tok, Draft
  <2>3. /\ <<s, i, TRUE>> \in (Seqs \cup {Pad}) \X Int \X BOOLEAN
        /\ <<s, i, FALSE>> \in (Seqs \cup {Pad}) \X Int \X BOOLEAN
    BY <2>1
  <2>4. Draft(s, i) \in Token /\ Tok(s, i) \in Token
    BY DEF Token
  <2> QED
    BY <1>1, <2>2, <2>3, <2>4
<1>5. ASSUME NEW i \in Int, i < MaxLen PROVE Tok(s, i) \in Token
  <2>1. CASE i < 0
    BY <1>2, <1>3, <2>1
  <2>2. CASE ~(i < 0)
    <3>1. i \in 0 .. MaxLen - 1
      BY <1>1, <1>5, <2>2
    <3> QED
      BY <1>4, <3>1
  <2> QED
    BY <2>1, <2>2
<1>6. ASSUME NEW n \in Int, n <= MaxLen PROVE Before(s, n) \in [1 .. TP -> Token]
  <2>1. Before(s, n) = [c \in 1 .. TP |-> Tok(s, n - TP + c - 1)]
    BY BeforeIs
  <2>2. \A c \in 1 .. TP : n - TP + c - 1 \in Int /\ n - TP + c - 1 < MaxLen
    BY <1>1, <1>6
  <2>3. \A c \in 1 .. TP : Tok(s, n - TP + c - 1) \in Token
    BY <1>5, <2>2
  <2> QED
    BY <2>1, <2>3
<1> QED
  BY <1>2, <1>3, <1>4, <1>5, <1>6

\* The answer to padding.
PadRow == [tok |-> Zero, win |-> [c \in 1 .. TP + 1 |-> Zero], hs2 |-> Zero]

\* An answer is the token, its window and the token before it, all typed, and the token
\* is an accepted one.
LEMMA AnswerIs ==
  ASSUME NEW s \in Seqs, NEW i \in 0 .. MaxLen - 1
  PROVE  /\ Exact!Answer(s, i) = [tok |-> Tok(s, i), win |-> Win(s, i), hs2 |-> Tok(s, i - 1)]
         /\ RowOK(Exact!Answer(s, i))
         /\ Exact!Answer(s, i).tok # Zero /\ Exact!Answer(s, i).tok[3] /\ Exact!Answer(s, i).tok[1] = s
<1>1. TP \in Nat /\ MaxLen \in Nat /\ i \in Int /\ i - 1 \in Int /\ i - 1 < MaxLen /\ i < MaxLen
  BY CcaAssumption
<1>2. Exact!Answer(s, i) = [tok |-> Tok(s, i), win |-> Win(s, i), hs2 |-> Tok(s, i - 1)]
  BY DEF Exact!Answer, Tok, Win, Before
<1>3. /\ Tok(s, i) = <<s, i, TRUE>> /\ Tok(s, i) # Zero
      /\ \A k \in Int : k < MaxLen => Tok(s, k) \in Token
  BY TokenTypes
<1>4. Win(s, i) = [c \in 1 .. TP + 1 |-> Tok(s, i - TP + c - 1)]
  BY <1>1, BeforeIs
<1>5. \A c \in 1 .. TP + 1 : i - TP + c - 1 \in Int /\ i - TP + c - 1 < MaxLen
  BY <1>1
<1>6. Win(s, i) \in [1 .. TP + 1 -> Token]
  BY <1>3, <1>4, <1>5
<1> DEFINE a == Exact!Answer(s, i)
<1>7. a.tok = Tok(s, i) /\ a.win = Win(s, i) /\ a.hs2 = Tok(s, i - 1)
  BY <1>2
<1>8. Tok(s, i) \in Token /\ Tok(s, i - 1) \in Token
  BY <1>1, <1>3
<1>9. <<s, i, TRUE>>[3] /\ <<s, i, TRUE>>[1] = s
  OBVIOUS
<1> HIDE DEF a
<1>10. RowOK(a)
  BY <1>3, <1>6, <1>7, <1>8 DEF RowOK
<1>11. a.tok # Zero /\ a.tok[3] /\ a.tok[1] = s
  BY <1>3, <1>7, <1>9
<1> QED
  BY <1>2, <1>10, <1>11 DEF a

\* A padding row is zeros.
LEMMA PadIs == RowOK(PadRow) /\ PadRow.tok = Zero
<1>1. Zero \in Token
  BY DEF Token
<1> QED
  BY <1>1 DEF RowOK, PadRow

-----------------------------------------------------------------------------
\* The prefill region of a pass.

\* Chunks that the engine may run.
MayRun(pre) ==
  /\ IsChunks(pre)
  /\ \A i \in 1 .. Len(pre) : /\ tab[pre[i].seq] # <<>> /\ len[pre[i].seq] + pre[i].n <= MaxLen
                              /\ acc[pre[i].seq] = 0

\* After the prefill region: the column-0 blocks of its sequences have moved on, no other has.
HidPut(pre) == {<<Base(pre[i].seq), Tok(pre[i].seq, len[pre[i].seq] + pre[i].n - 1)>> : i \in 1 .. Len(pre)}
\* What the prefill region leaves in the caches.
Staged(c1, h1, pre) ==
  /\ c1 \in [0 .. NumSlots -> [1 .. TP -> Token]] /\ h1 \in [0 .. NumSlots -> Token]
  /\ \A i \in 1 .. Len(pre) :
       /\ c1[Base(pre[i].seq)] = Before(pre[i].seq, len[pre[i].seq] + pre[i].n)
       /\ h1[Base(pre[i].seq)] = Tok(pre[i].seq, len[pre[i].seq] + pre[i].n - 1)
  /\ \A b \in 0 .. NumSlots : (\A i \in 1 .. Len(pre) : b # Base(pre[i].seq)) => c1[b] = conv[b] /\ h1[b] = hid[b]

\* The writes of the prefill do that: no two chunks share a block.
LEMMA FirstStage ==
  ASSUME IInv, NEW pre, MayRun(pre), NEW p, IsFilled(p, pre)
  PROVE  Staged(Put(conv, p.put), Put(hid, HidPut(pre)), pre)
<1> DEFINE m == Len(pre)
           s(i) == pre[i].seq
           l(i) == len[pre[i].seq] + pre[i].n
           k(i) == len[pre[i].seq] + pre[i].n - 1
           w == p.put
           v == HidPut(pre)
<1>1. /\ m \in Nat
      /\ \A i \in 1 .. m : /\ s(i) \in Seqs /\ tab[s(i)] # <<>> /\ l(i) \in Int /\ l(i) <= MaxLen /\ k(i) < MaxLen
                           /\ k(i) \in Int
  <2>1. m \in Nat /\ \A i \in 1 .. m : pre[i].seq \in Seqs /\ pre[i].n \in Nat /\ pre[i].n >= 1
    BY ChunkTypes DEF MayRun
  <2>2. \A i \in 1 .. m : len[pre[i].seq] \in Nat
    BY <2>1, CcaAssumption DEF IInv, ProgressOK
  <2>3. MaxLen \in Nat
    BY CcaAssumption
  <2>4. \A i \in 1 .. m : l(i) \in Int /\ k(i) \in Int /\ k(i) = l(i) - 1
    BY <2>1, <2>2
  <2>5. \A i \in 1 .. m : tab[s(i)] # <<>> /\ l(i) <= MaxLen
    BY DEF MayRun
  <2> HIDE DEF l, k
  <2>6. \A i \in 1 .. m : k(i) < MaxLen
    BY <2>3, <2>4, <2>5
  <2> QED
    BY <2>1, <2>4, <2>5, <2>6
<1>2. /\ \A x \in w : \E i \in 1 .. m : x = <<Base(s(i)), Before(s(i), l(i))>>
      /\ \A x \in v : \E i \in 1 .. m : x = <<Base(s(i)), Tok(s(i), k(i))>>
      /\ \A i \in 1 .. m : <<Base(s(i)), Before(s(i), l(i))>> \in w
      /\ \A i \in 1 .. m : <<Base(s(i)), Tok(s(i), k(i))>> \in v
  <2>1. w = {<<Base(pre[i].seq), Before(pre[i].seq, len[pre[i].seq] + pre[i].n)>> : i \in 1 .. m}
    BY DEF IsFilled
  <2>2. v = {<<Base(pre[i].seq), Tok(pre[i].seq, len[pre[i].seq] + pre[i].n - 1)>> : i \in 1 .. m}
    BY DEF HidPut
  <2> HIDE DEF m, w, v
  <2>3. \A x \in w : \E i \in 1 .. m : x = <<Base(s(i)), Before(s(i), l(i))>>
    BY <2>1
  <2>4. \A x \in v : \E i \in 1 .. m : x = <<Base(s(i)), Tok(s(i), k(i))>>
    BY <2>2
  <2>5. \A i \in 1 .. m : <<Base(s(i)), Before(s(i), l(i))>> \in w
    BY <2>1
  <2>6. \A i \in 1 .. m : <<Base(s(i)), Tok(s(i), k(i))>> \in v
    BY <2>2
  <2> QED
    BY <2>3, <2>4, <2>5, <2>6
<1> HIDE DEF w, v
<1>3. ASSUME NEW i \in 1 .. m, NEW j \in 1 .. m, Base(s(i)) = Base(s(j)) PROVE i = j
  <2>1. s(i) = s(j)
    <3>1. LayoutOK /\ 1 \in 1 .. Width
      BY WidthIs DEF IInv
    <3>2. \A x, y \in Seqs : tab[x] # <<>> /\ tab[y] # <<>> =>
              \A a, b \in 1 .. Width : tab[x][a] = tab[y][b] => x = y /\ a = b
      BY <3>1, BlocksAre
    <3> QED
      BY <1>1, <1>3, <3>1, <3>2 DEF Base
  <2> QED
    BY <2>1 DEF MayRun, IsChunks
<1>4. \A i \in 1 .. m : Base(s(i)) \in 0 .. NumSlots
  <2> SUFFICES ASSUME NEW i \in 1 .. m PROVE Base(s(i)) \in 0 .. NumSlots
    OBVIOUS
  <2>1. s(i) \in Seqs /\ tab[s(i)] # <<>> /\ LayoutOK /\ ProgressOK
    BY <1>1 DEF IInv
  <2> HIDE DEF s
  <2>2. Base(s(i)) \in 1 .. NumSlots
    BY <2>1, BaseIs
  <2>3. NumSlots \in Nat
    BY CcaAssumption
  <2> QED
    BY <2>2, <2>3
<1> HIDE DEF m, s, l, k
<1>5. Consistent(w) /\ Consistent(v)
  BY <1>2, <1>3 DEF Consistent
<1>60. \A i \in 1 .. m : Before(s(i), l(i)) \in [1 .. TP -> Token] /\ Tok(s(i), k(i)) \in Token
  BY <1>1, TokenTypes
<1>6. \A x \in w : x[2] \in [1 .. TP -> Token]
  BY <1>2, <1>60
<1>7. \A x \in v : x[2] \in Token
  BY <1>2, <1>60
<1>9. \A b : (\A i \in 1 .. m : b # Base(s(i))) => (\A x \in w : x[1] # b) /\ (\A x \in v : x[1] # b)
  BY <1>2
<1>10. conv \in [0 .. NumSlots -> [1 .. TP -> Token]] /\ hid \in [0 .. NumSlots -> Token]
  BY DEF IInv, CacheOK
<1>11. Put(conv, w) \in [0 .. NumSlots -> [1 .. TP -> Token]] /\ Put(hid, v) \in [0 .. NumSlots -> Token]
  <2>1. Put(conv, w) \in [0 .. NumSlots -> [1 .. TP -> Token]]
    BY <1>5, <1>6, <1>10, PutTyped
  <2>2. Put(hid, v) \in [0 .. NumSlots -> Token]
    BY <1>5, <1>7, <1>10, PutTyped
  <2> QED
    BY <2>1, <2>2
<1>12. \A b \in 0 .. NumSlots :
         /\ \A x \in w : x[1] = b => Put(conv, w)[b] = x[2]
         /\ (\A x \in w : x[1] # b) => Put(conv, w)[b] = conv[b]
         /\ \A x \in v : x[1] = b => Put(hid, v)[b] = x[2]
         /\ (\A x \in v : x[1] # b) => Put(hid, v)[b] = hid[b]
  <2> SUFFICES ASSUME NEW b \in 0 .. NumSlots
               PROVE  /\ \A x \in w : x[1] = b => Put(conv, w)[b] = x[2]
                      /\ (\A x \in w : x[1] # b) => Put(conv, w)[b] = conv[b]
                      /\ \A x \in v : x[1] = b => Put(hid, v)[b] = x[2]
                      /\ (\A x \in v : x[1] # b) => Put(hid, v)[b] = hid[b]
    OBVIOUS
  <2>1. b \in DOMAIN conv /\ b \in DOMAIN hid
    BY <1>10
  <2> QED
    BY <1>5, <2>1, PutIs
<1>13. \A i \in 1 .. m : /\ Put(conv, w)[Base(s(i))] = Before(s(i), l(i))
                         /\ Put(hid, v)[Base(s(i))] = Tok(s(i), k(i))
  <2> SUFFICES ASSUME NEW i \in 1 .. m
               PROVE  /\ Put(conv, w)[Base(s(i))] = Before(s(i), l(i))
                      /\ Put(hid, v)[Base(s(i))] = Tok(s(i), k(i))
    OBVIOUS
  <2> DEFINE x == <<Base(s(i)), Before(s(i), l(i))>>
             y == <<Base(s(i)), Tok(s(i), k(i))>>
  <2>1. x \in w /\ y \in v /\ x[1] = Base(s(i)) /\ y[1] = Base(s(i))
        /\ x[2] = Before(s(i), l(i)) /\ y[2] = Tok(s(i), k(i)) /\ Base(s(i)) \in 0 .. NumSlots
    BY <1>2, <1>4
  <2> DEFINE b == Base(s(i))
  <2> HIDE DEF x, y, b
  <2>2. b \in 0 .. NumSlots /\ x[1] = b /\ y[1] = b
    BY <2>1 DEF b
  <2>3. Put(conv, w)[b] = x[2] /\ Put(hid, v)[b] = y[2]
    BY <1>12, <2>1, <2>2
  <2> QED
    BY <2>1, <2>3 DEF b
<1>14. \A b \in 0 .. NumSlots : (\A i \in 1 .. m : b # Base(s(i))) =>
         Put(conv, w)[b] = conv[b] /\ Put(hid, v)[b] = hid[b]
  BY <1>9, <1>12
<1>15. Staged(Put(conv, w), Put(hid, v), pre)
  BY <1>11, <1>13, <1>14 DEF m, s, l, k, Staged
<1> QED
  BY <1>15 DEF w, v

\* How many tokens of the prefill region belong to a sequence.
PrefillCount(pre, s) == Cardinality({t \in DOMAIN Toks(pre) : Toks(pre)[t][1] = s})

\* A chunk counts for its sequence in full, and for no other.
LEMMA CountIs ==
  ASSUME NEW pre, IsChunks(pre), len \in [Seqs -> Nat], NEW s \in Seqs
  PROVE  /\ \A i \in 1 .. Len(pre) : pre[i].seq = s => PrefillCount(pre, s) = pre[i].n
         /\ (\A i \in 1 .. Len(pre) : pre[i].seq # s) => PrefillCount(pre, s) = 0
<1> DEFINE m == Len(pre)
           A == {t \in DOMAIN Toks(pre) : Toks(pre)[t][1] = s}
<1>1. /\ m \in Nat
      /\ \A i \in 1 .. m : pre[i].seq \in Seqs /\ pre[i].n \in Nat /\ pre[i].n >= 1 /\ len[pre[i].seq] \in Nat
  BY ChunkTypes
<1>2. /\ \A i \in 1 .. m : QStart(pre, i) \in Nat
      /\ \A i \in 1 .. m : \A j \in 1 .. pre[i].n : At(pre, i, j) \in 1 .. Total(pre)
      /\ \A t \in 1 .. Total(pre) : \E i \in 1 .. m : \E j \in 1 .. pre[i].n : t = At(pre, i, j)
  BY QStartIs, ChunkTypes DEF At, Total
<1>3. /\ DOMAIN Toks(pre) = 1 .. Total(pre)
      /\ \A i \in 1 .. m : \A j \in 1 .. pre[i].n : Toks(pre)[At(pre, i, j)] = Tok(pre[i].seq, len[pre[i].seq] + j - 1)
  BY ToksIs
<1>4. \A i \in 1 .. m : \A j \in 1 .. pre[i].n : Toks(pre)[At(pre, i, j)][1] = pre[i].seq
  <2> SUFFICES ASSUME NEW i \in 1 .. m, NEW j \in 1 .. pre[i].n PROVE Toks(pre)[At(pre, i, j)][1] = pre[i].seq
    OBVIOUS
  <2>1. len[pre[i].seq] + j - 1 \in Int /\ ~(len[pre[i].seq] + j - 1 < 0)
    BY <1>1
  <2>2. Tok(pre[i].seq, len[pre[i].seq] + j - 1) = <<pre[i].seq, len[pre[i].seq] + j - 1, TRUE>>
    BY <2>1 DEF Tok, Exact!Tok
  <2> QED
    BY <1>3, <2>2
<1>5. PrefillCount(pre, s) = Cardinality(A)
  BY DEF PrefillCount
<1>6. ASSUME NEW i \in 1 .. m, pre[i].seq = s PROVE PrefillCount(pre, s) = pre[i].n
  <2> DEFINE q == QStart(pre, i)
             n == pre[i].n
  <2>1. q \in Nat /\ n \in Nat /\ n >= 1
    BY <1>1, <1>2
  <2>2. ASSUME NEW t \in A PROVE t \in q + 1 .. q + n
    <3>1. PICK k \in 1 .. m : \E j \in 1 .. pre[k].n : t = At(pre, k, j)
      BY <1>2, <1>3
    <3>2. PICK j \in 1 .. pre[k].n : t = At(pre, k, j)
      BY <3>1
    <3>3. pre[k].seq = s
      BY <1>4, <3>2
    <3>4. k = i
      BY <1>6, <3>3 DEF IsChunks
    <3>5. t = q + j /\ j \in 1 .. n
      BY <3>2, <3>4 DEF At
    <3> HIDE DEF q, n
    <3> QED
      BY <2>1, <3>5
  <2>3. ASSUME NEW t \in q + 1 .. q + n PROVE t \in A
    <3>1. t - q \in 1 .. n /\ t = q + (t - q)
      <4> HIDE DEF q, n
      <4> QED
        BY <2>1
    <3>2. t = At(pre, i, t - q)
      BY <3>1 DEF At
    <3>3. t \in 1 .. Total(pre)
      BY <1>2, <3>1, <3>2
    <3> QED
      BY <1>3, <1>4, <1>6, <3>1, <3>2, <3>3
  <2>4. A = q + 1 .. q + n
    <3> HIDE DEF A, q, n
    <3>1. \A t : t \in A <=> t \in q + 1 .. q + n
      BY <2>2, <2>3
    <3> QED
      BY <3>1
  <2> HIDE DEF A, q
  <2>5. Cardinality(q + 1 .. q + n) = IF q + 1 > q + n THEN 0 ELSE (q + n) - (q + 1) + 1
    <3>1. q + 1 \in Int /\ q + n \in Int
      BY <2>1
    <3> HIDE DEF n
    <3> QED
      BY <3>1, FS_Interval
  <2>6. Cardinality(A) = n
    <3> HIDE DEF n
    <3> QED
      BY <2>1, <2>4, <2>5
  <2> QED
    BY <1>5, <2>6
<1>7. ASSUME \A i \in 1 .. m : pre[i].seq # s PROVE PrefillCount(pre, s) = 0
  <2>1. ASSUME NEW t \in A PROVE FALSE
    <3>1. PICK k \in 1 .. m : \E j \in 1 .. pre[k].n : t = At(pre, k, j)
      BY <1>2, <1>3
    <3>2. PICK j \in 1 .. pre[k].n : t = At(pre, k, j)
      BY <3>1
    <3> QED
      BY <1>4, <1>7, <3>2
  <2>2. A = {}
    <3> HIDE DEF A
    <3> QED
      BY <2>1
  <2> HIDE DEF A
  <2> QED
    BY <1>5, <2>2, FS_EmptySet
<1> QED
  BY <1>6, <1>7

-----------------------------------------------------------------------------
\* Batches and their rows.

\* A batch has different sequences, and its chunks may run.
LEMMA OrderIs ==
  ASSUME NEW q \in Orders
  PROVE  /\ q \in Seq(Seqs) /\ Len(q) \in Nat /\ DOMAIN q = 1 .. Len(q)
         /\ \A i \in 1 .. Len(q) : q[i] \in Seqs
         /\ \A i, j \in 1 .. Len(q) : q[i] = q[j] => i = j
<1>1. Cardinality(Seqs) \in Nat
  BY CcaAssumption, FS_CardinalityType
<1>2. PICK n \in 1 .. Cardinality(Seqs) : q \in [1 .. n -> Seqs]
  BY DEF Orders
<1>3. n \in Nat
  BY <1>1
<1>4. q \in Seq(Seqs) /\ DOMAIN q = 1 .. n /\ Len(q) = n
  BY <1>2, <1>3
<1>5. IsInjective(q)
  BY DEF Orders
<1> QED
  BY <1>2, <1>3, <1>4, <1>5 DEF IsInjective

\* The part of a batch behind its decodes.
LEMMA RestIs ==
  ASSUME NEW q \in Orders, NEW nd \in 0 .. Len(q)
  PROVE  LET u == SubSeq(q, nd + 1, Len(q)) IN
         /\ DOMAIN u = 1 .. Len(q) - nd
         /\ \A i \in 1 .. Len(q) - nd : u[i] = q[nd + i] /\ nd + i \in 1 .. Len(q)
<1> DEFINE u == SubSeq(q, nd + 1, Len(q))
           n == Len(q)
<1>1. q \in Seq(Seqs) /\ n \in Nat /\ DOMAIN q = 1 .. n /\ \A i \in 1 .. n : q[i] \in Seqs
  BY OrderIs
<1>2. nd \in Nat /\ nd <= n /\ nd + 1 \in Int /\ \A i \in nd + 1 .. n : i \in 1 .. n
  BY <1>1
<1>3. /\ u \in Seq(Seqs) /\ Len(u) = IF nd + 1 <= n THEN n - (nd + 1) + 1 ELSE 0
      /\ \A i \in 1 .. n - (nd + 1) + 1 : u[i] = q[(nd + 1) + i - 1]
  <2>1. \A i \in nd + 1 .. n : q[i] \in Seqs
    BY <1>1, <1>2
  <2> HIDE DEF n
  <2> QED
    BY <1>1, <1>2, <2>1, SubSeqProperties DEF n
<1>4. Len(u) = n - nd
  <2> HIDE DEF n, u
  <2> QED
    BY <1>1, <1>2, <1>3
<1>5. DOMAIN u = 1 .. n - nd
  <2>1. DOMAIN u = 1 .. Len(u)
    BY <1>3, LenProperties
  <2> QED
    BY <1>4, <2>1
<1>6. ASSUME NEW i \in 1 .. n - nd PROVE u[i] = q[nd + i] /\ nd + i \in 1 .. n
  <2> HIDE DEF n, u
  <2>1. i \in 1 .. n - (nd + 1) + 1 /\ (nd + 1) + i - 1 = nd + i /\ nd + i \in 1 .. n
    BY <1>1, <1>2
  <2> QED
    BY <1>3, <2>1
<1> QED
  BY <1>5, <1>6

\* The engine prefills what may be prefilled, and nothing that it decodes.
LEMMA ChunksMayRun ==
  ASSUME LayoutOK, NEW q \in Orders, NEW nd \in 0 .. Len(q), NEW pre \in Prefills(SubSeq(q, nd + 1, Len(q)))
  PROVE  /\ MayRun(pre) /\ Len(pre) = Len(q) - nd
         /\ \A i \in 1 .. nd : \A k \in 1 .. Len(pre) : q[i] # pre[k].seq
<1> DEFINE u == SubSeq(q, nd + 1, Len(q))
           m == Len(q) - nd
<1>1. /\ DOMAIN u = 1 .. m
      /\ \A i \in 1 .. m : u[i] = q[nd + i] /\ nd + i \in 1 .. Len(q)
  BY RestIs
<1>2. /\ Len(q) \in Nat /\ \A i \in 1 .. Len(q) : q[i] \in Seqs
      /\ \A i, j \in 1 .. Len(q) : q[i] = q[j] => i = j
  BY OrderIs
<1> HIDE DEF u, m
<1>3. /\ pre \in [1 .. m -> [seq : Range(u), n : 1 .. MaxChunk]]
      /\ \A i \in 1 .. m : pre[i].seq = u[i] /\ Fits(u[i], pre[i].n) /\ acc[u[i]] = 0
  BY <1>1 DEF Prefills, u
<1>4. m \in Nat
  BY <1>2 DEF m
<1>5. MaxChunk \in Nat
  BY CcaAssumption
<1>6. \A i \in 1 .. m : /\ pre[i].seq = q[nd + i] /\ nd + i \in 1 .. Len(q) /\ pre[i].seq \in Seqs
                        /\ pre[i].n \in Nat \ {0} /\ pre[i] \in [seq : Seqs, n : Nat \ {0}]
  <2> SUFFICES ASSUME NEW i \in 1 .. m
               PROVE  /\ pre[i].seq = q[nd + i] /\ nd + i \in 1 .. Len(q) /\ pre[i].seq \in Seqs
                      /\ pre[i].n \in Nat \ {0} /\ pre[i] \in [seq : Seqs, n : Nat \ {0}]
    OBVIOUS
  <2>1. pre[i] \in [seq : Range(u), n : 1 .. MaxChunk]
    BY <1>3
  <2>2. pre[i].n \in 1 .. MaxChunk /\ pre[i] = [seq |-> pre[i].seq, n |-> pre[i].n]
    BY <2>1
  <2>3. pre[i].seq = q[nd + i] /\ nd + i \in 1 .. Len(q)
    BY <1>1, <1>3
  <2>4. pre[i].seq \in Seqs
    BY <1>2, <2>3
  <2>5. pre[i].n \in Nat \ {0}
    BY <1>5, <2>2
  <2> QED
    BY <2>2, <2>3, <2>4, <2>5
<1>7. pre \in Seq([seq : Seqs, n : Nat \ {0}]) /\ Len(pre) = m
  <2>1. pre = [i \in 1 .. m |-> pre[i]]
    BY <1>3
  <2>2. \A i \in 1 .. m : pre[i] \in [seq : Seqs, n : Nat \ {0}]
    BY <1>6
  <2> DEFINE X == [seq : Seqs, n : Nat \ {0}]
  <2>3. pre \in [1 .. m -> X]
    BY <2>1, <2>2
  <2> HIDE DEF X
  <2>4. pre \in Seq(X) /\ Len(pre) = m
    BY <1>4, <2>3
  <2> QED
    BY <2>4 DEF X
<1>8. ASSUME NEW i \in 1 .. m, NEW k \in 1 .. m, pre[i].seq = pre[k].seq PROVE i = k
  <2>1. nd + i = nd + k
    BY <1>2, <1>6, <1>8
  <2>2. nd \in Int
    BY <1>2
  <2> QED
    BY <1>4, <2>1, <2>2
<1>9. \A i \in 1 .. m : /\ tab[pre[i].seq] # <<>> /\ len[pre[i].seq] + pre[i].n <= MaxLen
                        /\ acc[pre[i].seq] = 0
  BY <1>3 DEF Fits
<1>10. MayRun(pre)
  BY <1>7, <1>8, <1>9 DEF MayRun, IsChunks
<1>11. ASSUME NEW i \in 1 .. nd, NEW k \in 1 .. m PROVE q[i] # pre[k].seq
  <2>1. nd \in Nat /\ nd <= Len(q)
    BY <1>2
  <2>2. i \in 1 .. Len(q) /\ nd + k \in 1 .. Len(q) /\ i # nd + k
    <3>1. PICK n \in Nat : n = Len(q)
      BY <1>2
    <3>2. i \in 1 .. n /\ i # nd + k
      BY <1>4, <2>1, <3>1
    <3> QED
      BY <1>6, <3>1, <3>2
  <2> QED
    BY <1>2, <1>6, <2>2
<1> QED
  BY <1>7, <1>10, <1>11 DEF m

\* Rows of two regions.
IsConcat(f, D, a, E, b) ==
  /\ \A r \in DOMAIN f : (\E i \in 1 .. a : f[r] = D[i]) \/ (\E i \in 1 .. b : f[r] = E[i])
  /\ \A i \in 1 .. a : \E r \in DOMAIN f : f[r] = D[i]
  /\ \A i \in 1 .. b : \E r \in DOMAIN f : f[r] = E[i]

\* The rows of a concatenation are those of its regions.
LEMMA ConcatRows ==
  ASSUME NEW a \in Nat, NEW b \in Nat, NEW D, NEW E, D = [i \in 1 .. a |-> D[i]], E = [i \in 1 .. b |-> E[i]]
  PROVE  IsConcat(D \o E, D, a, E, b)
<1> DEFINE S == {D[i] : i \in 1 .. a} \cup {E[i] : i \in 1 .. b}
           f == D \o E
<1>1. (\A i \in 1 .. a : D[i] \in S) /\ (\A i \in 1 .. b : E[i] \in S)
  OBVIOUS
<1> HIDE DEF S
<1>2. D \in Seq(S) /\ E \in Seq(S) /\ Len(D) = a /\ Len(E) = b
  <2>1. ASSUME NEW z, NEW x \in Nat, z = [i \in 1 .. x |-> z[i]], \A i \in 1 .. x : z[i] \in S
        PROVE  z \in Seq(S) /\ Len(z) = x
    <3>1. z \in [1 .. x -> S]
      BY <2>1
    <3>2. [1 .. x -> S] \subseteq Seq(S)
      OBVIOUS
    <3>3. DOMAIN z = 1 .. x /\ z \in Seq(S)
      BY <3>1, <3>2
    <3> QED
      BY <3>3, LenProperties
  <2> QED
    BY <1>1, <2>1
<1>3. /\ f \in Seq(S) /\ Len(f) = a + b
      /\ \A i \in 1 .. a + b : f[i] = IF i <= a THEN D[i] ELSE E[i - a]
  <2>1. /\ f \in Seq(S) /\ Len(f) = Len(D) + Len(E)
        /\ \A i \in 1 .. Len(D) + Len(E) : f[i] = IF i <= Len(D) THEN D[i] ELSE E[i - Len(D)]
    BY <1>2, ConcatProperties
  <2> QED
    BY <1>2, <2>1
<1>4. DOMAIN f = 1 .. a + b
  BY <1>3, LenProperties
<1> HIDE DEF f
<1>5. ASSUME NEW r \in DOMAIN f
      PROVE  (\E i \in 1 .. a : f[r] = D[i]) \/ (\E i \in 1 .. b : f[r] = E[i])
  <2>1. CASE r <= a
    <3>1. r \in 1 .. a + b
      BY <1>4
    <3>2. r \in 1 .. a
      BY <2>1, <3>1
    <3>3. f[r] = D[r]
      BY <1>3, <2>1, <3>1
    <3> QED
      BY <3>2, <3>3
  <2>2. CASE ~(r <= a)
    <3>1. r - a \in 1 .. b
      BY <1>4, <2>2
    <3>2. f[r] = E[r - a]
      BY <1>3, <1>4, <2>2
    <3> QED
      BY <3>1, <3>2
  <2> QED
    BY <2>1, <2>2
<1>6. ASSUME NEW i \in 1 .. a PROVE \E r \in DOMAIN f : f[r] = D[i]
  <2>1. i \in 1 .. a + b /\ i <= a
    OBVIOUS
  <2> QED
    BY <1>3, <1>4, <2>1
<1>7. ASSUME NEW i \in 1 .. b PROVE \E r \in DOMAIN f : f[r] = E[i]
  <2>1. a + i \in 1 .. a + b /\ ~(a + i <= a) /\ (a + i) - a = i
    OBVIOUS
  <2>2. f[a + i] = E[i]
    BY <1>3, <2>1
  <2> QED
    BY <1>4, <2>1, <2>2
<1>8. IsConcat(f, D, a, E, b)
  BY <1>5, <1>6, <1>7 DEF IsConcat
<1> QED
  BY <1>8 DEF f

\* What each pass does to the promise: sequences advance, the rows answer what they advance by.
RowsSound ==
  \A r \in DOMAIN out' :
    \/ out'[r] = PadRow
    \/ RowOK(out'[r]) /\ out'[r].tok # Zero /\ (out'[r].tok[3] => out'[r].tok[1] \in lost')
    \/ \E s \in Seqs : \E i \in len[s] .. len'[s] - 1 : out'[r] = Exact!Answer(s, i)
\* Every token a sequence advances by is answered, unless the sequence is lost,
RowsComplete ==
  \A s \in Seqs \ lost' : \A i \in len[s] .. len'[s] - 1 : \E r \in DOMAIN out' : out'[r] = Exact!Answer(s, i)
\* and no sequence goes back.
Advances ==
  /\ len' \in [Seqs -> 0 .. MaxLen] /\ \A s \in Seqs : len'[s] >= len[s]
  /\ \A s \in Seqs : len'[s] > 0 => tab[s] # <<>>
  /\ lost \subseteq lost'

\* So the accepted rows are those of a pass of CausalConv.
LEMMA RowsAnswer ==
  ASSUME ProgressOK, Advances, RowsSound, RowsComplete
  PROVE  RowsOK' /\ Exact!Pass
<1>1. MaxLen \in Nat
  BY CcaAssumption
<1>2. \A s \in Seqs : \A i \in len[s] .. len'[s] - 1 : i \in 0 .. MaxLen - 1
  <2> SUFFICES ASSUME NEW s \in Seqs, NEW i \in len[s] .. len'[s] - 1 PROVE i \in 0 .. MaxLen - 1
    OBVIOUS
  <2>1. len[s] \in 0 .. MaxLen /\ len'[s] \in 0 .. MaxLen
    BY DEF ProgressOK, Advances
  <2> QED
    BY <1>1, <2>1
<1>3. ASSUME NEW s \in Seqs, NEW i \in len[s] .. len'[s] - 1
      PROVE  /\ RowOK(Exact!Answer(s, i)) /\ Exact!Answer(s, i).tok # Zero /\ Exact!Answer(s, i).tok[3] /\ Exact!Answer(s, i).tok[1] = s
  BY <1>2, AnswerIs
<1>4. ASSUME NEW r \in DOMAIN out' PROVE RowOK(out'[r])
  BY <1>3, PadIs DEF RowsSound
<1>5. RowsOK'
  BY <1>4 DEF RowsOK
<1> DEFINE A == {r \in DOMAIN out' : out'[r].tok # Zero /\ out'[r].tok[3] /\ out'[r].tok[1] \notin lost'}
           F(s) == Followed[s] .. Followed'[s] - 1
           R == UNION {{Exact!Answer(s, i) : i \in F(s)} : s \in Seqs}
<1>0. /\ \A s \in Seqs : s \in lost' => F(s) = {} /\ Followed'[s] = 0
      /\ \A s \in Seqs : s \notin lost' => F(s) = len[s] .. len'[s] - 1 /\ Followed'[s] = len'[s] /\ Followed[s] = len[s]
  <2> SUFFICES ASSUME NEW s \in Seqs
               PROVE  /\ s \in lost' => F(s) = {} /\ Followed'[s] = 0
                      /\ s \notin lost' => /\ F(s) = len[s] .. len'[s] - 1
                                          /\ Followed'[s] = len'[s] /\ Followed[s] = len[s]
    OBVIOUS
  <2>1. Followed[s] \in Nat /\ Followed'[s] = IF s \in lost' THEN 0 ELSE len'[s]
    BY <1>1 DEF Followed, ProgressOK
  <2>2. s \notin lost' => Followed[s] = len[s]
    BY DEF Followed, Advances
  <2>3. \A n \in Nat : n .. 0 - 1 = {}
    OBVIOUS
  <2> QED
    BY <2>1, <2>2, <2>3
<1>6. ASSUME NEW r \in A PROVE out'[r] \in R
  <2>1. PICK s \in Seqs : \E i \in len[s] .. len'[s] - 1 : out'[r] = Exact!Answer(s, i)
    BY PadIs DEF RowsSound
  <2>2. PICK i \in len[s] .. len'[s] - 1 : out'[r] = Exact!Answer(s, i)
    BY <2>1
  <2>3. Exact!Answer(s, i).tok[1] = s
    <3> HIDE DEF R, F, A
    <3> QED
      BY <1>3, <2>2
  <2>4. s \notin lost'
    BY <2>2, <2>3
  <2>5. i \in F(s)
    BY <1>0, <2>4
  <2> HIDE DEF F
  <2> QED
    BY <2>2, <2>5
<1>7. ASSUME NEW x \in R PROVE \E r \in A : out'[r] = x
  <2>1. PICK s \in Seqs : x \in {Exact!Answer(s, i) : i \in F(s)}
    BY <1>7
  <2>2. PICK i \in F(s) : x = Exact!Answer(s, i)
    BY <2>1
  <2>5. s \notin lost' /\ i \in len[s] .. len'[s] - 1
    BY <1>0, <2>2
  <2>3. PICK r \in DOMAIN out' : out'[r] = x
    BY <2>2, <2>5 DEF RowsComplete
  <2>4. x.tok # Zero /\ x.tok[3] /\ x.tok[1] = s
    <3> HIDE DEF R, F, A
    <3> QED
      BY <1>3, <2>2, <2>5
  <2> QED
    BY <2>3, <2>4, <2>5
<1>8. Answered' = {out'[r] : r \in A}
  BY DEF Answered
<1>9. Answered' = R
  <2> HIDE DEF A, R
  <2> QED
    BY <1>6, <1>7, <1>8
<1>10. \A s \in Seqs : Followed'[s] >= Followed[s] \/ Followed'[s] = 0
  <2> SUFFICES ASSUME NEW s \in Seqs PROVE Followed'[s] >= Followed[s] \/ Followed'[s] = 0
    OBVIOUS
  <2>1. len'[s] >= len[s]
    BY DEF Advances
  <2> HIDE DEF F
  <2> QED
    BY <1>0, <2>1
<1> QED
  BY <1>5, <1>9, <1>10 DEF Exact!Pass

-----------------------------------------------------------------------------
\* The decode region of a pass.

\* The row that answers token i of s: padding is a sequence before its first token.
Row(s, i) == [tok |-> Tok(s, i), win |-> Win(s, i), hs2 |-> Tok(s, i - 1)]

\* The row of a padding entry is zeros.
LEMMA RowIs ==
  /\ \A s \in Seqs : \A i \in 0 .. MaxLen - 1 : Row(s, i) = Exact!Answer(s, i)
  /\ \A s : \A n \in Int : n <= 0 => Before(s, n) = Zeros /\ Tok(s, n - 1) = Zero
  /\ Row(Pad, -1) = PadRow
<1>1. TP \in Nat
  BY CcaAssumption
<1>2. \A s \in Seqs : \A i \in 0 .. MaxLen - 1 : Row(s, i) = Exact!Answer(s, i)
  BY AnswerIs DEF Row
<1>3. \A s : \A i \in Int : i < 0 => Tok(s, i) = Zero
  BY DEF Tok, Exact!Tok
<1>4. ASSUME NEW s, NEW n \in Int, n <= 0 PROVE Before(s, n) = Zeros /\ Tok(s, n - 1) = Zero
  <2>1. Before(s, n) = [c \in 1 .. TP |-> Tok(s, n - TP + c - 1)]
    BY BeforeIs
  <2>2. \A c \in 1 .. TP : n - TP + c - 1 \in Int /\ n - TP + c - 1 < 0
    BY <1>1, <1>4
  <2>3. n - 1 \in Int /\ n - 1 < 0
    BY <1>4
  <2> QED
    BY <1>3, <2>1, <2>2, <2>3 DEF Zeros
<1>5. Win(Pad, -1) = [c \in 1 .. TP + 1 |-> Zero]
  <2>1. Win(Pad, -1) = [c \in 1 .. TP + 1 |-> Tok(Pad, -1 - TP + c - 1)]
    BY BeforeIs
  <2>2. \A c \in 1 .. TP + 1 : -1 - TP + c - 1 \in Int /\ -1 - TP + c - 1 < 0
    BY <1>1
  <2> QED
    BY <1>3, <2>1, <2>2
<1>6. Tok(Pad, -1) = Zero /\ Tok(Pad, -1 - 1) = Zero
  BY <1>3
<1> QED
  BY <1>2, <1>4, <1>5, <1>6 DEF Row, PadRow

\* Token of an entry of the decode region.
NextAt(s) == IF s = Pad THEN -1 ELSE len[s]
\* What a decode entry should compute: the window of its token, and the history with it.
IsDecoded(d, s) == d.win = Win(s, NextAt(s)) /\ d.put = <<SafeBlock(s), Before(s, NextAt(s) + 1)>>

\* The eager and the fused decode compute that, padding included.
LEMMA DecodeIs ==
  ASSUME NEW s, s # Pad => len[s] \in Nat, NEW c1, s # Pad => c1[Base(s)] = Before(s, len[s])
  PROVE  /\ Next1(s) = Tok(s, NextAt(s)) /\ NextAt(s) \in Int
         /\ IsDecoded(EagerDecode(s, c1), s) /\ IsDecoded(HipDecode(s, c1), s)
<1> DEFINE l == NextAt(s)
           b == IF s = Pad THEN Zeros ELSE c1[SafeBlock(s)]
<1>1. TP \in Nat /\ TP >= 1
  BY CcaAssumption
<1>2. l \in Int /\ Next1(s) = Tok(s, l)
  <2>1. Tok(s, -1) = Zero
    BY DEF Tok, Exact!Tok
  <2> QED
    BY <2>1 DEF NextAt, Next1
<1>3. b = Before(s, l)
  <2>1. Before(s, -1) = Zeros
    <3>1. -1 \in Int /\ -1 <= 0
      OBVIOUS
    <3> QED
      BY <3>1, RowIs
  <2>2. CASE s = Pad
    BY <2>1, <2>2 DEF NextAt
  <2>3. CASE s # Pad
    BY <2>3 DEF NextAt, SafeBlock
  <2> QED
    BY <2>2, <2>3
<1> HIDE DEF l, b
<1>4. /\ Before(s, l) = [c \in 1 .. TP |-> Tok(s, l - TP + c - 1)]
      /\ Win(s, l) = [c \in 1 .. TP + 1 |-> Tok(s, l - TP + c - 1)]
      /\ Win(s, l) \in Seq(TokensOf(s)) /\ Len(Win(s, l)) = TP + 1
      /\ Before(s, l + 1) = [c \in 1 .. TP |-> Tok(s, (l + 1) - TP + c - 1)]
  <2>1. l \in Int /\ l + 1 \in Int
    BY <1>2
  <2>2. Before(s, l + 1) = [c \in 1 .. TP |-> Tok(s, (l + 1) - TP + c - 1)]
    <3>1. \A n \in Int : Before(s, n) = [c \in 1 .. TP |-> Tok(s, n - TP + c - 1)]
      BY BeforeIs
    <3> QED
      BY <2>1, <3>1
  <2>3. /\ Before(s, l) = [c \in 1 .. TP |-> Tok(s, l - TP + c - 1)]
        /\ Win(s, l) = [c \in 1 .. TP + 1 |-> Tok(s, l - TP + c - 1)]
        /\ Win(s, l) \in Seq(TokensOf(s)) /\ Len(Win(s, l)) = TP + 1
    BY <2>1, BeforeIs
  <2> QED
    BY <2>2, <2>3
<1>5. ASSUME NEW c \in 1 .. TP, c # TP PROVE b[c + 1] = Tok(s, (l + 1) - TP + c - 1)
  <2>1. c + 1 \in 1 .. TP
    BY <1>1, <1>5
  <2>2. l - TP + (c + 1) - 1 = (l + 1) - TP + c - 1
    BY <1>1, <1>2
  <2> QED
    BY <1>3, <1>4, <2>1, <2>2
<1>6. (l + 1) - TP + TP - 1 = l
  BY <1>1, <1>2
<1>7. IsDecoded(EagerDecode(s, c1), s)
  <2>1. Append(b, Tok(s, l)) = Win(s, l)
    BY <1>3 DEF Win
  <2>2. Conv(Win(s, l))[1] = SubSeq(Win(s, l), 1, 1 + TP)
    <3>1. 1 \in 1 .. Len(Win(s, l)) - TP
      BY <1>1, <1>4
    <3> QED
      BY <3>1 DEF Conv
  <2>3. Adjacent(Win(s, l), 1, TP + 1, s, l)
    <3>1. \A c \in 1 .. TP + 1 : Win(s, l)[1 + c - 1] = Tok(s, l - TP + c - 1)
      <4>1. \A c \in 1 .. TP + 1 : 1 + c - 1 = c
        BY <1>1
      <4> QED
        BY <1>4, <4>1
    <3> QED
      BY <3>1 DEF Adjacent
  <2>4. SubSeq(Win(s, l), 1, 1 + TP) = Win(s, l)
    BY <1>2, <2>3, PieceIs
  <2>5. [c \in 1 .. TP |-> IF c = TP THEN Tok(s, l) ELSE b[c + 1]] = Before(s, l + 1)
    BY <1>4, <1>5, <1>6
  <2>6. /\ EagerDecode(s, c1).win = Conv(Append(b, Tok(s, l)))[1]
        /\ EagerDecode(s, c1).put =
             <<SafeBlock(s), [c \in 1 .. TP |-> IF c = TP THEN Tok(s, l) ELSE b[c + 1]]>>
    BY <1>2 DEF EagerDecode, b
  <2> QED
    BY <2>1, <2>2, <2>4, <2>5, <2>6 DEF IsDecoded, l
<1>8. IsDecoded(HipDecode(s, c1), s)
  <2> DEFINE win == [o \in 1 .. TP + 1 |-> IF s = Pad THEN Zero ELSE IF o <= TP THEN c1[SafeBlock(s)][o] ELSE Next1(s)]
  <2>1. HipDecode(s, c1).win = win
        /\ HipDecode(s, c1).put = <<SafeBlock(s), IF s = Pad THEN Zeros ELSE SubSeq(win, 2, TP + 1)>>
    BY DEF HipDecode
  <2>2. win = Win(s, l)
    <3>1. CASE s = Pad
      <4>1. l = -1
        BY <3>1 DEF l, NextAt
      <4>2. Row(s, -1).win = Win(s, -1) /\ PadRow.win = [c \in 1 .. TP + 1 |-> Zero]
        BY DEF Row, PadRow
      <4>3. Win(s, -1) = [c \in 1 .. TP + 1 |-> Zero]
        BY <3>1, <4>2, RowIs
      <4> QED
        BY <3>1, <4>1, <4>3
    <3>2. CASE s # Pad
      <4>1. c1[SafeBlock(s)] = Before(s, l)
        BY <1>3, <3>2 DEF b
      <4>2. \A o \in 1 .. TP + 1 : (IF o <= TP THEN Before(s, l)[o] ELSE Tok(s, l)) = Tok(s, l - TP + o - 1)
        <5>1. \A o \in 1 .. TP + 1 : IF o <= TP THEN o \in 1 .. TP ELSE l - TP + o - 1 = l
          BY <1>1, <1>2
        <5> QED
          BY <1>4, <5>1
      <4> QED
        BY <1>2, <1>4, <3>2, <4>1, <4>2
    <3> QED
      BY <3>1, <3>2
  <2>3. (IF s = Pad THEN Zeros ELSE SubSeq(Win(s, l), 2, TP + 1)) = Before(s, l + 1)
    <3>1. CASE s = Pad
      <4>1. l + 1 = 0
        BY <3>1 DEF l, NextAt
      <4> QED
        BY <3>1, <4>1, RowIs
    <3>2. CASE s # Pad
      BY <1>2, <3>2, Rolled
    <3> QED
      BY <3>1, <3>2
  <2> HIDE DEF win
  <2> QED
    BY <2>1, <2>2, <2>3 DEF IsDecoded, l
<1> QED
  BY <1>2, <1>7, <1>8 DEF l

\* Either prefill leaves the caches as Staged says.
LEMMA StagedIs ==
  ASSUME IInv, NEW pre, MayRun(pre), NEW p, IsFilled(p, pre)
  PROVE  Staged(Put(conv, p.put), Put(hid, PrefillHid(pre).put), pre)
<1>1. \A i \in 1 .. Len(pre) : Cached(pre[i].seq)
  <2>1. \A i \in 1 .. Len(pre) : pre[i].seq \in Seqs
    BY ChunkTypes DEF MayRun
  <2> QED
    BY <2>1, CachedIs DEF MayRun
<1>2. len \in [Seqs -> Nat] /\ IsChunks(pre)
  BY CcaAssumption DEF IInv, ProgressOK, MayRun
<1>3. PrefillHid(pre).put = HidPut(pre)
  BY <1>1, <1>2, HidIs DEF HidPut
<1> QED
  BY <1>3, FirstStage

\* Blocks of sequences that are not prefilled, and the reserved block, are as they were.
LEMMA StagedKeeps ==
  ASSUME IInv, NEW pre, MayRun(pre), NEW c1, NEW h1, Staged(c1, h1, pre)
  PROVE  /\ c1[0] = Zeros /\ h1[0] = Zero
         /\ \A s \in Seqs : tab[s] # <<>> /\ (\A k \in 1 .. Len(pre) : pre[k].seq # s) =>
              \A i \in 1 .. Width : c1[tab[s][i]] = conv[tab[s][i]] /\ h1[tab[s][i]] = hid[tab[s][i]]
<1>1. /\ LayoutOK /\ 1 \in 1 .. Width /\ NumSlots \in Nat
  BY WidthIs, CcaAssumption DEF IInv
<1>2. /\ \A s \in Seqs : tab[s] # <<>> => \A i \in 1 .. Width : tab[s][i] \in 1 .. NumSlots
      /\ \A s, t \in Seqs : tab[s] # <<>> /\ tab[t] # <<>> =>
           \A i, j \in 1 .. Width : tab[s][i] = tab[t][j] => s = t /\ i = j
  BY <1>1, BlocksAre
<1>3. \A k \in 1 .. Len(pre) : pre[k].seq \in Seqs /\ tab[pre[k].seq] # <<>>
  BY ChunkTypes DEF MayRun
<1>4. \A k \in 1 .. Len(pre) : Base(pre[k].seq) \in 1 .. NumSlots
  BY <1>1, <1>2, <1>3 DEF Base
<1>5. c1[0] = Zeros /\ h1[0] = Zero
  <2>1. 0 \in 0 .. NumSlots /\ \A k \in 1 .. Len(pre) : 0 # Base(pre[k].seq)
    BY <1>1, <1>4
  <2> QED
    BY <2>1 DEF Staged, IInv, CacheOK
<1>6. ASSUME NEW s \in Seqs, tab[s] # <<>>, \A k \in 1 .. Len(pre) : pre[k].seq # s, NEW i \in 1 .. Width
      PROVE  c1[tab[s][i]] = conv[tab[s][i]] /\ h1[tab[s][i]] = hid[tab[s][i]]
  <2>1. \A k \in 1 .. Len(pre) : tab[s][i] # Base(pre[k].seq)
    BY <1>1, <1>2, <1>3, <1>6 DEF Base
  <2>2. tab[s][i] \in 0 .. NumSlots
    BY <1>1, <1>2, <1>6
  <2> QED
    BY <2>1, <2>2 DEF Staged
<1> QED
  BY <1>5, <1>6

\* A decode region: padding and running sequences, each once and none of them prefilled.
MayDecode(dec, pre) ==
  /\ dec \in Seq(Seqs \cup {Pad})
  /\ \A i, k \in 1 .. Len(dec) : dec[i] = dec[k] /\ dec[i] # Pad => i = k
  /\ \A i \in 1 .. Len(dec) : dec[i] # Pad =>
       /\ tab[dec[i]] # <<>> /\ len[dec[i]] > 0 /\ len[dec[i]] + 1 <= MaxLen
       /\ \A k \in 1 .. Len(pre) : pre[k].seq # dec[i]

\* The tokens after a pass.
MovesOn(L, dec, pre) ==
  /\ \A i \in 1 .. Len(dec) : dec[i] # Pad => L[dec[i]] = len[dec[i]] + 1
  /\ \A k \in 1 .. Len(pre) : L[pre[k].seq] = len[pre[k].seq] + pre[k].n
  /\ \A s \in Seqs : (\A i \in 1 .. Len(dec) : dec[i] # s) /\ (\A k \in 1 .. Len(pre) : pre[k].seq # s) => L[s] = len[s]

\* The writes of the decode region.
DecPut(dec) == {<<SafeBlock(dec[i]), Before(dec[i], NextAt(dec[i]) + 1)>> : i \in 1 .. Len(dec)}
DecHid(dec) == {<<SafeBlock(dec[i]), Tok(dec[i], NextAt(dec[i]))>> : i \in 1 .. Len(dec)}

\* The caches after a pass, at column 0.
Kept(c, h, L) ==
  /\ c \in [0 .. NumSlots -> [1 .. TP -> Token]] /\ h \in [0 .. NumSlots -> Token]
  /\ c[0] = Zeros /\ h[0] = Zero
  /\ \A s \in Seqs : L[s] > 0 => c[Base(s)] = Before(s, L[s]) /\ h[Base(s)] = Tok(s, L[s] - 1)

\* Entries of a decode region are typed; padding goes to block 0 with zeros.
LEMMA DecEntry ==
  ASSUME IInv, NEW pre, NEW dec, MayDecode(dec, pre), NEW i \in 1 .. Len(dec)
  PROVE  /\ dec[i] \in Seqs \cup {Pad} /\ NextAt(dec[i]) \in Int
         /\ SafeBlock(dec[i]) \in 0 .. NumSlots
         /\ Before(dec[i], NextAt(dec[i]) + 1) \in [1 .. TP -> Token] /\ Tok(dec[i], NextAt(dec[i])) \in Token
         /\ dec[i] = Pad => /\ SafeBlock(dec[i]) = 0 /\ Before(dec[i], NextAt(dec[i]) + 1) = Zeros
                            /\ Tok(dec[i], NextAt(dec[i])) = Zero
         /\ dec[i] # Pad => /\ dec[i] \in Seqs /\ SafeBlock(dec[i]) = Base(dec[i]) /\ NextAt(dec[i]) = len[dec[i]]
                            /\ Base(dec[i]) \in 1 .. NumSlots /\ len[dec[i]] \in 0 .. MaxLen - 1
<1>1. dec[i] \in Seqs \cup {Pad}
  <2>1. dec \in Seq(Seqs \cup {Pad})
    BY DEF MayDecode
  <2> QED
    BY <2>1, ElementOfSeq
<1>2. NumSlots \in Nat /\ MaxLen \in Nat
  BY CcaAssumption
<1>3. Zero \in Token /\ Zeros \in [1 .. TP -> Token]
  BY DEF Token, Zeros
<1>4. CASE dec[i] = Pad
  <2>1. NextAt(dec[i]) = -1 /\ SafeBlock(dec[i]) = 0
    BY <1>4 DEF NextAt, SafeBlock
  <2>2. Before(dec[i], 0) = Zeros /\ Tok(dec[i], 0 - 1) = Zero
    BY RowIs
  <2>3. -1 + 1 = 0 /\ 0 - 1 = -1 /\ -1 \in Int /\ 0 \in 0 .. NumSlots
    BY <1>2
  <2> QED
    BY <1>3, <1>4, <1>1, <2>1, <2>2, <2>3
<1>5. CASE dec[i] # Pad
  <2>1. dec[i] \in Seqs /\ tab[dec[i]] # <<>> /\ len[dec[i]] \in 0 .. MaxLen /\ len[dec[i]] + 1 <= MaxLen
    BY <1>1, <1>5 DEF MayDecode, IInv, ProgressOK
  <2>2. SafeBlock(dec[i]) = Base(dec[i]) /\ NextAt(dec[i]) = len[dec[i]]
    BY <1>5 DEF NextAt, SafeBlock
  <2>3. Base(dec[i]) \in 1 .. NumSlots
    <3> DEFINE s == dec[i]
    <3>1. s \in Seqs /\ tab[s] # <<>> /\ LayoutOK /\ ProgressOK
      BY <2>1 DEF IInv
    <3> HIDE DEF s
    <3>2. Base(s) \in 1 .. NumSlots
      BY <3>1, BaseIs
    <3> QED
      BY <3>2 DEF s
  <2>4. len[dec[i]] \in Int /\ len[dec[i]] < MaxLen /\ len[dec[i]] + 1 \in Int /\ len[dec[i]] \in 0 .. MaxLen - 1
    BY <1>2, <2>1
  <2>5. Before(dec[i], len[dec[i]] + 1) \in [1 .. TP -> Token] /\ Tok(dec[i], len[dec[i]]) \in Token
    <3>1. \A s \in Seqs : (\A k \in Int : k < MaxLen => Tok(s, k) \in Token)
                          /\ \A k \in Int : k <= MaxLen => Before(s, k) \in [1 .. TP -> Token]
      BY TokenTypes
    <3> QED
      BY <2>1, <2>4, <3>1
  <2>6. Base(dec[i]) \in 0 .. NumSlots
    BY <1>2, <2>3
  <2> QED
    BY <1>1, <1>5, <2>1, <2>2, <2>3, <2>4, <2>5, <2>6
<1> QED
  BY <1>4, <1>5

\* Decodes write the blocks of their sequences and block 0, and no other.
LEMMA DecWrites ==
  ASSUME IInv, NEW pre, NEW dec, MayDecode(dec, pre), NEW c1, NEW h1, Staged(c1, h1, pre)
  PROVE  /\ Put(c1, DecPut(dec)) \in [0 .. NumSlots -> [1 .. TP -> Token]]
         /\ Put(h1, DecHid(dec)) \in [0 .. NumSlots -> Token]
         /\ \A i \in 1 .. Len(dec) :
              /\ Put(c1, DecPut(dec))[SafeBlock(dec[i])] = Before(dec[i], NextAt(dec[i]) + 1)
              /\ Put(h1, DecHid(dec))[SafeBlock(dec[i])] = Tok(dec[i], NextAt(dec[i]))
         /\ \A b \in 0 .. NumSlots : (\A i \in 1 .. Len(dec) : b # SafeBlock(dec[i])) =>
              Put(c1, DecPut(dec))[b] = c1[b] /\ Put(h1, DecHid(dec))[b] = h1[b]
<1> DEFINE m == Len(dec)
           w == DecPut(dec)
           v == DecHid(dec)
           B(i) == SafeBlock(dec[i])
           X(i) == Before(dec[i], NextAt(dec[i]) + 1)
           Y(i) == Tok(dec[i], NextAt(dec[i]))
<1>1. \A i \in 1 .. m : B(i) \in 0 .. NumSlots /\ X(i) \in [1 .. TP -> Token] /\ Y(i) \in Token
  BY DecEntry
<1>2. ASSUME NEW i \in 1 .. m, NEW j \in 1 .. m, B(i) = B(j) PROVE dec[i] = dec[j]
  <2>1. CASE dec[i] = Pad \/ dec[j] = Pad
    <3>1. B(i) = 0 \/ B(j) = 0
      BY <2>1 DEF SafeBlock
    <3>2. (dec[i] # Pad => B(i) \in 1 .. NumSlots) /\ (dec[j] # Pad => B(j) \in 1 .. NumSlots)
      BY DecEntry
    <3>3. dec[i] = Pad /\ dec[j] = Pad
      <4> HIDE DEF B
      <4> QED
        BY <1>2, <3>1, <3>2
    <3> QED
      BY <3>3
  <2>2. CASE dec[i] # Pad /\ dec[j] # Pad
    <3>1. dec[i] \in Seqs /\ dec[j] \in Seqs /\ Base(dec[i]) = Base(dec[j])
      BY <1>2, <2>2, DecEntry
    <3>2. tab[dec[i]] # <<>> /\ tab[dec[j]] # <<>>
      BY <2>2 DEF MayDecode
    <3>3. LayoutOK /\ 1 \in 1 .. Width
      BY WidthIs DEF IInv
    <3>4. \A x, y \in Seqs : tab[x] # <<>> /\ tab[y] # <<>> =>
              \A a, b \in 1 .. Width : tab[x][a] = tab[y][b] => x = y /\ a = b
      BY <3>3, BlocksAre
    <3> QED
      BY <3>1, <3>2, <3>3, <3>4 DEF Base
  <2> QED
    BY <2>1, <2>2
<1>3. \A i, j \in 1 .. m : B(i) = B(j) => X(i) = X(j) /\ Y(i) = Y(j)
  BY <1>2
<1>4. /\ \A x \in w : \E i \in 1 .. m : x = <<B(i), X(i)>>
      /\ \A x \in v : \E i \in 1 .. m : x = <<B(i), Y(i)>>
      /\ \A i \in 1 .. m : <<B(i), X(i)>> \in w /\ <<B(i), Y(i)>> \in v
  <2>1. w = {<<B(i), X(i)>> : i \in 1 .. m} /\ v = {<<B(i), Y(i)>> : i \in 1 .. m}
    BY DEF DecPut, DecHid
  <2> HIDE DEF w, v, B, X, Y, m
  <2>2. \A x \in w : \E i \in 1 .. m : x = <<B(i), X(i)>>
    BY <2>1
  <2>3. \A x \in v : \E i \in 1 .. m : x = <<B(i), Y(i)>>
    BY <2>1
  <2>4. \A i \in 1 .. m : <<B(i), X(i)>> \in w
    BY <2>1
  <2>5. \A i \in 1 .. m : <<B(i), Y(i)>> \in v
    BY <2>1
  <2> QED
    BY <2>2, <2>3, <2>4, <2>5
<1> HIDE DEF w, v, B, X, Y, m
<1>5. Consistent(w) /\ Consistent(v)
  BY <1>3, <1>4 DEF Consistent
<1>6. (\A x \in w : x[2] \in [1 .. TP -> Token]) /\ \A x \in v : x[2] \in Token
  BY <1>1, <1>4
<1>7. c1 \in [0 .. NumSlots -> [1 .. TP -> Token]] /\ h1 \in [0 .. NumSlots -> Token]
  BY DEF Staged
<1>8. Put(c1, w) \in [0 .. NumSlots -> [1 .. TP -> Token]]
  BY <1>5, <1>6, <1>7, PutTyped
<1>9. Put(h1, v) \in [0 .. NumSlots -> Token]
  BY <1>5, <1>6, <1>7, PutTyped
<1>10. \A b \in 0 .. NumSlots :
         /\ \A x \in w : x[1] = b => Put(c1, w)[b] = x[2]
         /\ (\A x \in w : x[1] # b) => Put(c1, w)[b] = c1[b]
         /\ \A x \in v : x[1] = b => Put(h1, v)[b] = x[2]
         /\ (\A x \in v : x[1] # b) => Put(h1, v)[b] = h1[b]
  <2> SUFFICES ASSUME NEW b \in 0 .. NumSlots
               PROVE  /\ \A x \in w : x[1] = b => Put(c1, w)[b] = x[2]
                      /\ (\A x \in w : x[1] # b) => Put(c1, w)[b] = c1[b]
                      /\ \A x \in v : x[1] = b => Put(h1, v)[b] = x[2]
                      /\ (\A x \in v : x[1] # b) => Put(h1, v)[b] = h1[b]
    OBVIOUS
  <2>1. b \in DOMAIN c1 /\ b \in DOMAIN h1
    BY <1>7
  <2> QED
    BY <1>5, <2>1, PutIs
<1>11. ASSUME NEW i \in 1 .. m PROVE Put(c1, w)[B(i)] = X(i) /\ Put(h1, v)[B(i)] = Y(i)
  <2> DEFINE b == B(i)
             x == <<B(i), X(i)>>
             y == <<B(i), Y(i)>>
  <2>1. x \in w /\ y \in v /\ x[1] = b /\ y[1] = b /\ x[2] = X(i) /\ y[2] = Y(i) /\ b \in 0 .. NumSlots
    BY <1>1, <1>4
  <2> HIDE DEF b, x, y
  <2>2. Put(c1, w)[b] = X(i) /\ Put(h1, v)[b] = Y(i)
    BY <1>10, <2>1
  <2> QED
    BY <2>2 DEF b
<1>12. ASSUME NEW b \in 0 .. NumSlots, \A i \in 1 .. m : b # B(i)
       PROVE  Put(c1, w)[b] = c1[b] /\ Put(h1, v)[b] = h1[b]
  <2>1. (\A x \in w : x[1] # b) /\ (\A x \in v : x[1] # b)
    BY <1>4, <1>12
  <2> QED
    BY <1>10, <2>1
<1> QED
  BY <1>8, <1>9, <1>11, <1>12 DEF w, v, B, X, Y, m

\* The decode region moves the sequences it holds, zeroes the reserved block and leaves the rest.
LEMMA PlainKeeps ==
  ASSUME IInv, cfg.mode = "plain", NEW pre, MayRun(pre), NEW dec, MayDecode(dec, pre),
         NEW c1, NEW h1, Staged(c1, h1, pre), NEW L, MovesOn(L, dec, pre),
         NEW c2, NEW h2, c2 = Put(c1, DecPut(dec)), h2 = Put(h1, DecHid(dec))
  PROVE  Kept(c2, h2, L)
<1>1. /\ c2 \in [0 .. NumSlots -> [1 .. TP -> Token]] /\ h2 \in [0 .. NumSlots -> Token]
      /\ \A i \in 1 .. Len(dec) : /\ c2[SafeBlock(dec[i])] = Before(dec[i], NextAt(dec[i]) + 1)
                                  /\ h2[SafeBlock(dec[i])] = Tok(dec[i], NextAt(dec[i]))
      /\ \A b \in 0 .. NumSlots : (\A i \in 1 .. Len(dec) : b # SafeBlock(dec[i])) => c2[b] = c1[b] /\ h2[b] = h1[b]
  BY DecWrites
<1>2. /\ \A i \in 1 .. Len(dec) : dec[i] # Pad =>
           /\ dec[i] \in Seqs /\ SafeBlock(dec[i]) = Base(dec[i]) /\ NextAt(dec[i]) = len[dec[i]]
           /\ Base(dec[i]) \in 1 .. NumSlots /\ len[dec[i]] \in 0 .. MaxLen - 1
      /\ \A i \in 1 .. Len(dec) : dec[i] = Pad =>
           /\ SafeBlock(dec[i]) = 0 /\ Before(dec[i], NextAt(dec[i]) + 1) = Zeros /\ Tok(dec[i], NextAt(dec[i])) = Zero
  BY DecEntry
<1>3. NumSlots \in Nat /\ MaxLen \in Nat /\ LayoutOK /\ ProgressOK /\ 1 \in 1 .. Width
  BY CcaAssumption, WidthIs DEF IInv
<1>4. /\ c1[0] = Zeros /\ h1[0] = Zero
      /\ \A s \in Seqs : tab[s] # <<>> /\ (\A k \in 1 .. Len(pre) : pre[k].seq # s) =>
           \A i \in 1 .. Width : c1[tab[s][i]] = conv[tab[s][i]] /\ h1[tab[s][i]] = hid[tab[s][i]]
  BY StagedKeeps
<1>5. c2[0] = Zeros /\ h2[0] = Zero
  <2>1. CASE \E i \in 1 .. Len(dec) : dec[i] = Pad
    BY <1>1, <1>2, <2>1
  <2>2. CASE \A i \in 1 .. Len(dec) : dec[i] # Pad
    <3>1. \A i \in 1 .. Len(dec) : 0 # SafeBlock(dec[i])
      BY <1>2, <2>2
    <3>2. 0 \in 0 .. NumSlots
      BY <1>3
    <3> QED
      BY <1>1, <1>4, <3>1, <3>2
  <2> QED
    BY <2>1, <2>2
<1>6. ASSUME NEW s \in Seqs, L[s] > 0 PROVE c2[Base(s)] = Before(s, L[s]) /\ h2[Base(s)] = Tok(s, L[s] - 1)
  <2>0. s # Pad
    BY CcaAssumption
  <2>1. CASE \E i \in 1 .. Len(dec) : dec[i] = s
    <3>1. PICK i \in 1 .. Len(dec) : dec[i] = s
      BY <2>1
    <3>2. SafeBlock(s) = Base(s) /\ NextAt(s) = len[s] /\ len[s] \in 0 .. MaxLen - 1
      BY <1>2, <2>0, <3>1
    <3>3. L[s] = len[s] + 1
      BY <2>0, <3>1 DEF MovesOn
    <3>4. (len[s] + 1) - 1 = len[s]
      BY <3>2
    <3>5. c2[SafeBlock(s)] = Before(s, NextAt(s) + 1) /\ h2[SafeBlock(s)] = Tok(s, NextAt(s))
      BY <1>1, <3>1
    <3> QED
      BY <3>2, <3>3, <3>4, <3>5
  <2>2. CASE \A i \in 1 .. Len(dec) : dec[i] # s
    <3>1. tab[s] # <<>>
      <4>1. CASE \E k \in 1 .. Len(pre) : pre[k].seq = s
        BY <4>1 DEF MayRun
      <4>2. CASE \A k \in 1 .. Len(pre) : pre[k].seq # s
        <5>1. L[s] = len[s]
          BY <2>2, <4>2 DEF MovesOn
        <5> QED
          BY <1>3, <1>6, <5>1 DEF ProgressOK
      <4> QED
        BY <4>1, <4>2
    <3>2. Base(s) \in 1 .. NumSlots
      BY <1>3, <3>1, BaseIs
    <3>3. \A i \in 1 .. Len(dec) : Base(s) # SafeBlock(dec[i])
      <4> SUFFICES ASSUME NEW i \in 1 .. Len(dec), Base(s) = SafeBlock(dec[i]) PROVE FALSE
        OBVIOUS
      <4>1. CASE dec[i] = Pad
        BY <1>2, <3>2, <4>1
      <4>2. CASE dec[i] # Pad
        <5>1. dec[i] \in Seqs /\ Base(dec[i]) = Base(s) /\ tab[dec[i]] # <<>>
          BY <1>2, <4>2 DEF MayDecode
        <5>2. \A x, y \in Seqs : tab[x] # <<>> /\ tab[y] # <<>> =>
              \A a, b \in 1 .. Width : tab[x][a] = tab[y][b] => x = y /\ a = b
          BY <1>3, BlocksAre
        <5>3. dec[i] = s
          BY <1>3, <3>1, <5>1, <5>2 DEF Base
        <5> QED
          BY <2>2, <5>3
      <4> QED
        BY <4>1, <4>2
    <3>4. c2[Base(s)] = c1[Base(s)] /\ h2[Base(s)] = h1[Base(s)]
      <4>1. Base(s) \in 0 .. NumSlots
        BY <1>3, <3>2
      <4> QED
        BY <1>1, <3>3, <4>1
    <3>5. CASE \E k \in 1 .. Len(pre) : pre[k].seq = s
      <4>1. PICK k \in 1 .. Len(pre) : pre[k].seq = s
        BY <3>5
      <4>2. c1[Base(s)] = Before(s, len[s] + pre[k].n) /\ h1[Base(s)] = Tok(s, len[s] + pre[k].n - 1)
        BY <4>1 DEF Staged
      <4>3. L[s] = len[s] + pre[k].n
        BY <4>1 DEF MovesOn
      <4>4. len[s] \in Int /\ pre[k].n \in Int
        BY <1>3, ChunkTypes DEF ProgressOK, MayRun
      <4>5. len[s] + pre[k].n - 1 = (len[s] + pre[k].n) - 1
        BY <4>4
      <4> QED
        BY <3>4, <4>2, <4>3, <4>5
    <3>6. CASE \A k \in 1 .. Len(pre) : pre[k].seq # s
      <4>1. L[s] = len[s]
        BY <2>2, <3>6 DEF MovesOn
      <4>2. c1[Base(s)] = conv[Base(s)] /\ h1[Base(s)] = hid[Base(s)]
        BY <1>3, <1>4, <3>1, <3>6 DEF Base
      <4>3. conv[Base(s)] = Before(s, len[s]) /\ hid[Base(s)] = Tok(s, len[s] - 1)
        <5>1. acc[s] = 0 /\ len[s] > 0
          BY <1>6, <4>1 DEF IInv, RollOK
        <5> QED
          BY <5>1, BaseHolds
      <4> QED
        BY <3>4, <4>1, <4>2, <4>3
    <3> QED
      BY <3>5, <3>6
  <2> QED
    BY <2>1, <2>2
<1> QED
  BY <1>1, <1>5, <1>6 DEF Kept

\* The rows of the prefill region.
PrefillRows(p, pre) ==
  [t \in DOMAIN p.win |-> [tok |-> Toks(pre)[t], win |-> p.win[t], hs2 |-> PrefillHid(pre).hs2[t]]]

\* R answers exactly the tokens from len up to L of the sequences of pre.
Answers(R, n, pre) ==
  /\ n \in Nat /\ R = [t \in 1 .. n |-> R[t]]
  /\ \A t \in 1 .. n : \E k \in 1 .. Len(pre) : \E i \in len[pre[k].seq] .. len[pre[k].seq] + pre[k].n - 1 :
       R[t] = Exact!Answer(pre[k].seq, i)
  /\ \A k \in 1 .. Len(pre) : \A i \in len[pre[k].seq] .. len[pre[k].seq] + pre[k].n - 1 :
       \E t \in 1 .. n : R[t] = Exact!Answer(pre[k].seq, i)

\* The prefill answers the tokens of its chunks, in any batch.
LEMMA PrefillRowsAre ==
  ASSUME IInv, NEW pre, MayRun(pre), NEW p, IsFilled(p, pre)
  PROVE  Answers(PrefillRows(p, pre), Total(pre), pre)
<1> DEFINE R == PrefillRows(p, pre)
           n == Total(pre)
           m == Len(pre)
<1>1. /\ len \in [Seqs -> Nat] /\ IsChunks(pre) /\ MaxLen \in Nat
      /\ \A k \in 1 .. m : /\ pre[k].seq \in Seqs /\ pre[k].n \in Nat /\ pre[k].n >= 1
                           /\ Cached(pre[k].seq) /\ len[pre[k].seq] + pre[k].n <= MaxLen
                           /\ len[pre[k].seq] \in Nat
  <2>1. len \in [Seqs -> Nat] /\ IsChunks(pre) /\ MaxLen \in Nat
    BY CcaAssumption DEF IInv, ProgressOK, MayRun
  <2>2. \A k \in 1 .. m : pre[k].seq \in Seqs /\ pre[k].n \in Nat /\ pre[k].n >= 1
    BY <2>1, ChunkTypes
  <2>3. \A k \in 1 .. m : Cached(pre[k].seq)
    BY <2>2, CachedIs DEF MayRun
  <2> QED
    BY <2>1, <2>2, <2>3 DEF MayRun
<1>2. /\ n \in Nat
      /\ \A k \in 1 .. m : \A j \in 1 .. pre[k].n : At(pre, k, j) \in 1 .. n
      /\ \A t \in 1 .. n : \E k \in 1 .. m : \E j \in 1 .. pre[k].n : t = At(pre, k, j)
  BY <1>1, QStartIs, ChunkTypes DEF At, Total
<1>3. R = [t \in 1 .. n |-> [tok |-> Toks(pre)[t], win |-> p.win[t], hs2 |-> PrefillHid(pre).hs2[t]]]
  BY DEF PrefillRows, IsFilled
<1>4. \A k \in 1 .. m : \A j \in 1 .. pre[k].n :
         PrefillHid(pre).hs2[At(pre, k, j)] = Tok(pre[k].seq, len[pre[k].seq] + j - 2)
  BY <1>1, HidIs
<1>5. \A k \in 1 .. m : \A j \in 1 .. pre[k].n :
         Toks(pre)[At(pre, k, j)] = Tok(pre[k].seq, len[pre[k].seq] + j - 1)
  BY <1>1, ToksIs
<1>6. \A k \in 1 .. m : \A j \in 1 .. pre[k].n :
         p.win[At(pre, k, j)] = Win(pre[k].seq, len[pre[k].seq] + j - 1)
  BY DEF IsFilled
<1>7. ASSUME NEW k \in 1 .. m, NEW j \in 1 .. pre[k].n
      PROVE  R[At(pre, k, j)] = Exact!Answer(pre[k].seq, len[pre[k].seq] + j - 1)
  <2> DEFINE s == pre[k].seq
             i == len[pre[k].seq] + j - 1
  <2>1. i \in 0 .. MaxLen - 1 /\ s \in Seqs /\ len[pre[k].seq] + j - 2 = i - 1
    <3>1. PICK x, y \in Nat : x = len[pre[k].seq] /\ y = pre[k].n
      BY <1>1
    <3>2. x + y <= MaxLen /\ MaxLen \in Nat /\ j \in 1 .. y /\ s \in Seqs
      BY <1>1, <3>1
    <3>3. x + j - 1 \in 0 .. MaxLen - 1 /\ x + j - 2 = (x + j - 1) - 1
      BY <3>2
    <3> QED
      BY <3>1, <3>2, <3>3
  <2>2. At(pre, k, j) \in 1 .. n
    BY <1>2
  <2>3. R[At(pre, k, j)] = [tok |-> Tok(s, i), win |-> Win(s, i), hs2 |-> Tok(s, i - 1)]
    BY <1>3, <1>4, <1>5, <1>6, <2>1, <2>2
  <2> HIDE DEF R, s, i
  <2> QED
    BY <2>1, <2>3, AnswerIs DEF s, i
<1> HIDE DEF R, n
<1>8. ASSUME NEW t \in 1 .. n
      PROVE  \E k \in 1 .. m : \E i \in len[pre[k].seq] .. len[pre[k].seq] + pre[k].n - 1 :
               R[t] = Exact!Answer(pre[k].seq, i)
  <2>1. PICK k \in 1 .. m : \E j \in 1 .. pre[k].n : t = At(pre, k, j)
    BY <1>2
  <2>2. PICK j \in 1 .. pre[k].n : t = At(pre, k, j)
    BY <2>1
  <2>3. len[pre[k].seq] + j - 1 \in len[pre[k].seq] .. len[pre[k].seq] + pre[k].n - 1
    BY <1>1
  <2> QED
    BY <1>7, <2>2, <2>3
<1>9. ASSUME NEW k \in 1 .. m, NEW i \in len[pre[k].seq] .. len[pre[k].seq] + pre[k].n - 1
      PROVE  \E t \in 1 .. n : R[t] = Exact!Answer(pre[k].seq, i)
  <2>1. PICK j \in 1 .. pre[k].n : i = len[pre[k].seq] + j - 1
    <3>1. PICK a, b \in Nat : a = len[pre[k].seq] /\ b = pre[k].n
      BY <1>1
    <3>2. i \in a .. a + b - 1
      BY <3>1
    <3>3. i - a + 1 \in 1 .. b /\ i = a + (i - a + 1) - 1
      BY <3>2
    <3> QED
      BY <3>1, <3>3
  <2>2. At(pre, k, j) \in 1 .. n
    BY <1>2
  <2> QED
    BY <1>7, <2>1, <2>2
<1>10. R = [t \in 1 .. n |-> R[t]]
  BY <1>3
<1> QED
  BY <1>2, <1>8, <1>9, <1>10 DEF Answers, R, n

\* The rows of the decode region.
DecodeRow(s) == Row(s, NextAt(s))

\* A decode answers the next token of its sequence, padding with zeros.
LEMMA DecodeRows ==
  ASSUME IInv, NEW pre, NEW dec, MayDecode(dec, pre), NEW i \in 1 .. Len(dec)
  PROVE  /\ dec[i] = Pad => DecodeRow(dec[i]) = PadRow
         /\ dec[i] # Pad => DecodeRow(dec[i]) = Exact!Answer(dec[i], len[dec[i]])
<1>1. dec[i] = Pad => DecodeRow(dec[i]) = PadRow
  BY RowIs DEF DecodeRow, NextAt
<1>2. CASE dec[i] # Pad
  <2>1. dec[i] \in Seqs /\ len[dec[i]] \in 0 .. MaxLen - 1 /\ NextAt(dec[i]) = len[dec[i]]
    BY <1>2, DecEntry
  <2> QED
    BY <1>2, <2>1, RowIs DEF DecodeRow
<1> QED
  BY <1>1, <1>2

\* Together they answer every token of the pass once it is counted.
LEMMA PlainRows ==
  ASSUME IInv, NEW pre, MayRun(pre), NEW dec, MayDecode(dec, pre), MovesOn(len', dec, pre),
         NEW D, D = [i \in 1 .. Len(dec) |-> DecodeRow(dec[i])],
         NEW E, NEW n, Answers(E, n, pre), out' = D \o E
  PROVE  RowsSound /\ RowsComplete
<1> DEFINE a == Len(dec)
<1>1. a \in Nat /\ n \in Nat /\ D = [i \in 1 .. a |-> D[i]] /\ E = [i \in 1 .. n |-> E[i]]
  <2>1. a \in Nat
    BY LenProperties DEF MayDecode
  <2> QED
    BY <2>1 DEF Answers
<1>2. /\ \A r \in DOMAIN out' : (\E i \in 1 .. a : out'[r] = D[i]) \/ (\E i \in 1 .. n : out'[r] = E[i])
      /\ \A i \in 1 .. a : \E r \in DOMAIN out' : out'[r] = D[i]
      /\ \A i \in 1 .. n : \E r \in DOMAIN out' : out'[r] = E[i]
  <2> HIDE DEF a
  <2>1. IsConcat(out', D, a, E, n)
    BY <1>1, ConcatRows
  <2> QED
    BY <2>1 DEF IsConcat
<1>3. \A i \in 1 .. a : /\ dec[i] = Pad => D[i] = PadRow
                        /\ dec[i] # Pad => /\ D[i] = Exact!Answer(dec[i], len[dec[i]])
                                           /\ dec[i] \in Seqs /\ len[dec[i]] \in Nat /\ len'[dec[i]] = len[dec[i]] + 1
  <2> SUFFICES ASSUME NEW i \in 1 .. a
               PROVE  /\ dec[i] = Pad => D[i] = PadRow
                      /\ dec[i] # Pad => /\ D[i] = Exact!Answer(dec[i], len[dec[i]])
                                         /\ dec[i] \in Seqs /\ len[dec[i]] \in Nat /\ len'[dec[i]] = len[dec[i]] + 1
    OBVIOUS
  <2>1. dec[i] # Pad => dec[i] \in Seqs /\ len[dec[i]] \in 0 .. MaxLen - 1
    BY DecEntry
  <2>2. dec[i] # Pad => len'[dec[i]] = len[dec[i]] + 1
    BY DEF MovesOn
  <2>3. MaxLen \in Nat
    BY CcaAssumption
  <2>4. D[i] = DecodeRow(dec[i])
    OBVIOUS
  <2>5. dec[i] # Pad => len[dec[i]] \in Nat
    BY <2>1, <2>3
  <2> QED
    BY <2>1, <2>2, <2>4, <2>5, DecodeRows
<1>4. \A k \in 1 .. Len(pre) : /\ pre[k].seq \in Seqs /\ len'[pre[k].seq] = len[pre[k].seq] + pre[k].n
                               /\ len[pre[k].seq] \in Nat /\ pre[k].n \in Nat
  <2>1. \A k \in 1 .. Len(pre) : pre[k].seq \in Seqs /\ pre[k].n \in Nat
    BY ChunkTypes DEF MayRun
  <2>2. len \in [Seqs -> Nat]
    BY CcaAssumption DEF IInv, ProgressOK
  <2> QED
    BY <2>1, <2>2 DEF MovesOn
<1>5. ASSUME NEW t \in 1 .. n
      PROVE  \E s \in Seqs : \E i \in len[s] .. len'[s] - 1 : E[t] = Exact!Answer(s, i)
  <2>1. PICK k \in 1 .. Len(pre) : \E i \in len[pre[k].seq] .. len[pre[k].seq] + pre[k].n - 1 :
               E[t] = Exact!Answer(pre[k].seq, i)
    BY DEF Answers
  <2>2. PICK i \in len[pre[k].seq] .. len[pre[k].seq] + pre[k].n - 1 : E[t] = Exact!Answer(pre[k].seq, i)
    BY <2>1
  <2>3. i \in len[pre[k].seq] .. len'[pre[k].seq] - 1
    <3>1. PICK x, y \in Nat : x = len[pre[k].seq] /\ y = pre[k].n
      BY <1>4
    <3>2. i \in x .. x + y - 1 /\ len'[pre[k].seq] = x + y
      BY <1>4, <3>1
    <3>3. i \in x .. (x + y) - 1
      BY <3>2
    <3> QED
      BY <3>1, <3>2, <3>3
  <2> QED
    BY <1>4, <2>2, <2>3
<1>6. ASSUME NEW i \in 1 .. a, dec[i] # Pad
      PROVE  \E s \in Seqs : \E x \in len[s] .. len'[s] - 1 : D[i] = Exact!Answer(s, x)
  <2>1. len[dec[i]] \in len[dec[i]] .. len'[dec[i]] - 1
    BY <1>3, <1>6
  <2> QED
    BY <1>3, <1>6, <2>1
<1>7. RowsSound
  <2> SUFFICES ASSUME NEW r \in DOMAIN out'
               PROVE  \/ out'[r] = PadRow
                      \/ \E s \in Seqs : \E i \in len[s] .. len'[s] - 1 : out'[r] = Exact!Answer(s, i)
    BY DEF RowsSound
  <2>1. CASE \E i \in 1 .. a : out'[r] = D[i]
    BY <1>3, <1>6, <2>1
  <2>2. CASE \E i \in 1 .. n : out'[r] = E[i]
    BY <1>5, <2>2
  <2> QED
    BY <1>2, <2>1, <2>2
<1>8. ASSUME NEW s \in Seqs, NEW x \in len[s] .. len'[s] - 1
      PROVE  \E r \in DOMAIN out' : out'[r] = Exact!Answer(s, x)
  <2>0. s # Pad /\ len[s] \in Nat
    BY CcaAssumption DEF IInv, ProgressOK
  <2>1. CASE \E i \in 1 .. a : dec[i] = s
    <3>1. PICK i \in 1 .. a : dec[i] = s
      BY <2>1
    <3>2. x = len[s]
      BY <1>3, <2>0, <3>1
    <3>3. D[i] = Exact!Answer(s, x)
      BY <1>3, <2>0, <3>1, <3>2
    <3>4. PICK r \in DOMAIN out' : out'[r] = D[i]
      BY <1>2
    <3> QED
      BY <3>3, <3>4
  <2>2. CASE \E k \in 1 .. Len(pre) : pre[k].seq = s
    <3>1. PICK k \in 1 .. Len(pre) : pre[k].seq = s
      BY <2>2
    <3>2. x \in len[pre[k].seq] .. len[pre[k].seq] + pre[k].n - 1
      <4>1. PICK l, y \in Nat : l = len[s] /\ y = pre[k].n
        BY <1>4, <3>1
      <4>2. x \in l .. (l + y) - 1
        BY <1>4, <3>1, <4>1
      <4>3. x \in l .. l + y - 1
        BY <4>2
      <4> QED
        BY <3>1, <4>1, <4>3
    <3>3. PICK t \in 1 .. n : E[t] = Exact!Answer(s, x)
      BY <3>1, <3>2 DEF Answers
    <3>4. PICK r \in DOMAIN out' : out'[r] = E[t]
      BY <1>2
    <3> QED
      BY <3>3, <3>4
  <2>3. CASE (\A i \in 1 .. a : dec[i] # s) /\ \A k \in 1 .. Len(pre) : pre[k].seq # s
    <3>1. len'[s] = len[s]
      BY <2>3 DEF MovesOn
    <3> QED
      BY <2>0, <3>1
  <2> QED
    BY <2>1, <2>2, <2>3
<1> QED
  BY <1>7, <1>8 DEF RowsComplete

-----------------------------------------------------------------------------
\* A pass without speculation.

\* Sequences advance by what the pass counts for them.
LEMMA PlainCounts ==
  ASSUME IInv, NEW pre, MayRun(pre), NEW dec, MayDecode(dec, pre),
         len' = [s \in Seqs |-> len[s] + Cardinality({i \in DOMAIN dec : dec[i] = s})
                                       + Cardinality({t \in DOMAIN Toks(pre) : Toks(pre)[t][1] = s})],
         lost' = lost
  PROVE  MovesOn(len', dec, pre) /\ Advances
<1> DEFINE C(s) == Cardinality({i \in DOMAIN dec : dec[i] = s})
           F(s) == PrefillCount(pre, s)
<1>1. /\ len \in [Seqs -> Nat] /\ IsChunks(pre) /\ MaxLen \in Nat
      /\ \A s \in Seqs : len[s] \in Nat /\ len[s] <= MaxLen /\ (len[s] > 0 => tab[s] # <<>>)
      /\ \A k \in 1 .. Len(pre) : pre[k].seq \in Seqs /\ pre[k].n \in Nat /\ pre[k].n >= 1
  <2>1. MaxLen \in Nat /\ len \in [Seqs -> 0 .. MaxLen]
    BY CcaAssumption DEF IInv, ProgressOK
  <2>2. IsChunks(pre)
    BY DEF MayRun
  <2>3. \A s \in Seqs : len[s] > 0 => tab[s] # <<>>
    BY DEF IInv, ProgressOK
  <2> QED
    BY <2>1, <2>2, <2>3, ChunkTypes
<1>2. DOMAIN dec = 1 .. Len(dec)
  BY LenProperties DEF MayDecode
<1>3. \A s \in Seqs : len'[s] = len[s] + C(s) + F(s)
  BY DEF PrefillCount
<1>4. ASSUME NEW s \in Seqs
      PROVE  /\ \A k \in 1 .. Len(pre) : pre[k].seq = s => F(s) = pre[k].n
             /\ (\A k \in 1 .. Len(pre) : pre[k].seq # s) => F(s) = 0
  BY <1>1, CountIs
<1>5. ASSUME NEW s \in Seqs
      PROVE  /\ \A i \in 1 .. Len(dec) : dec[i] = s => C(s) = 1
             /\ (\A i \in 1 .. Len(dec) : dec[i] # s) => C(s) = 0
  <2> DEFINE A == {i \in DOMAIN dec : dec[i] = s}
  <2>0. s # Pad
    BY CcaAssumption
  <2>1. ASSUME NEW i \in 1 .. Len(dec), dec[i] = s PROVE C(s) = 1
    <3>1. A = {i}
      BY <1>2, <2>0, <2>1 DEF MayDecode
    <3> QED
      BY <3>1, FS_Singleton
  <2>2. ASSUME \A i \in 1 .. Len(dec) : dec[i] # s PROVE C(s) = 0
    <3>1. A = {}
      BY <1>2, <2>2
    <3> QED
      BY <3>1, FS_EmptySet
  <2> QED
    BY <2>1, <2>2
<1> HIDE DEF C, F
<1>6. \A i \in 1 .. Len(dec) : dec[i] # Pad =>
        /\ dec[i] \in Seqs /\ tab[dec[i]] # <<>> /\ len[dec[i]] + 1 <= MaxLen
        /\ \A k \in 1 .. Len(pre) : pre[k].seq # dec[i]
  <2>1. \A i \in 1 .. Len(dec) : dec[i] \in Seqs \cup {Pad}
    BY DecEntry
  <2> QED
    BY <2>1 DEF MayDecode
<1>7. \A k \in 1 .. Len(pre) : /\ tab[pre[k].seq] # <<>> /\ len[pre[k].seq] + pre[k].n <= MaxLen
                               /\ \A i \in 1 .. Len(dec) : dec[i] # pre[k].seq
  <2>1. \A k \in 1 .. Len(pre) : pre[k].seq # Pad
    BY <1>1, CcaAssumption
  <2> QED
    BY <1>6, <2>1 DEF MayRun
<1>8. ASSUME NEW i \in 1 .. Len(dec), dec[i] # Pad PROVE len'[dec[i]] = len[dec[i]] + 1
  <2>1. dec[i] \in Seqs /\ len[dec[i]] \in Nat /\ C(dec[i]) = 1 /\ F(dec[i]) = 0
    BY <1>1, <1>4, <1>5, <1>6, <1>8
  <2> QED
    BY <1>3, <2>1
<1>9. ASSUME NEW k \in 1 .. Len(pre) PROVE len'[pre[k].seq] = len[pre[k].seq] + pre[k].n
  <2>1. pre[k].seq \in Seqs /\ len[pre[k].seq] \in Nat /\ C(pre[k].seq) = 0 /\ F(pre[k].seq) = pre[k].n /\ pre[k].n \in Nat
    BY <1>1, <1>4, <1>5, <1>7
  <2> QED
    BY <1>3, <2>1
<1>10. ASSUME NEW s \in Seqs, \A i \in 1 .. Len(dec) : dec[i] # s, \A k \in 1 .. Len(pre) : pre[k].seq # s
       PROVE  len'[s] = len[s]
  <2>1. len[s] \in Nat /\ C(s) = 0 /\ F(s) = 0
    BY <1>1, <1>4, <1>5, <1>10
  <2> QED
    BY <1>3, <2>1
<1>11. MovesOn(len', dec, pre)
  BY <1>8, <1>9, <1>10 DEF MovesOn
<1>12. ASSUME NEW s \in Seqs
       PROVE  len'[s] \in 0 .. MaxLen /\ len'[s] >= len[s] /\ (len'[s] > 0 => tab[s] # <<>>)
  <2>0. s # Pad /\ len[s] \in Nat /\ MaxLen \in Nat
    BY <1>1, CcaAssumption
  <2>1. CASE \E i \in 1 .. Len(dec) : dec[i] = s
    <3>1. len'[s] = len[s] + 1 /\ len[s] + 1 <= MaxLen /\ tab[s] # <<>>
      BY <1>6, <1>8, <2>0, <2>1
    <3> QED
      BY <2>0, <3>1
  <2>2. CASE \E k \in 1 .. Len(pre) : pre[k].seq = s
    <3>1. PICK k \in 1 .. Len(pre) : pre[k].seq = s
      BY <2>2
    <3>2. PICK y \in Nat : y = pre[k].n
      BY <1>1
    <3>3. len'[s] = len[s] + y /\ len[s] + y <= MaxLen /\ tab[s] # <<>>
      BY <1>7, <1>9, <3>1, <3>2
    <3> QED
      BY <2>0, <3>3
  <2>3. CASE (\A i \in 1 .. Len(dec) : dec[i] # s) /\ \A k \in 1 .. Len(pre) : pre[k].seq # s
    BY <1>1, <1>10, <2>3
  <2> QED
    BY <2>1, <2>2, <2>3
<1>13. len' = [s \in Seqs |-> len'[s]]
  OBVIOUS
<1>14. len' \in [Seqs -> 0 .. MaxLen]
  BY <1>12, <1>13
<1> QED
  BY <1>11, <1>12, <1>14 DEF Advances

\* A pass leaves the tables and the columns alone, so what is kept is what follows.
LEMMA KeptFollows ==
  ASSUME IInv, cfg.mode = "plain", UNCHANGED <<cfg, tab, sched, acc, home, lost>>, Advances, Kept(conv', hid', len')
  PROVE  LayoutOK' /\ ProgressOK' /\ RollOK' /\ CacheOK'
<1>1. LayoutOK'
  BY DEF IInv, LayoutOK, Width, P
<1>2. ProgressOK'
  BY DEF IInv, ProgressOK, Advances, P
<1>5. RollOK'
  BY DEF IInv, RollOK, Width, P
<1>3. CacheFollows'
  <2> SUFFICES ASSUME NEW s \in Seqs, len'[s] > 0
               PROVE  /\ conv'[tab'[s][home'[s] + 1]] = Exact!Before(s, len'[s])
                      /\ hid'[tab'[s][home'[s] + 1]] = Tok(s, len'[s] - 1)
    BY DEF CacheFollows
  <2>1. home'[s] = 0 /\ 0 + 1 = 1
    BY DEF IInv, RollOK
  <2>2. tab'[s][home'[s] + 1] = Base(s)
    BY <2>1 DEF Base
  <2> QED
    BY <2>2 DEF Kept, Before
<1>4. CacheOK'
  BY <1>3 DEF CacheOK, Kept
<1> QED
  BY <1>1, <1>2, <1>4, <1>5

\* A pass without speculation keeps the invariant and answers as the abstract pass does.
LEMMA PlainPassIs ==
  ASSUME IInv, cfg.mode = "plain", NEW pre, MayRun(pre), NEW dec, MayDecode(dec, pre), PlainPass(dec, pre)
  PROVE  IInv' /\ Exact!Pass
<1> DEFINE hip == UseHip(dec, pre)
           p  == IF hip THEN HipPrefill(pre) ELSE EagerPrefill(pre)
           ph == PrefillHid(pre)
           c1 == Put(conv, p.put)
           h1 == Put(hid, ph.put)
           d  == [i \in DOMAIN dec |-> IF hip THEN HipDecode(dec[i], c1) ELSE EagerDecode(dec[i], c1)]
           dh == [i \in DOMAIN dec |-> DecodeHid(dec[i], h1)]
           D  == [i \in DOMAIN dec |-> [tok |-> Next1(dec[i]), win |-> d[i].win, hs2 |-> dh[i].hs2]]
           E  == [t \in DOMAIN p.win |-> [tok |-> Toks(pre)[t], win |-> p.win[t], hs2 |-> ph.hs2[t]]]
<1>1. /\ conv' = Put(c1, {d[i].put : i \in DOMAIN dec})
      /\ hid' = Put(h1, {dh[i].put : i \in DOMAIN dec})
      /\ out' = D \o E
      /\ len' = [s \in Seqs |-> len[s] + Cardinality({i \in DOMAIN dec : dec[i] = s})
                                       + Cardinality({t \in DOMAIN Toks(pre) : Toks(pre)[t][1] = s})]
      /\ UNCHANGED <<cfg, tab, sched, acc, home, lost>>
  BY DEF PlainPass
<1>2. IsFilled(p, pre)
  <2>1. \A i \in 1 .. Len(pre) : Cached(pre[i].seq)
    <3>1. \A i \in 1 .. Len(pre) : pre[i].seq \in Seqs
      BY ChunkTypes DEF MayRun
    <3> QED
      BY <3>1, CachedIs DEF MayRun
  <2>2. len \in [Seqs -> Nat] /\ IsChunks(pre)
    BY CcaAssumption DEF IInv, ProgressOK, MayRun
  <2>3. IsFilled(HipPrefill(pre), pre)
    BY <2>1, <2>2, HipIs
  <2>4. IsFilled(EagerPrefill(pre), pre)
    BY <2>1, <2>2, EagerIs
  <2> QED
    BY <2>3, <2>4
<1>3. E = PrefillRows(p, pre)
  BY DEF PrefillRows
<1> HIDE DEF p
<1>4. Staged(c1, h1, pre)
  BY <1>2, StagedIs
<1>5. Answers(E, Total(pre), pre)
  BY <1>2, <1>3, PrefillRowsAre
<1>6. MovesOn(len', dec, pre) /\ Advances
  BY <1>1, PlainCounts
<1>7. DOMAIN dec = 1 .. Len(dec)
  BY LenProperties DEF MayDecode
<1> HIDE DEF c1, h1, E, hip
<1>8. ASSUME NEW i \in 1 .. Len(dec)
      PROVE  /\ Next1(dec[i]) = Tok(dec[i], NextAt(dec[i])) /\ IsDecoded(d[i], dec[i])
             /\ dh[i].hs2 = Tok(dec[i], NextAt(dec[i]) - 1)
             /\ dh[i].put = <<SafeBlock(dec[i]), Tok(dec[i], NextAt(dec[i]))>>
  <2> DEFINE s == dec[i]
  <2>1. s # Pad => /\ s \in Seqs /\ len[s] \in Nat /\ NextAt(s) = len[s] /\ SafeBlock(s) = Base(s) /\ len[s] > 0
                   /\ tab[s] # <<>> /\ \A k \in 1 .. Len(pre) : pre[k].seq # s
    <3>1. s # Pad => s \in Seqs /\ NextAt(s) = len[s] /\ SafeBlock(s) = Base(s) /\ len[s] \in 0 .. MaxLen - 1
      BY DecEntry
    <3>2. MaxLen \in Nat
      BY CcaAssumption
    <3>3. s # Pad => len[s] > 0 /\ tab[s] # <<>> /\ \A k \in 1 .. Len(pre) : pre[k].seq # s
      BY DEF MayDecode
    <3> HIDE DEF s
    <3> QED
      BY <3>1, <3>2, <3>3
  <2>2. s # Pad => c1[Base(s)] = Before(s, len[s]) /\ h1[Base(s)] = Tok(s, len[s] - 1)
    <3> SUFFICES ASSUME s # Pad PROVE c1[Base(s)] = Before(s, len[s]) /\ h1[Base(s)] = Tok(s, len[s] - 1)
      OBVIOUS
    <3>1. LayoutOK /\ ProgressOK /\ 1 \in 1 .. Width
      BY WidthIs DEF IInv
    <3>2. \A x \in Seqs : tab[x] # <<>> /\ (\A k \in 1 .. Len(pre) : pre[k].seq # x) =>
              \A j \in 1 .. Width : c1[tab[x][j]] = conv[tab[x][j]] /\ h1[tab[x][j]] = hid[tab[x][j]]
      BY <1>4, StagedKeeps
    <3>3. c1[Base(s)] = conv[Base(s)] /\ h1[Base(s)] = hid[Base(s)]
      BY <2>1, <3>1, <3>2 DEF Base
    <3>4. acc[s] = 0
      BY <2>1 DEF IInv, RollOK
    <3>5. conv[Base(s)] = Before(s, len[s]) /\ hid[Base(s)] = Tok(s, len[s] - 1)
      BY <2>1, <3>4, BaseHolds
    <3> QED
      BY <3>3, <3>5
  <2>3. /\ Next1(s) = Tok(s, NextAt(s)) /\ NextAt(s) \in Int
        /\ IsDecoded(EagerDecode(s, c1), s) /\ IsDecoded(HipDecode(s, c1), s)
    <3>1. (s # Pad => len[s] \in Nat) /\ (s # Pad => c1[Base(s)] = Before(s, len[s]))
      BY <2>1, <2>2
    <3> HIDE DEF s
    <3> QED
      BY <3>1, DecodeIs
  <2>4. d[i] = (IF hip THEN HipDecode(s, c1) ELSE EagerDecode(s, c1)) /\ dh[i] = DecodeHid(s, h1)
    BY <1>7
  <2>5. Tok(Pad, -1 - 1) = Zero
    BY DEF Tok, Exact!Tok
  <2>6. DecodeHid(s, h1).hs2 = Tok(s, NextAt(s) - 1)
    <3>1. CASE s = Pad
      BY <2>5, <3>1 DEF DecodeHid, NextAt
    <3>2. CASE s # Pad
      BY <2>1, <2>2, <3>2 DEF DecodeHid
    <3> QED
      BY <3>1, <3>2
  <2>7. DecodeHid(s, h1).put = <<SafeBlock(s), Next1(s)>>
    BY DEF DecodeHid
  <2> HIDE DEF s, d, dh
  <2>8. IsDecoded(d[i], s)
    BY <2>3, <2>4
  <2>9. dh[i].hs2 = Tok(s, NextAt(s) - 1) /\ dh[i].put = <<SafeBlock(s), Tok(s, NextAt(s))>>
    BY <2>3, <2>4, <2>6, <2>7
  <2> QED
    BY <2>3, <2>8, <2>9 DEF s
<1>9. D = [i \in 1 .. Len(dec) |-> DecodeRow(dec[i])]
  <2> HIDE DEF d, dh
  <2>1. D = [i \in 1 .. Len(dec) |-> [tok |-> Next1(dec[i]), win |-> d[i].win, hs2 |-> dh[i].hs2]]
    BY <1>7
  <2>2. ASSUME NEW i \in 1 .. Len(dec)
        PROVE  [tok |-> Next1(dec[i]), win |-> d[i].win, hs2 |-> dh[i].hs2] = DecodeRow(dec[i])
    BY <1>8 DEF DecodeRow, Row, IsDecoded
  <2> HIDE DEF D
  <2> QED
    BY <2>1, <2>2
<1>10. {d[i].put : i \in DOMAIN dec} = DecPut(dec) /\ {dh[i].put : i \in DOMAIN dec} = DecHid(dec)
  <2> HIDE DEF d, dh
  <2>1. \A i \in 1 .. Len(dec) : /\ d[i].put = <<SafeBlock(dec[i]), Before(dec[i], NextAt(dec[i]) + 1)>>
                                 /\ dh[i].put = <<SafeBlock(dec[i]), Tok(dec[i], NextAt(dec[i]))>>
    BY <1>8 DEF IsDecoded
  <2>2. {d[i].put : i \in DOMAIN dec} = DecPut(dec)
    BY <1>7, <2>1 DEF DecPut
  <2>3. {dh[i].put : i \in DOMAIN dec} = DecHid(dec)
    BY <1>7, <2>1 DEF DecHid
  <2> QED
    BY <2>2, <2>3
<1> HIDE DEF d, dh, D
<1>11. Kept(conv', hid', len')
  BY <1>1, <1>4, <1>6, <1>10, PlainKeeps
<1>12. LayoutOK' /\ ProgressOK' /\ RollOK' /\ CacheOK'
  BY <1>1, <1>6, <1>11, KeptFollows
<1>13. RowsSound /\ RowsComplete
  BY <1>1, <1>5, <1>6, <1>9, PlainRows
<1>14. RowsOK' /\ Exact!Pass
  BY <1>6, <1>13, RowsAnswer DEF IInv
<1> QED
  BY <1>12, <1>14 DEF IInv

-----------------------------------------------------------------------------
\* Candidates and their windows.

\* A request to verify: n candidates of a running sequence, ok of them accepted.
Candidates(v) ==
  /\ v \in [seq : Seqs, n : 1 .. P, ok : 1 .. P, col : 0 .. MaxBlock, cwin : 1 .. P, hwin : 1 .. P]
  /\ v.ok <= v.n /\ \A w \in {v.cwin, v.hwin} : w <= v.n /\ WriteCol(v, w) = WriteCol(v, v.n)
  /\ tab[v.seq] # <<>> /\ len[v.seq] > 0 /\ len[v.seq] + v.n <= MaxLen
  /\ cfg.mode = "align" => v.col = 0

\* The candidates: accepted ones are the next tokens, the others drafts.
LEMMA CandIs ==
  ASSUME IInv, NEW v, Candidates(v)
  PROVE  /\ v.seq \in Seqs /\ v.n \in Nat /\ v.ok \in Nat /\ v.ok >= 1 /\ v.ok <= v.n /\ v.n <= P /\ P \in Nat
         /\ v.col \in 0 .. MaxBlock /\ v.seq # Pad
         /\ len[v.seq] \in Nat /\ len[v.seq] > 0 /\ MaxLen \in Nat /\ TP \in Nat
         /\ Cand(v) \in Seq(Token) /\ Len(Cand(v)) = v.n
         /\ \A j \in 1 .. v.n : /\ len[v.seq] + j - 1 \in 0 .. MaxLen - 1
                                /\ j <= v.ok => Cand(v)[j] = Tok(v.seq, len[v.seq] + j - 1)
                                /\ j > v.ok => Cand(v)[j] = Draft(v.seq, len[v.seq] + j - 1)
<1> DEFINE s == v.seq
           l == len[v.seq]
<1>1. /\ s \in Seqs /\ v.n \in Nat /\ v.ok \in Nat /\ v.ok >= 1 /\ v.ok <= v.n /\ v.n <= P /\ P \in Nat
      /\ v.col \in 0 .. MaxBlock
      /\ l \in Nat /\ l > 0 /\ MaxLen \in Nat /\ TP \in Nat
  <2>1. P \in Nat /\ MaxLen \in Nat /\ TP \in Nat
    BY CcaAssumption DEF P
  <2>2. v.seq \in Seqs /\ v.n \in 1 .. P /\ v.ok \in 1 .. P /\ v.ok <= v.n /\ l > 0 /\ v.col \in 0 .. MaxBlock
    BY DEF Candidates
  <2>3. len \in [Seqs -> 0 .. MaxLen]
    BY DEF IInv, ProgressOK
  <2> QED
    BY <2>1, <2>2, <2>3
<1>2. \A j \in 1 .. v.n : l + j - 1 \in 0 .. MaxLen - 1
  <2>1. l + v.n <= MaxLen
    BY DEF Candidates
  <2> HIDE DEF l
  <2> QED
    BY <1>1, <2>1
<1>3. \A i \in 0 .. MaxLen - 1 : Tok(s, i) \in Token /\ Draft(s, i) \in Token
  <2>1. \A i \in 0 .. MaxLen - 1 : i \in Int /\ i < MaxLen
    BY <1>1
  <2> QED
    BY <1>1, <2>1, TokenTypes
<1>8. s # Pad
  <2> HIDE DEF s
  <2> QED
    BY <1>1, CcaAssumption
<1>4. Cand(v) = [j \in 1 .. v.n |-> IF j <= v.ok THEN Tok(s, l + j - 1) ELSE Draft(s, l + j - 1)]
  BY <1>8 DEF Cand
<1>5. Cand(v) \in [1 .. v.n -> Token]
  <2> HIDE DEF s, l
  <2> QED
    BY <1>2, <1>3, <1>4
<1>6. Cand(v) \in Seq(Token) /\ Len(Cand(v)) = v.n
  BY <1>1, <1>5
<1>7. \A j \in 1 .. v.n : /\ j <= v.ok => Cand(v)[j] = Tok(s, l + j - 1)
                          /\ j > v.ok => Cand(v)[j] = Draft(s, l + j - 1)
  <2> HIDE DEF s, l
  <2> QED
    BY <1>1, <1>4
<1> QED
  BY <1>1, <1>2, <1>6, <1>7, <1>8

\* What the verification convolves: x, the cached tokens, then the candidates, then zeros.
Buf(v, x) == x \o Cand(v) \o [j \in 1 .. P - v.n |-> Zero]

\* It has room for all candidates, and holds nothing else.
LEMMA BufTyped ==
  ASSUME NEW S, Zero \in S, NEW v, v.n \in Nat, v.n <= P, P \in Nat, TP \in Nat, NEW x \in [1 .. TP -> S],
         Cand(v) \in Seq(S), Len(Cand(v)) = v.n
  PROVE  /\ Buf(v, x) \in Seq(S) /\ Len(Buf(v, x)) = TP + P
         /\ \A i \in 1 .. TP + v.n : Buf(v, x)[i] = IF i <= TP THEN x[i] ELSE Cand(v)[i - TP]
<1> DEFINE C == Cand(v)
           Z == [j \in 1 .. P - v.n |-> Zero]
           n == v.n
<1>1. n \in Nat /\ n <= P /\ C \in Seq(S) /\ Len(C) = n
  OBVIOUS
<1> HIDE DEF C
<1>3. x \in Seq(S) /\ Len(x) = TP
  OBVIOUS
<1>4. Z \in Seq(S) /\ Len(Z) = P - n
  <2>1. P - n \in Nat
    BY <1>1
  <2> QED
    BY <2>1 DEF n
<1> HIDE DEF Z, n
<1>5. /\ x \o C \in Seq(S) /\ Len(x \o C) = TP + n
      /\ \A i \in 1 .. TP + n : (x \o C)[i] = IF i <= TP THEN x[i] ELSE C[i - TP]
  BY <1>1, <1>3, ConcatProperties
<1>6. /\ (x \o C) \o Z \in Seq(S) /\ Len((x \o C) \o Z) = TP + n + (P - n)
      /\ \A i \in 1 .. TP + n : ((x \o C) \o Z)[i] = (x \o C)[i]
  <2> DEFINE D == x \o C
  <2>1. D \in Seq(S) /\ Len(D) = TP + n
    BY <1>5
  <2> HIDE DEF D
  <2>2. /\ D \o Z \in Seq(S) /\ Len(D \o Z) = Len(D) + Len(Z)
        /\ \A i \in 1 .. Len(D) + Len(Z) : (D \o Z)[i] = IF i <= Len(D) THEN D[i] ELSE Z[i - Len(D)]
    BY <1>4, <2>1, ConcatProperties
  <2>3. \A i \in 1 .. TP + n : i \in 1 .. Len(D) + Len(Z) /\ i <= Len(D)
    BY <1>1, <1>4, <2>1
  <2>4. Len(D) + Len(Z) = TP + n + (P - n)
    BY <1>1, <1>4, <2>1
  <2> QED
    BY <2>2, <2>3, <2>4 DEF D
<1>7. Buf(v, x) = (x \o C) \o Z
  BY DEF Buf, C, Z
<1>9. TP + n + (P - n) = TP + P
  BY <1>1
<1> QED
  BY <1>5, <1>6, <1>7, <1>9 DEF C, n

\* With the last tokens of the sequence cached, it begins with those and the accepted
\* candidates.
LEMMA BufIs ==
  ASSUME IInv, NEW v, Candidates(v), NEW x \in [1 .. TP -> Token]
  PROVE  /\ Buf(v, x) \in Seq(Token) /\ Len(Buf(v, x)) = TP + P
         /\ x = Before(v.seq, len[v.seq]) =>
              \A i \in 1 .. TP + v.ok : Buf(v, x)[i] = Tok(v.seq, len[v.seq] - TP + i - 1)
<1> DEFINE s == v.seq
           l == len[v.seq]
           C == Cand(v)
           n == v.n
           k == v.ok
<1>1. /\ n \in Nat /\ k \in Nat /\ k >= 1 /\ k <= n /\ n <= P /\ P \in Nat
      /\ l \in Nat /\ TP \in Nat
      /\ C \in Seq(Token) /\ Len(C) = n
      /\ \A j \in 1 .. n : j <= k => C[j] = Tok(s, l + j - 1)
  BY CandIs
<1>2. Zero \in Token
  BY DEF Token
<1>3. /\ Buf(v, x) \in Seq(Token) /\ Len(Buf(v, x)) = TP + P
      /\ \A i \in 1 .. TP + n : Buf(v, x)[i] = IF i <= TP THEN x[i] ELSE C[i - TP]
  BY <1>1, <1>2, BufTyped
<1> HIDE DEF s, l, n, k, C
<1>8. ASSUME x = Before(s, l), NEW i \in 1 .. TP + k PROVE Buf(v, x)[i] = Tok(s, l - TP + i - 1)
  <2>1. i \in 1 .. TP + n
    BY <1>1
  <2>2. Buf(v, x)[i] = IF i <= TP THEN x[i] ELSE C[i - TP]
    BY <1>3, <2>1
  <2>3. CASE i <= TP
    <3>1. i \in 1 .. TP /\ l \in Int
      BY <1>1, <2>3
    <3>2. x = [c \in 1 .. TP |-> Tok(s, l - TP + c - 1)]
      BY <1>8, <3>1, BeforeIs
    <3> QED
      BY <2>2, <2>3, <3>1, <3>2
  <2>4. CASE ~(i <= TP)
    <3>1. i - TP \in 1 .. n /\ i - TP <= k /\ l + (i - TP) - 1 = l - TP + i - 1
      BY <1>1, <2>1, <2>4
    <3> QED
      BY <1>1, <2>2, <2>4, <3>1
  <2> QED
    BY <2>3, <2>4
<1> QED
  BY <1>3, <1>8 DEF s, l, k

\* The state that ends at candidate j.
Held(v, x, j) == SubSeq(Buf(v, x), j + 1, j + TP)
\* What the verification should compute from the cached tokens x: a window for each
\* candidate, the right one where x is what the sequence has taken and the candidate is
\* accepted; and the states of the candidates that land.
IsVerified(d, v, x) ==
  /\ d.win \in Seq([1 .. TP + 1 -> Token \cup {Junk}]) /\ Len(d.win) = v.n
  /\ x = Before(v.seq, len[v.seq]) => \A j \in 1 .. v.ok : d.win[j] = Win(v.seq, len[v.seq] + j - 1)
  /\ d.put = {<<WriteBlock(v, j), Held(v, x, j)>> : j \in Lands(v, v.cwin)}

\* A part of a sequence, as a function.
LEMMA PartIs ==
  ASSUME NEW S, NEW f, NEW k \in Int, NEW n \in Nat, NEW e \in Int, e = k + n - 1,
         \A i \in 1 .. n : f[k + i - 1] \in S
  PROVE  /\ SubSeq(f, k, e) \in [1 .. n -> S] /\ SubSeq(f, k, e) \in Seq(S) /\ Len(SubSeq(f, k, e)) = n
         /\ \A i \in 1 .. n : SubSeq(f, k, e)[i] = f[k + i - 1]
<1> DEFINE w == SubSeq(f, k, e)
<1>1. ASSUME NEW x \in k .. e PROVE f[x] \in S
  <2>1. x - k + 1 \in 1 .. n /\ k + (x - k + 1) - 1 = x
    OBVIOUS
  <2> QED
    BY <2>1
<1>2. /\ w \in Seq(S) /\ Len(w) = IF k <= e THEN e - k + 1 ELSE 0
      /\ \A i \in 1 .. e - k + 1 : w[i] = f[k + i - 1]
  BY <1>1, SubSeqProperties
<1> HIDE DEF w
<1>3. Len(w) = n /\ e - k + 1 = n
  BY <1>2
<1>4. \A i \in 1 .. n : w[i] = f[k + i - 1]
  BY <1>2, <1>3
<1>5. w = [i \in 1 .. n |-> w[i]]
  BY <1>2, <1>3, LenProperties
<1>6. \A i \in 1 .. n : w[i] \in S
  BY <1>4
<1> QED
  BY <1>2, <1>3, <1>4, <1>5, <1>6 DEF w

\* States and windows that end at an accepted candidate hold no draft.
LEMMA HeldIs ==
  ASSUME IInv, NEW v, Candidates(v), NEW x \in [1 .. TP -> Token], NEW j \in 1 .. v.n
  PROVE  /\ Held(v, x, j) \in [1 .. TP -> Token]
         /\ x = Before(v.seq, len[v.seq]) /\ j <= v.ok => Held(v, x, j) = Before(v.seq, len[v.seq] + j)
         /\ SubSeq(Buf(v, x), j, j + TP) \in [1 .. TP + 1 -> Token]
         /\ x = Before(v.seq, len[v.seq]) /\ j <= v.ok => SubSeq(Buf(v, x), j, j + TP) = Win(v.seq, len[v.seq] + j - 1)
<1> DEFINE s == v.seq
           l == len[v.seq]
           b == Buf(v, x)
           k == v.ok
<1>1. /\ v.n \in Nat /\ k \in Nat /\ k <= v.n /\ v.n <= P /\ P \in Nat /\ l \in Nat /\ TP \in Nat /\ TP >= 1
      /\ b \in Seq(Token) /\ Len(b) = TP + P
      /\ x = Before(s, l) => \A i \in 1 .. TP + k : b[i] = Tok(s, l - TP + i - 1)
  BY CandIs, BufIs, CcaAssumption
<1> HIDE DEF s, l, b, k
<1>2. j \in Nat /\ j >= 1 /\ j <= P
  BY <1>1
<1>3. \A i \in 1 .. TP + P : b[i] \in Token
  BY <1>1, ElementOfSeq
<1>4. SubSeq(b, j + 1, j + TP) \in [1 .. TP -> Token]
  <2>1. j + 1 \in Int /\ j + TP \in Int /\ j + TP = (j + 1) + TP - 1
    BY <1>1, <1>2
  <2>2. \A c \in 1 .. TP : (j + 1) + c - 1 \in 1 .. TP + P
    BY <1>1, <1>2
  <2>3. \A c \in 1 .. TP : b[(j + 1) + c - 1] \in Token
    BY <1>3, <2>2
  <2> QED
    BY <1>1, <2>1, <2>3, PartIs
<1>5. SubSeq(b, j, j + TP) \in [1 .. TP + 1 -> Token]
  <2>1. j \in Int /\ j + TP \in Int /\ j + TP = j + (TP + 1) - 1 /\ TP + 1 \in Nat
    BY <1>1, <1>2
  <2>2. \A c \in 1 .. TP + 1 : j + c - 1 \in 1 .. TP + P
    BY <1>1, <1>2
  <2>3. \A c \in 1 .. TP + 1 : b[j + c - 1] \in Token
    BY <1>3, <2>2
  <2> QED
    BY <2>1, <2>3, PartIs
<1>6. ASSUME x = Before(s, l), j <= k PROVE SubSeq(b, j + 1, j + TP) = Before(s, l + j)
  <2>1. Adjacent(b, j + 1, TP, s, l + j)
    <3>1. ASSUME NEW o \in 1 .. TP PROVE b[(j + 1) + o - 1] = Tok(s, (l + j) - TP + o - 1)
      <4>1. (j + 1) + o - 1 \in 1 .. TP + k /\ l - TP + ((j + 1) + o - 1) - 1 = (l + j) - TP + o - 1
        BY <1>1, <1>2, <1>6
      <4> QED
        BY <1>1, <1>6, <4>1
    <3> QED
      BY <3>1 DEF Adjacent
  <2>2. j + 1 \in Int /\ l + j \in Int /\ (j + 1) + TP - 1 = j + TP
    BY <1>1, <1>2
  <2>3. SubSeq(b, j + 1, (j + 1) + TP - 1) = Before(s, l + j)
    <3>1. \A i, y \in Int : Adjacent(b, i, TP, s, y) => SubSeq(b, i, i + TP - 1) = Before(s, y)
      BY PieceIs
    <3> QED
      BY <2>1, <2>2, <3>1
  <2> QED
    BY <2>2, <2>3
<1>7. ASSUME x = Before(s, l), j <= k PROVE SubSeq(b, j, j + TP) = Win(s, l + j - 1)
  <2>1. Adjacent(b, j, TP + 1, s, l + j - 1)
    <3>1. ASSUME NEW o \in 1 .. TP + 1 PROVE b[j + o - 1] = Tok(s, (l + j - 1) - TP + o - 1)
      <4>1. j + o - 1 \in 1 .. TP + k /\ l - TP + (j + o - 1) - 1 = (l + j - 1) - TP + o - 1
        BY <1>1, <1>2, <1>7
      <4> QED
        BY <1>1, <1>7, <4>1
    <3> QED
      BY <3>1 DEF Adjacent
  <2>2. j \in Int /\ l + j - 1 \in Int
    BY <1>1, <1>2
  <2>3. \A i, y \in Int : Adjacent(b, i, TP + 1, s, y) => SubSeq(b, i, i + TP) = Win(s, y)
    BY PieceIs
  <2> QED
    BY <2>1, <2>2, <2>3
<1> QED
  BY <1>4, <1>5, <1>6, <1>7 DEF Held, s, l, b, k

\* The convolution over a buffer: a window for each candidate.
LEMMA WinsAre ==
  ASSUME NEW S, NEW b \in Seq(S), P \in Nat, TP \in Nat, Len(b) = TP + P, NEW n \in Nat, n <= P
  PROVE  /\ SubSeq(Conv(b), 1, n) \in Seq([1 .. TP + 1 -> S]) /\ Len(SubSeq(Conv(b), 1, n)) = n
         /\ \A j \in 1 .. n : SubSeq(Conv(b), 1, n)[j] = SubSeq(b, j, j + TP)
<1> DEFINE X == [1 .. TP + 1 -> S]
           f == Conv(b)
<1>0. \A i \in 1 .. TP + P : b[i] \in S
  BY ElementOfSeq
<1>1. \A j \in 1 .. n : SubSeq(b, j, j + TP) \in X
  <2> SUFFICES ASSUME NEW j \in 1 .. n PROVE SubSeq(b, j, j + TP) \in X
    OBVIOUS
  <2>1. j \in Int /\ j + TP \in Int /\ j + TP = j + (TP + 1) - 1 /\ TP + 1 \in Nat
    OBVIOUS
  <2>2. \A c \in 1 .. TP + 1 : j + c - 1 \in 1 .. TP + P
    OBVIOUS
  <2>3. \A c \in 1 .. TP + 1 : b[j + c - 1] \in S
    BY <1>0, <2>2
  <2> QED
    BY <2>1, <2>3, PartIs
<1>2. f = [j \in 1 .. Len(b) - TP |-> SubSeq(b, j, j + TP)]
  BY DEF Conv
<1> HIDE DEF X, f
<1>3. Len(b) - TP = P /\ \A j \in 1 .. n : j \in 1 .. P /\ 1 + j - 1 = j
  OBVIOUS
<1>4. \A j \in 1 .. n : f[j] = SubSeq(b, j, j + TP)
  BY <1>2, <1>3
<1>5. \A j \in 1 .. n : f[1 + j - 1] \in X
  BY <1>1, <1>3, <1>4
<1>6. 1 \in Int /\ n \in Nat /\ n \in Int /\ n = 1 + n - 1
  OBVIOUS
<1>7. /\ SubSeq(f, 1, n) \in Seq(X) /\ Len(SubSeq(f, 1, n)) = n
      /\ \A j \in 1 .. n : SubSeq(f, 1, n)[j] = f[1 + j - 1]
  BY <1>5, <1>6, PartIs
<1>8. \A j \in 1 .. n : SubSeq(f, 1, n)[j] = f[j]
  BY <1>3, <1>7
<1> QED
  BY <1>4, <1>7, <1>8 DEF f, X

\* So the verification computes what it should.
LEMMA VerifyConvIs ==
  ASSUME IInv, NEW v, Candidates(v), NEW c1, NEW x \in [1 .. TP -> Token], c1[ReadBlock(v)] = x
  PROVE  IsVerified(VerifyConv(v, c1), v, x)
<1> DEFINE b == Buf(v, x)
           w == SubSeq(Conv(b), 1, v.n)
           T == Token \cup {Junk}
<1>1. /\ v.n \in Nat /\ v.ok \in Nat /\ v.ok <= v.n /\ v.n <= P /\ P \in Nat /\ TP \in Nat
      /\ b \in Seq(Token) /\ Len(b) = TP + P /\ v.ok >= 1 /\ v.seq # Pad
  BY CandIs, BufIs
<1>2. /\ VerifyConv(v, c1).win = w
      /\ VerifyConv(v, c1).put = {<<WriteBlock(v, j), Held(v, x, j)>> : j \in Lands(v, v.cwin)}
  <2>1. c1[ReadBlock(v)] \o Cand(v) \o [j \in 1 .. P - v.n |-> Zero] = b
    BY DEF Buf
  <2> HIDE DEF b
  <2>2. /\ VerifyConv(v, c1).win = SubSeq(Conv(b), 1, v.n)
        /\ VerifyConv(v, c1).put = {<<WriteBlock(v, j), SubSeq(b, j + 1, j + TP)>> : j \in Lands(v, v.cwin)}
    BY <1>1, <2>1 DEF VerifyConv
  <2> QED
    BY <2>2 DEF Held, b
<1> HIDE DEF b
<1>3. b \in Seq(T)
  <2>1. Seq(Token) \subseteq Seq(T)
    OBVIOUS
  <2> QED
    BY <1>1, <2>1
<1> HIDE DEF T
<1>4. w \in Seq([1 .. TP + 1 -> T]) /\ Len(w) = v.n /\ \A j \in 1 .. v.n : w[j] = SubSeq(b, j, j + TP)
  BY <1>1, <1>3, WinsAre
<1>5. x = Before(v.seq, len[v.seq]) => \A j \in 1 .. v.ok : w[j] = Win(v.seq, len[v.seq] + j - 1)
  <2>1. \A j \in 1 .. v.ok : j \in 1 .. v.n /\ j <= v.ok
    BY <1>1
  <2> HIDE DEF w
  <2> QED
    BY <1>4, <2>1, HeldIs DEF b
<1> HIDE DEF w
<1> QED
  BY <1>2, <1>4, <1>5 DEF IsVerified, T

\* A padding row is convolved with zeros and gives block 0 its own value.
LEMMA VerifyPadIs ==
  ASSUME NEW v, v.seq = Pad, v.n \in 1 .. P, NEW c1
  PROVE  /\ VerifyConv(v, c1).win \in Seq([1 .. TP + 1 -> Token \cup {Junk}]) /\ Len(VerifyConv(v, c1).win) = v.n
         /\ VerifyConv(v, c1).put = {<<0, c1[0]>>}
         /\ Cand(v) = [j \in 1 .. v.n |-> Junk]
<1> DEFINE T == Token \cup {Junk}
           b == Buf(v, Zeros)
<1>1. P \in Nat /\ TP \in Nat /\ v.n \in Nat /\ v.n <= P
  BY CcaAssumption DEF P
<1>2. Zero \in T /\ Junk \in T /\ Zeros \in [1 .. TP -> T]
  BY DEF Token, Zeros
<1>3. Cand(v) = [j \in 1 .. v.n |-> Junk]
  BY DEF Cand
<1> HIDE DEF T
<1>4. Cand(v) \in Seq(T) /\ Len(Cand(v)) = v.n
  BY <1>1, <1>2, <1>3
<1>5. b \in Seq(T) /\ Len(b) = TP + P
  BY <1>1, <1>2, <1>4, BufTyped
<1>6. VerifyConv(v, c1).win = SubSeq(Conv(b), 1, v.n) /\ VerifyConv(v, c1).put = {<<0, c1[0]>>}
  BY DEF VerifyConv, Buf
<1> HIDE DEF b
<1>7. SubSeq(Conv(b), 1, v.n) \in Seq([1 .. TP + 1 -> T]) /\ Len(SubSeq(Conv(b), 1, v.n)) = v.n
  BY <1>1, <1>5, WinsAre
<1> QED
  BY <1>3, <1>6, <1>7 DEF T

-----------------------------------------------------------------------------
\* The region that is verified, and its writes.

\* A region to verify: padding, and running sequences, each once and none of them prefilled.
MayVerify(ver, pre) ==
  /\ ver \in Seq([seq : Seqs \cup {Pad}, n : 1 .. P, ok : 1 .. P, col : 0 .. MaxBlock, cwin : 1 .. P, hwin : 1 .. P])
  /\ \A i, k \in 1 .. Len(ver) : ver[i].seq = ver[k].seq /\ ver[i].seq # Pad => i = k
  /\ \A i \in 1 .. Len(ver) : ver[i].seq # Pad =>
       Candidates(ver[i]) /\ \A k \in 1 .. Len(pre) : pre[k].seq # ver[i].seq

\* The column that is read is in the row, and it is home where the engine does its part.
LEMMA ReadIs ==
  ASSUME IInv, NEW v, Candidates(v)
  PROVE  /\ ReadCol(v) \in 0 .. Width - 1 /\ ReadCol(v) + 1 \in 1 .. Width /\ ReadBlock(v) \in 1 .. NumSlots
         /\ cfg.keeps => ReadCol(v) = home[v.seq]
<1> DEFINE s == v.seq
<1>1. /\ s \in Seqs /\ tab[s] # <<>> /\ v.col \in Nat
  BY CandIs, CcaAssumption DEF Candidates
<1> HIDE DEF s
<1>2. /\ Width \in Nat /\ Width >= 1 /\ P \in Nat /\ P >= 1 /\ MaxBlock \in Nat
      /\ cfg.mode \in {"computed", "all"} => Width = P + MaxBlock
      /\ Len(tab[s]) = Width
  BY <1>1, WidthIs, CcaAssumption DEF IInv, LayoutOK
<1>3. /\ sched[s] \in 0 .. MaxBlock /\ acc[s] \in 0 .. P
      /\ cfg.mode = "computed" => ~cfg.keeps
      /\ cfg.keeps /\ cfg.mode # "all" => home[s] = 0
      /\ cfg.keeps /\ cfg.mode = "all" => home[s] = sched[s] + AtLeast(acc[s], 1) - 1
  BY <1>1 DEF IInv, ProgressOK, RollOK, LayoutOK
<1>4. ReadCol(v) \in 0 .. Width - 1 /\ (cfg.keeps => ReadCol(v) = home[s])
  <2>1. CASE cfg.mode = "all"
    <3>1. ReadCol(v) = AtMost(sched[s] + AtLeast(acc[s], 1) - 1, Width - 1)
      BY <1>2, <2>1 DEF ReadCol, s
    <3>2. AtLeast(acc[s], 1) \in 1 .. P
      BY <1>2, <1>3 DEF AtLeast
    <3>3. sched[s] + AtLeast(acc[s], 1) - 1 \in 0 .. Width - 1
      <4>1. PICK x \in 1 .. P : x = AtLeast(acc[s], 1)
        BY <3>2
      <4>2. Width = P + MaxBlock
        BY <1>2, <2>1
      <4>3. sched[s] + x - 1 \in 0 .. Width - 1
        BY <1>2, <1>3, <4>2
      <4> QED
        BY <4>1, <4>3
    <3>4. ReadCol(v) = sched[s] + AtLeast(acc[s], 1) - 1
      BY <1>2, <3>1, <3>3 DEF AtMost
    <3> QED
      BY <1>3, <2>1, <3>3, <3>4
  <2>2. CASE cfg.mode = "computed"
    <3>1. ReadCol(v) = AtMost(v.col, P - 1)
      BY <2>2 DEF ReadCol
    <3>2. AtMost(v.col, P - 1) \in 0 .. P - 1
      BY <1>1, <1>2 DEF AtMost
    <3> QED
      BY <1>2, <1>3, <2>2, <3>1, <3>2
  <2>3. CASE cfg.mode \notin {"all", "computed"}
    <3>1. ReadCol(v) = 0
      BY <2>3 DEF ReadCol
    <3> QED
      BY <1>2, <1>3, <2>3, <3>1
  <2> QED
    BY <2>1, <2>2, <2>3
<1>5. ReadCol(v) + 1 \in 1 .. Width
  BY <1>2, <1>4
<1>6. \A i \in 1 .. Width : tab[s][i] \in 1 .. NumSlots
  BY <1>1, BlocksAre DEF IInv
<1> QED
  BY <1>4, <1>5, <1>6 DEF ReadBlock, s

\* The columns that are written are in the row, and only the last of them is written twice.
LEMMA ColumnIs ==
  ASSUME IInv, cfg.mode # "plain", NEW v, Candidates(v), NEW j \in 1 .. v.n
  PROVE  /\ WriteCol(v, j) \in 0 .. Width - 1 /\ WriteCol(v, j) + 1 \in 1 .. Width /\ WriteBlock(v, j) \in 1 .. NumSlots
         /\ cfg.mode = "align" => WriteCol(v, j) = j - 1
         /\ cfg.mode = "all" => WriteCol(v, j) = v.col + j - 1
         /\ \A k \in 1 .. v.n : WriteCol(v, k) = WriteCol(v, j) => k = j \/ WriteCol(v, j) = WriteCol(v, v.n)
<1> DEFINE s == v.seq
           n == v.n
<1>1. /\ s \in Seqs /\ n \in Nat /\ n >= 1 /\ n <= P /\ P \in Nat /\ v.col \in Nat /\ v.col <= MaxBlock
      /\ MaxBlock \in Nat /\ tab[s] # <<>>
  BY CandIs, CcaAssumption DEF Candidates
<1>2. /\ Len(tab[s]) = Width /\ cfg.mode \in {"align", "computed", "all"} /\ Width \in Nat
      /\ cfg.mode = "align" => Width = P
      /\ cfg.mode \in {"computed", "all"} => Width = P + MaxBlock
  BY <1>1, WidthIs DEF IInv, LayoutOK
<1>3. ReadCol(v) \in 0 .. Width - 1
  BY ReadIs
<1>4. j \in 1 .. n
  OBVIOUS
<1> HIDE DEF s, n
<1>5. ASSUME cfg.mode = "align", NEW i \in 1 .. n PROVE WriteCol(v, i) = i - 1 /\ WriteCol(v, i) \in 0 .. Width - 1
  BY <1>1, <1>2, <1>5 DEF WriteCol
<1>6. ASSUME cfg.mode = "all", NEW i \in 1 .. n PROVE WriteCol(v, i) = v.col + i - 1 /\ WriteCol(v, i) \in 0 .. Width - 1
  <2>1. WriteCol(v, i) = AtMost(v.col + i - 1, Width - 1)
    BY <1>2, <1>6 DEF WriteCol, s
  <2>2. v.col + i - 1 \in 0 .. Width - 1
    BY <1>1, <1>2, <1>6
  <2> QED
    BY <1>2, <2>1, <2>2 DEF AtMost
<1>7. ASSUME cfg.mode = "computed", NEW i \in 1 .. n
      PROVE  WriteCol(v, i) = (IF ReadCol(v) + i < P - 1 THEN ReadCol(v) + i ELSE P - 1) /\ WriteCol(v, i) \in 0 .. Width - 1
  <2>1. WriteCol(v, i) = IF ReadCol(v) + i < P - 1 THEN ReadCol(v) + i ELSE P - 1
    BY <1>7 DEF WriteCol, AtMost
  <2>2. ReadCol(v) \in Nat /\ i \in Nat /\ P - 1 <= Width - 1 /\ P - 1 \in Nat
    BY <1>1, <1>2, <1>3, <1>7
  <2> QED
    BY <1>1, <1>2, <2>1, <2>2
<1>8. WriteCol(v, j) \in 0 .. Width - 1 /\ WriteCol(v, j) + 1 \in 1 .. Width
  <2>1. WriteCol(v, j) \in 0 .. Width - 1
    BY <1>2, <1>4, <1>5, <1>6, <1>7
  <2> QED
    BY <1>2, <2>1
<1>9. WriteBlock(v, j) \in 1 .. NumSlots
  <2>1. \A i \in 1 .. Width : tab[s][i] \in 1 .. NumSlots
    BY <1>1, BlocksAre DEF IInv
  <2> QED
    BY <1>8, <2>1 DEF WriteBlock, s
<1>10. ASSUME NEW k \in 1 .. n, WriteCol(v, k) = WriteCol(v, j) PROVE k = j \/ WriteCol(v, j) = WriteCol(v, n)
  <2>1. CASE cfg.mode = "align"
    BY <1>1, <1>4, <1>5, <1>10, <2>1
  <2>2. CASE cfg.mode = "all"
    <3>1. v.col + k - 1 = v.col + j - 1
      BY <1>4, <1>6, <1>10, <2>2
    <3> QED
      BY <1>1, <1>4, <3>1
  <2>3. CASE cfg.mode = "computed"
    <3>1. n \in 1 .. n
      BY <1>1
    <3>2. PICK r \in Nat : r = ReadCol(v)
      BY <1>2, <1>3
    <3>3. /\ WriteCol(v, k) = (IF r + k < P - 1 THEN r + k ELSE P - 1)
          /\ WriteCol(v, j) = (IF r + j < P - 1 THEN r + j ELSE P - 1)
          /\ WriteCol(v, n) = (IF r + n < P - 1 THEN r + n ELSE P - 1)
      BY <1>4, <1>7, <2>3, <3>1, <3>2
    <3>4. k \in Nat /\ j \in Nat /\ k <= n /\ j <= n /\ n \in Nat
      BY <1>1, <1>4
    <3>5. CASE r + j < P - 1
      <4>1. WriteCol(v, k) = r + j
        BY <1>10, <3>3, <3>5
      <4>2. PICK p \in Int : p = P - 1
        BY <1>1
      <4>3. r + j # p
        BY <3>2, <3>4, <3>5, <4>2
      <4>4. r + k < p
        BY <3>3, <4>1, <4>2, <4>3
      <4>5. r + k = r + j
        BY <3>3, <4>1, <4>2, <4>4
      <4> QED
        BY <3>2, <3>4, <4>5
    <3>6. CASE ~(r + j < P - 1)
      <4>1. ~(r + n < P - 1)
        BY <1>1, <3>2, <3>4, <3>6
      <4> QED
        BY <3>3, <3>6, <4>1
    <3> QED
      BY <3>5, <3>6
  <2> QED
    BY <1>2, <2>1, <2>2, <2>3
<1> QED
  BY <1>4, <1>5, <1>6, <1>8, <1>9, <1>10 DEF n

\* One candidate lands in each block that is written, and the last accepted one does where
\* the pass knows where it has left the state.
LEMMA LandsIs ==
  ASSUME IInv, cfg.mode # "plain", NEW v, Candidates(v), NEW w \in {v.cwin, v.hwin}
  PROVE  /\ Lands(v, w) \subseteq 1 .. v.n
         /\ \A j, k \in Lands(v, w) : WriteCol(v, j) = WriteCol(v, k) => j = k
         /\ Left(v) # -1 => v.ok \in Lands(v, w)
         /\ Left(v) \in -1 .. Width - 1
         /\ Copies => Left(v) = 0
         /\ ~Copies /\ Left(v) # -1 => Left(v) = WriteCol(v, v.ok)
         /\ cfg.mode = "all" => Left(v) = v.col + v.ok - 1
<1> DEFINE n == v.n
           k == v.ok
           C(j) == WriteCol(v, j)
<1>1. n \in Nat /\ k \in 1 .. n /\ n \in 1 .. n /\ Width \in Nat /\ Width >= 1 /\ v.col \in Nat
  BY CandIs, WidthIs, CcaAssumption DEF IInv
<1>2. w \in 1 .. n /\ C(w) = C(n)
  <2>1. w \in 1 .. P /\ w <= n /\ C(w) = C(n)
    BY DEF Candidates
  <2> QED
    BY <1>1, <2>1
<1>3. \A i, j \in 1 .. n : C(i) = C(j) => i = j \/ C(j) = C(n)
  BY ColumnIs
<1>4. /\ \A j \in 1 .. n : C(j) \in 0 .. Width - 1
      /\ cfg.mode = "align" => \A j \in 1 .. n : C(j) = j - 1
      /\ cfg.mode = "all" => \A j \in 1 .. n : C(j) = v.col + j - 1
  BY ColumnIs
<1>5. Lands(v, w) = {j \in 1 .. n : C(j) # C(n)} \cup {w}
  BY DEF Lands
<1>6. Left(v) = IF Copies THEN 0 ELSE IF \E j \in 1 .. n : j # k /\ C(j) = C(k) THEN -1 ELSE C(k)
  BY DEF Left
<1> HIDE DEF n, k, C
<1>7. Lands(v, w) \subseteq 1 .. n
  BY <1>2, <1>5
<1>8. \A i, j \in Lands(v, w) : C(i) = C(j) => i = j
  BY <1>2, <1>3, <1>5, <1>7
<1>9. Copies => cfg.mode = "align"
  BY DEF Copies
<1>10. ASSUME cfg.mode \in {"align", "all"}, NEW i \in 1 .. n, NEW j \in 1 .. n, C(i) = C(j) PROVE i = j
  <2>1. CASE cfg.mode = "align"
    BY <1>1, <1>4, <1>10, <2>1
  <2>2. CASE cfg.mode = "all"
    <3>1. v.col + i - 1 = v.col + j - 1
      BY <1>4, <1>10, <2>2
    <3> QED
      BY <1>1, <3>1
  <2> QED
    BY <1>10, <2>1, <2>2
<1>11. ASSUME Left(v) # -1 PROVE \A j \in 1 .. n : C(j) = C(k) => j = k
  <2>1. CASE Copies
    BY <1>1, <1>9, <1>10, <2>1
  <2>2. CASE ~Copies
    BY <1>6, <1>11, <2>2
  <2> QED
    BY <2>1, <2>2
<1>12. Left(v) # -1 => k \in Lands(v, w)
  BY <1>1, <1>2, <1>5, <1>11
<1>13. Left(v) \in -1 .. Width - 1
  <2>1. C(k) \in 0 .. Width - 1
    BY <1>1, <1>4
  <2> QED
    BY <1>1, <1>6, <2>1
<1>14. (Copies => Left(v) = 0) /\ (~Copies /\ Left(v) # -1 => Left(v) = C(k))
  BY <1>6
<1>15. cfg.mode = "all" => Left(v) = v.col + k - 1
  BY <1>1, <1>4, <1>6, <1>9, <1>10
<1> QED
  BY <1>7, <1>8, <1>12, <1>13, <1>14, <1>15 DEF n, k, C

\* A cache of values V.
OnBlocks(f, V) == f \in [0 .. NumSlots -> V]

\* The writes of the region to one cache: candidate win[i] of row i wins its last column,
\* and val[i][j] belongs to candidate j.  Padding gives block 0 the value it has.
Puts(f, ver, win, val) ==
  UNION {IF ver[i].seq = Pad THEN {<<0, f[0]>>}
         ELSE {<<WriteBlock(ver[i], j), val[i][j]>> : j \in Lands(ver[i], win[i])} : i \in 1 .. Len(ver)}

\* Candidates that land have written their blocks; other blocks are left alone.
Written(g, f, ver, win, val) ==
  /\ \A i \in 1 .. Len(ver) : ver[i].seq # Pad =>
       \A j \in Lands(ver[i], win[i]) : g[WriteBlock(ver[i], j)] = val[i][j]
  /\ \A b \in 0 .. NumSlots :
       (\A i \in 1 .. Len(ver) : ver[i].seq # Pad => \A j \in 1 .. ver[i].n : b # WriteBlock(ver[i], j)) => g[b] = f[b]

\* No row overwrites a block of another one.
LEMMA PutsAre ==
  ASSUME IInv, cfg.mode # "plain", NEW pre, NEW ver, MayVerify(ver, pre), NEW V, NEW f, OnBlocks(f, V), NEW win, NEW val,
         \A i \in 1 .. Len(ver) : ver[i].seq # Pad =>
           win[i] \in {ver[i].cwin, ver[i].hwin} /\ \A j \in 1 .. ver[i].n : val[i][j] \in V
  PROVE  OnBlocks(Put(f, Puts(f, ver, win, val)), V) /\ Written(Put(f, Puts(f, ver, win, val)), f, ver, win, val)
<1> DEFINE m == Len(ver)
           r(i) == ver[i].seq # Pad
           n(i) == ver[i].n
           l(i) == Lands(ver[i], win[i])
           B(i, j) == WriteBlock(ver[i], j)
           Y(i, j) == val[i][j]
           w == Puts(f, ver, win, val)
           g == Put(f, w)
<1>0. \A i \in 1 .. m : r(i) => Candidates(ver[i]) /\ win[i] \in {ver[i].cwin, ver[i].hwin}
  BY DEF MayVerify
<1>1. ASSUME NEW i \in 1 .. m, r(i), NEW j \in 1 .. n(i) PROVE B(i, j) \in 1 .. NumSlots /\ Y(i, j) \in V
  <2>1. Candidates(ver[i])
    BY <1>0, <1>1
  <2> QED
    BY <1>1, <2>1, ColumnIs
<1>2. ASSUME NEW i \in 1 .. m, r(i) PROVE l(i) \subseteq 1 .. n(i)
  <2>1. Candidates(ver[i]) /\ win[i] \in {ver[i].cwin, ver[i].hwin}
    BY <1>0, <1>2
  <2> QED
    BY <2>1, LandsIs
<1>3. ASSUME NEW i \in 1 .. m, r(i), NEW k \in 1 .. m, r(k), NEW j \in l(i), NEW e \in l(k), B(i, j) = B(k, e)
      PROVE  i = k /\ j = e
  <2> DEFINE a == WriteCol(ver[i], j) + 1
             c == WriteCol(ver[k], e) + 1
             s == ver[i].seq
             t == ver[k].seq
  <2>1. Candidates(ver[i]) /\ Candidates(ver[k]) /\ j \in 1 .. ver[i].n /\ e \in 1 .. ver[k].n
    BY <1>0, <1>2, <1>3
  <2>2. a \in 1 .. Width /\ c \in 1 .. Width /\ WriteCol(ver[i], j) \in 0 .. Width - 1 /\ WriteCol(ver[k], e) \in 0 .. Width - 1
    BY <2>1, ColumnIs
  <2>3. s \in Seqs /\ tab[s] # <<>> /\ t \in Seqs /\ tab[t] # <<>>
    BY <2>1, CandIs DEF Candidates
  <2>4. tab[s][a] = tab[t][c]
    BY <1>3 DEF WriteBlock
  <2>5. s = t /\ a = c
    <3> HIDE DEF s, t, a, c
    <3> QED
      BY <2>2, <2>3, <2>4, BlocksAre DEF IInv
  <2>6. i = k
    BY <1>3, <2>5 DEF MayVerify
  <2>7. WriteCol(ver[i], j) = WriteCol(ver[i], e)
    <3>1. PICK x \in Int : x = WriteCol(ver[i], j)
      BY <2>2
    <3>2. PICK y \in Int : y = WriteCol(ver[k], e)
      BY <2>2
    <3>3. x + 1 = y + 1
      BY <2>5, <3>1, <3>2
    <3> QED
      BY <2>6, <3>1, <3>2, <3>3
  <2>8. win[i] \in {ver[i].cwin, ver[i].hwin} /\ j \in Lands(ver[i], win[i]) /\ e \in Lands(ver[i], win[i])
    BY <1>0, <1>3, <2>6
  <2>9. j = e
    BY <2>1, <2>7, <2>8, LandsIs
  <2> QED
    BY <2>6, <2>9
<1>4. /\ \A x \in w : x = <<0, f[0]>> \/ \E i \in 1 .. m : r(i) /\ \E j \in l(i) : x = <<B(i, j), Y(i, j)>>
      /\ \A i \in 1 .. m : r(i) => \A j \in l(i) : <<B(i, j), Y(i, j)>> \in w
  <2>1. w = UNION {IF r(i) THEN {<<B(i, j), Y(i, j)>> : j \in l(i)} ELSE {<<0, f[0]>>} : i \in 1 .. m}
    BY DEF Puts
  <2> HIDE DEF w, r, B, Y, l, m
  <2>2. ASSUME NEW x \in w PROVE x = <<0, f[0]>> \/ \E i \in 1 .. m : r(i) /\ \E j \in l(i) : x = <<B(i, j), Y(i, j)>>
    <3>1. PICK i \in 1 .. m : x \in IF r(i) THEN {<<B(i, j), Y(i, j)>> : j \in l(i)} ELSE {<<0, f[0]>>}
      BY <2>1
    <3> QED
      BY <3>1
  <2>3. ASSUME NEW i \in 1 .. m, r(i), NEW j \in l(i) PROVE <<B(i, j), Y(i, j)>> \in w
    <3>1. <<B(i, j), Y(i, j)>> \in IF r(i) THEN {<<B(i, k), Y(i, k)>> : k \in l(i)} ELSE {<<0, f[0]>>}
      BY <2>3
    <3> QED
      BY <2>1, <3>1
  <2> QED
    BY <2>2, <2>3
<1>5. 0 \in 0 .. NumSlots /\ f[0] \in V /\ \A b \in 1 .. NumSlots : b \in 0 .. NumSlots /\ b # 0
  <2>1. NumSlots \in Nat
    BY CcaAssumption
  <2>2. 0 \in 0 .. NumSlots /\ \A b \in 1 .. NumSlots : b \in 0 .. NumSlots /\ b # 0
    BY <2>1
  <2> QED
    BY <2>2 DEF OnBlocks
<1> HIDE DEF m, r, n, l, B, Y, w
<1>6. \A i \in 1 .. m : r(i) => \A j \in l(i) : B(i, j) \in 1 .. NumSlots /\ Y(i, j) \in V
  BY <1>1, <1>2
<1>7. Consistent(w)
  <2> SUFFICES ASSUME NEW x \in w, NEW y \in w, x[1] = y[1] PROVE x[2] = y[2]
    BY DEF Consistent
  <2>1. CASE x = <<0, f[0]>>
    <3>1. y = <<0, f[0]>>
      BY <1>4, <1>5, <1>6, <2>1
    <3> QED
      BY <2>1, <3>1
  <2>2. CASE x # <<0, f[0]>>
    <3>1. PICK i \in 1 .. m : r(i) /\ \E j \in l(i) : x = <<B(i, j), Y(i, j)>>
      BY <1>4, <2>2
    <3>2. PICK j \in l(i) : x = <<B(i, j), Y(i, j)>>
      BY <3>1
    <3>3. y # <<0, f[0]>>
      BY <1>5, <1>6, <3>1, <3>2
    <3>4. PICK k \in 1 .. m : r(k) /\ \E e \in l(k) : y = <<B(k, e), Y(k, e)>>
      BY <1>4, <3>3
    <3>5. PICK e \in l(k) : y = <<B(k, e), Y(k, e)>>
      BY <3>4
    <3>6. i = k /\ j = e
      BY <1>3, <3>1, <3>2, <3>4, <3>5
    <3> QED
      BY <3>2, <3>5, <3>6
  <2> QED
    BY <2>1, <2>2
<1>8. \A x \in w : x[2] \in V
  BY <1>4, <1>5, <1>6
<1>9. OnBlocks(g, V)
  BY <1>7, <1>8, PutTyped DEF OnBlocks
<1>10. \A b \in 0 .. NumSlots : (\A x \in w : x[1] = b => g[b] = x[2]) /\ ((\A x \in w : x[1] # b) => g[b] = f[b])
  <2> SUFFICES ASSUME NEW b \in 0 .. NumSlots
               PROVE  (\A x \in w : x[1] = b => g[b] = x[2]) /\ ((\A x \in w : x[1] # b) => g[b] = f[b])
    OBVIOUS
  <2>1. b \in DOMAIN f
    BY DEF OnBlocks
  <2> QED
    BY <1>7, <2>1, PutIs
<1> HIDE DEF g
<1>11. ASSUME NEW i \in 1 .. m, r(i), NEW j \in l(i) PROVE g[B(i, j)] = Y(i, j)
  <2> DEFINE b == B(i, j)
             x == <<B(i, j), Y(i, j)>>
  <2>1. x \in w /\ x[1] = b /\ x[2] = Y(i, j) /\ b \in 0 .. NumSlots
    BY <1>4, <1>5, <1>6, <1>11
  <2> HIDE DEF b, x
  <2>2. g[b] = Y(i, j)
    BY <1>10, <2>1
  <2> QED
    BY <2>2 DEF b
<1>12. ASSUME NEW b \in 0 .. NumSlots, \A i \in 1 .. m : r(i) => \A j \in 1 .. n(i) : b # B(i, j)
       PROVE  g[b] = f[b]
  <2>1. \A i \in 1 .. m : r(i) => \A j \in l(i) : b # B(i, j)
    BY <1>2, <1>12
  <2>2. CASE \E x \in w : x[1] = b
    <3>1. PICK x \in w : x[1] = b
      BY <2>2
    <3>2. x = <<0, f[0]>>
      BY <1>4, <2>1, <3>1
    <3>3. b = 0 /\ x[2] = f[0]
      BY <3>1, <3>2
    <3> QED
      BY <1>10, <3>1, <3>3
  <2>3. CASE \A x \in w : x[1] # b
    BY <1>10, <2>3
  <2> QED
    BY <2>2, <2>3
<1>13. Written(g, f, ver, win, val)
  BY <1>11, <1>12 DEF Written, m, r, n, l, B, Y
<1> QED
  BY <1>9, <1>13 DEF g, w

\* The copy of "align" mode: the block of the last accepted token goes to column 0.
Aligned(g, f, ver) ==
  /\ Copies => \A i \in 1 .. Len(ver) : ver[i].seq # Pad =>
                 g[Base(ver[i].seq)] = f[WriteBlock(ver[i], ver[i].ok)]
  /\ ~Copies => \A b \in 0 .. NumSlots : g[b] = f[b]
  /\ \A b \in 0 .. NumSlots : (\A i \in 1 .. Len(ver) : ver[i].seq # Pad => b # Base(ver[i].seq)) => g[b] = f[b]

\* The copy keeps the type of a cache and moves the accepted state to column 0.
LEMMA AlignIs ==
  ASSUME IInv, cfg.mode # "plain", NEW pre, NEW ver, MayVerify(ver, pre), NEW V, NEW f, OnBlocks(f, V)
  PROVE  OnBlocks(AlignCopy(f, ver), V) /\ Aligned(AlignCopy(f, ver), f, ver)
<1> DEFINE m == Len(ver)
           r(i) == Copies /\ ver[i].seq # Pad
           B(i) == Base(ver[i].seq)
           X(i) == f[WriteBlock(ver[i], ver[i].ok)]
           w == {<<B(i), X(i)>> : i \in {k \in DOMAIN ver : r(k)}}
           g == Put(f, w)
<1>0. /\ m \in Nat /\ DOMAIN ver = 1 .. m /\ LayoutOK /\ NumSlots \in Nat
      /\ \A i \in 1 .. m : r(i) => Candidates(ver[i])
  BY LenProperties, CcaAssumption DEF MayVerify, IInv
<1>1. ASSUME NEW i \in 1 .. m, r(i) PROVE B(i) \in 0 .. NumSlots /\ X(i) \in V
  <2> DEFINE v == ver[i]
  <2>1. Candidates(v)
    BY <1>0, <1>1
  <2> HIDE DEF v
  <2>2. v.seq \in Seqs /\ tab[v.seq] # <<>> /\ v.ok \in 1 .. v.n
    BY <2>1, CandIs DEF Candidates
  <2>3. Base(v.seq) \in 1 .. NumSlots
    BY <1>0, <2>2, BaseIs
  <2>4. WriteBlock(v, v.ok) \in 1 .. NumSlots
    BY <2>1, <2>2, ColumnIs
  <2>5. \A b \in 1 .. NumSlots : b \in 0 .. NumSlots
    BY <1>0
  <2>6. f[WriteBlock(v, v.ok)] \in V
    BY <2>4, <2>5 DEF OnBlocks
  <2> QED
    BY <2>3, <2>5, <2>6 DEF v
<1>2. ASSUME NEW i \in 1 .. m, r(i), NEW k \in 1 .. m, r(k), B(i) = B(k) PROVE i = k
  <2> DEFINE s == ver[i].seq
             t == ver[k].seq
  <2>1. s \in Seqs /\ tab[s] # <<>> /\ t \in Seqs /\ tab[t] # <<>>
    BY <1>0, <1>2, CandIs DEF Candidates
  <2>2. tab[s][1] = tab[t][1] /\ 1 \in 1 .. Width
    BY <1>0, <1>2, WidthIs DEF Base
  <2>3. s = t
    <3> HIDE DEF s, t
    <3> QED
      BY <1>0, <2>1, <2>2, BlocksAre
  <2> QED
    BY <1>2, <2>3 DEF MayVerify
<1>3. AlignCopy(f, ver) = g
  BY DEF AlignCopy
<1>4. /\ \A x \in w : \E i \in 1 .. m : r(i) /\ x = <<B(i), X(i)>>
      /\ \A i \in 1 .. m : r(i) => <<B(i), X(i)>> \in w
  <2> HIDE DEF B, X, r
  <2> QED
    BY <1>0
<1>40. ASSUME ~Copies PROVE w = {}
  BY <1>40
<1> HIDE DEF w, B, X, m
<1>5. Consistent(w)
  BY <1>2, <1>4 DEF Consistent
<1>6. \A x \in w : x[2] \in V
  BY <1>1, <1>4
<1>7. OnBlocks(g, V)
  BY <1>5, <1>6, PutTyped DEF OnBlocks
<1>8. \A b \in 0 .. NumSlots : (\A x \in w : x[1] = b => g[b] = x[2]) /\ ((\A x \in w : x[1] # b) => g[b] = f[b])
  <2> SUFFICES ASSUME NEW b \in 0 .. NumSlots
               PROVE  (\A x \in w : x[1] = b => g[b] = x[2]) /\ ((\A x \in w : x[1] # b) => g[b] = f[b])
    OBVIOUS
  <2>1. b \in DOMAIN f
    BY DEF OnBlocks
  <2> QED
    BY <1>5, <2>1, PutIs
<1> HIDE DEF g
<1>9. ASSUME NEW i \in 1 .. m, r(i) PROVE g[B(i)] = X(i)
  <2> DEFINE b == B(i)
             x == <<B(i), X(i)>>
  <2>1. x \in w /\ x[1] = b /\ x[2] = X(i) /\ b \in 0 .. NumSlots
    BY <1>1, <1>4, <1>9
  <2> HIDE DEF b, x
  <2>2. g[b] = X(i)
    BY <1>8, <2>1
  <2> QED
    BY <2>2 DEF b
<1>10. ASSUME NEW b \in 0 .. NumSlots, \A i \in 1 .. m : r(i) => b # B(i) PROVE g[b] = f[b]
  <2>1. \A x \in w : x[1] # b
    BY <1>4, <1>10
  <2> QED
    BY <1>8, <2>1
<1>11. ASSUME ~Copies, NEW b \in 0 .. NumSlots PROVE g[b] = f[b]
  <2>1. w = {}
    BY <1>11, <1>40
  <2> QED
    BY <1>8, <2>1
<1>12. Aligned(g, f, ver)
  BY <1>9, <1>10, <1>11 DEF Aligned, B, X, m
<1> QED
  BY <1>3, <1>7, <1>12

\* What the region writes: the winners of its last columns, and the values of the candidates.
CWins(ver) == [i \in 1 .. Len(ver) |-> ver[i].cwin]
HWins(ver) == [i \in 1 .. Len(ver) |-> ver[i].hwin]
States(ver, c1) == [i \in 1 .. Len(ver) |-> [j \in 1 .. ver[i].n |-> Held(ver[i], c1[ReadBlock(ver[i])], j)]]
Cands(ver) == [i \in 1 .. Len(ver) |-> Cand(ver[i])]

\* A row reads tokens, and those of its sequence when it reads the column that is home.
LEMMA SourceIs ==
  ASSUME IInv, NEW pre, MayRun(pre), NEW ver, MayVerify(ver, pre), NEW c1, NEW h1, Staged(c1, h1, pre),
         NEW i \in 1 .. Len(ver), ver[i].seq # Pad
  PROVE  /\ c1[ReadBlock(ver[i])] \in [1 .. TP -> Token] /\ h1[ReadBlock(ver[i])] \in Token
         /\ ver[i].seq \notin lost /\ ReadCol(ver[i]) = home[ver[i].seq] =>
              /\ c1[ReadBlock(ver[i])] = Before(ver[i].seq, len[ver[i].seq])
              /\ h1[ReadBlock(ver[i])] = Tok(ver[i].seq, len[ver[i].seq] - 1)
<1> DEFINE v == ver[i]
           s == ver[i].seq
           a == ReadCol(ver[i]) + 1
<1>1. Candidates(v) /\ \A k \in 1 .. Len(pre) : pre[k].seq # s
  BY DEF MayVerify
<1>2. s \in Seqs /\ tab[s] # <<>> /\ len[s] > 0
  BY <1>1, CandIs DEF Candidates
<1>3. ReadCol(v) \in 0 .. Width - 1 /\ a \in 1 .. Width /\ ReadBlock(v) \in 1 .. NumSlots /\ ReadBlock(v) = tab[s][a]
  BY <1>1, ReadIs DEF ReadBlock
<1>4. ReadBlock(v) \in 0 .. NumSlots
  <2>1. \A b \in 1 .. NumSlots : b \in 0 .. NumSlots
    BY CcaAssumption
  <2> QED
    BY <1>3, <2>1
<1>5. c1[ReadBlock(v)] \in [1 .. TP -> Token] /\ h1[ReadBlock(v)] \in Token
  BY <1>4 DEF Staged
<1>6. ASSUME s \notin lost, ReadCol(v) = home[s]
      PROVE  c1[ReadBlock(v)] = Before(s, len[s]) /\ h1[ReadBlock(v)] = Tok(s, len[s] - 1)
  <2>1. home[s] # -1 /\ home[s] + 1 = a
    BY <1>3, <1>6
  <2>2. conv[tab[s][a]] = Before(s, len[s]) /\ hid[tab[s][a]] = Tok(s, len[s] - 1)
    <3> HIDE DEF s, a
    <3> QED
      BY <1>2, <1>6, <2>1 DEF IInv, CacheOK, CacheFollows, Before
  <2>3. \A x \in Seqs : tab[x] # <<>> /\ (\A k \in 1 .. Len(pre) : pre[k].seq # x) =>
              \A j \in 1 .. Width : c1[tab[x][j]] = conv[tab[x][j]] /\ h1[tab[x][j]] = hid[tab[x][j]]
    BY StagedKeeps
  <2>4. c1[tab[s][a]] = conv[tab[s][a]] /\ h1[tab[s][a]] = hid[tab[s][a]]
    <3> HIDE DEF s, a
    <3> QED
      BY <1>1, <1>2, <1>3, <2>3
  <2> QED
    BY <1>3, <2>2, <2>4
<1> QED
  BY <1>5, <1>6

\* What a verified pass does to the progress of the sequences, and to what is known of their
\* states.
Accepts(L, ver, pre) ==
  /\ \A i \in 1 .. Len(ver) : ver[i].seq # Pad => L[ver[i].seq] = len[ver[i].seq] + ver[i].ok
  /\ \A k \in 1 .. Len(pre) : L[pre[k].seq] = len[pre[k].seq] + pre[k].n
  /\ \A s \in Seqs : (\A i \in 1 .. Len(ver) : ver[i].seq # s) /\ (\A k \in 1 .. Len(pre) : pre[k].seq # s) =>
       L[s] = len[s]
Homes(H, X, ver) ==
  /\ lost \subseteq X
  /\ \A i \in 1 .. Len(ver) : ver[i].seq # Pad =>
       /\ H[ver[i].seq] = Left(ver[i])
       /\ ver[i].seq \in X <=> ver[i].seq \in lost \/ ReadCol(ver[i]) # home[ver[i].seq]
  /\ \A s \in Seqs : (\A i \in 1 .. Len(ver) : ver[i].seq # s) => H[s] = home[s] /\ (s \in X => s \in lost)

\* After a pass the block that is home holds the last tokens again, whatever was rejected.
LEMMA VerifyKeeps ==
  ASSUME IInv, cfg.mode # "plain", NEW pre, MayRun(pre), NEW ver, MayVerify(ver, pre),
         NEW c1, NEW h1, Staged(c1, h1, pre),
         NEW c2, Written(c2, c1, ver, CWins(ver), States(ver, c1)), NEW c3, Aligned(c3, c2, ver),
         NEW h2, Written(h2, h1, ver, HWins(ver), Cands(ver)), NEW h3, Aligned(h3, h2, ver),
         NEW L, Accepts(L, ver, pre), NEW H, NEW X, Homes(H, X, ver)
  PROVE  /\ c3[0] = Zeros /\ h3[0] = Zero
         /\ \A s \in Seqs : s \notin X /\ L[s] > 0 /\ H[s] # -1 =>
              c3[tab[s][H[s] + 1]] = Before(s, L[s]) /\ h3[tab[s][H[s] + 1]] = Tok(s, L[s] - 1)
<1> DEFINE m == Len(ver)
           r(i) == ver[i].seq # Pad
<1>1. /\ LayoutOK /\ ProgressOK /\ NumSlots \in Nat /\ 1 \in 1 .. Width /\ Width \in Nat
      /\ \A s, t \in Seqs : tab[s] # <<>> /\ tab[t] # <<>> =>
              \A a, b \in 1 .. Width : tab[s][a] = tab[t][b] => s = t /\ a = b
      /\ \A s \in Seqs : tab[s] # <<>> => \A a \in 1 .. Width : tab[s][a] \in 1 .. NumSlots
      /\ \A b \in 1 .. NumSlots : b \in 0 .. NumSlots /\ b # 0
  BY WidthIs, BlocksAre, CcaAssumption DEF IInv
<1>2. \A i \in 1 .. m : r(i) => /\ Candidates(ver[i]) /\ ver[i].seq \in Seqs /\ tab[ver[i].seq] # <<>>
                                /\ \A k \in 1 .. Len(pre) : pre[k].seq # ver[i].seq
  BY CandIs DEF MayVerify, Candidates
<1>3. \A i \in 1 .. m : r(i) => \A j \in 1 .. ver[i].n :
        /\ WriteCol(ver[i], j) + 1 \in 1 .. Width /\ WriteBlock(ver[i], j) = tab[ver[i].seq][WriteCol(ver[i], j) + 1]
        /\ WriteBlock(ver[i], j) \in 1 .. NumSlots
  BY <1>2, ColumnIs DEF WriteBlock
<1>4. /\ c1[0] = Zeros /\ h1[0] = Zero
      /\ \A s \in Seqs : tab[s] # <<>> /\ (\A k \in 1 .. Len(pre) : pre[k].seq # s) =>
           \A i \in 1 .. Width : c1[tab[s][i]] = conv[tab[s][i]] /\ h1[tab[s][i]] = hid[tab[s][i]]
  BY StagedKeeps
<1>5. c3[0] = Zeros /\ h3[0] = Zero
  <2>1. 0 \in 0 .. NumSlots /\ \A i \in 1 .. m : r(i) => \A j \in 1 .. ver[i].n : 0 # WriteBlock(ver[i], j)
    BY <1>1, <1>3
  <2>2. \A i \in 1 .. m : r(i) => 0 # Base(ver[i].seq)
    BY <1>1, <1>2 DEF Base
  <2>3. c2[0] = c1[0] /\ h2[0] = h1[0]
    BY <2>1 DEF Written
  <2>4. c3[0] = c2[0] /\ h3[0] = h2[0]
    BY <2>1, <2>2 DEF Aligned
  <2> QED
    BY <1>4, <2>3, <2>4
\* An accepted draft: home is where its last accepted token was written, or copied to.
<1>6. ASSUME NEW i \in 1 .. m, r(i), ver[i].seq \notin X, H[ver[i].seq] # -1
      PROVE  /\ c3[tab[ver[i].seq][H[ver[i].seq] + 1]] = Before(ver[i].seq, L[ver[i].seq])
             /\ h3[tab[ver[i].seq][H[ver[i].seq] + 1]] = Tok(ver[i].seq, L[ver[i].seq] - 1)
  <2> DEFINE v == ver[i]
             s == ver[i].seq
             k == ver[i].ok
             b == WriteBlock(ver[i], ver[i].ok)
             x == c1[ReadBlock(ver[i])]
  <2>1. /\ Candidates(v) /\ k \in Nat /\ k >= 1 /\ k \in 1 .. v.n /\ len[s] \in Nat /\ s \in Seqs /\ tab[s] # <<>>
        /\ L[s] = len[s] + k /\ s \notin lost /\ ReadCol(v) = home[s] /\ H[s] = Left(v) /\ Left(v) # -1
    BY <1>2, <1>6, CandIs DEF Accepts, Homes
  <2>2. x = Before(s, len[s]) /\ x \in [1 .. TP -> Token]
    BY <1>6, <2>1, SourceIs
  <2>3. /\ k \in Lands(v, v.cwin) /\ k \in Lands(v, v.hwin)
        /\ Copies => Left(v) = 0
        /\ ~Copies => Left(v) = WriteCol(v, k)
    BY <2>1, LandsIs
  <2>4. c2[b] = Held(v, x, k) /\ h2[b] = Cand(v)[k]
    <3>1. CWins(ver)[i] = v.cwin /\ HWins(ver)[i] = v.hwin /\ States(ver, c1)[i][k] = Held(v, x, k)
          /\ Cands(ver)[i] = Cand(v)
      BY <2>1 DEF CWins, HWins, States, Cands
    <3>2. \A j \in Lands(v, CWins(ver)[i]) : c2[WriteBlock(v, j)] = States(ver, c1)[i][j]
      BY <1>6 DEF Written
    <3>3. \A j \in Lands(v, HWins(ver)[i]) : h2[WriteBlock(v, j)] = Cands(ver)[i][j]
      BY <1>6 DEF Written
    <3> QED
      BY <2>3, <3>1, <3>2, <3>3
  <2>5. Held(v, x, k) = Before(s, len[s] + k) /\ Cand(v)[k] = Tok(s, len[s] + k - 1)
    <3>1. k <= v.ok /\ s = v.seq
      BY <2>1
    <3> HIDE DEF v, s, k, x
    <3>2. Held(v, x, k) = Before(s, len[s] + k)
      BY <2>1, <2>2, <3>1, HeldIs
    <3>3. Cand(v)[k] = Tok(s, len[s] + k - 1)
      BY <2>1, <3>1, CandIs
    <3> QED
      BY <3>2, <3>3
  <2>6. c3[tab[s][H[s] + 1]] = c2[b] /\ h3[tab[s][H[s] + 1]] = h2[b]
    <3>1. CASE Copies
      <4>1. H[s] + 1 = 1
        BY <2>1, <2>3, <3>1
      <4>2. tab[s][H[s] + 1] = Base(s)
        BY <4>1 DEF Base
      <4> QED
        BY <1>6, <3>1, <4>2 DEF Aligned
    <3>2. CASE ~Copies
      <4>1. tab[s][H[s] + 1] = b
        BY <2>1, <2>3, <3>2 DEF WriteBlock
      <4>2. b \in 0 .. NumSlots
        BY <1>1, <1>3, <1>6, <2>1
      <4> QED
        BY <3>2, <4>1, <4>2 DEF Aligned
    <3> QED
      BY <3>1, <3>2
  <2>7. len[s] + k - 1 = (len[s] + k) - 1
    BY <2>1
  <2> HIDE DEF v, k, b, x
  <2>8. c3[tab[s][H[s] + 1]] = Before(s, L[s]) /\ h3[tab[s][H[s] + 1]] = Tok(s, L[s] - 1)
    BY <2>1, <2>4, <2>5, <2>6, <2>7
  <2> QED
    BY <2>8
\* Blocks of a sequence that is not verified are as the prefill has left them.
<1>7. ASSUME NEW s \in Seqs, tab[s] # <<>>, \A i \in 1 .. m : ver[i].seq # s, NEW a \in 1 .. Width
      PROVE  c3[tab[s][a]] = c1[tab[s][a]] /\ h3[tab[s][a]] = h1[tab[s][a]]
  <2> DEFINE b == tab[s][a]
  <2>1. b \in 0 .. NumSlots
    BY <1>1, <1>7
  <2>2. \A i \in 1 .. m : r(i) => \A j \in 1 .. ver[i].n : b # WriteBlock(ver[i], j)
    <3> SUFFICES ASSUME NEW i \in 1 .. m, r(i), NEW j \in 1 .. ver[i].n, b = WriteBlock(ver[i], j) PROVE FALSE
      OBVIOUS
    <3>1. /\ WriteCol(ver[i], j) + 1 \in 1 .. Width /\ tab[ver[i].seq][WriteCol(ver[i], j) + 1] = tab[s][a]
          /\ ver[i].seq \in Seqs /\ tab[ver[i].seq] # <<>>
      BY <1>2, <1>3
    <3>2. ver[i].seq = s
      BY <1>1, <1>7, <3>1
    <3> QED
      BY <1>7, <3>2
  <2>3. \A i \in 1 .. m : r(i) => b # Base(ver[i].seq)
    BY <1>1, <1>2, <1>7 DEF Base
  <2> HIDE DEF b
  <2>4. c2[b] = c1[b] /\ h2[b] = h1[b]
    BY <2>1, <2>2 DEF Written
  <2>5. c3[b] = c2[b] /\ h3[b] = h2[b]
    BY <2>1, <2>3 DEF Aligned
  <2> QED
    BY <2>4, <2>5 DEF b
<1>8. ASSUME NEW s \in Seqs, \A i \in 1 .. m : ver[i].seq # s, s \notin X, L[s] > 0, H[s] # -1
      PROVE  c3[tab[s][H[s] + 1]] = Before(s, L[s]) /\ h3[tab[s][H[s] + 1]] = Tok(s, L[s] - 1)
  <2>1. H[s] = home[s] /\ s \notin lost /\ home[s] \in -1 .. Width - 1 /\ (acc[s] = 0 => home[s] = 0)
    BY <1>8 DEF Homes, IInv, RollOK
  <2>2. home[s] + 1 \in 1 .. Width
    BY <1>1, <1>8, <2>1
  <2>3. tab[s] # <<>>
    <3>1. CASE \E k \in 1 .. Len(pre) : pre[k].seq = s
      BY <3>1 DEF MayRun
    <3>2. CASE \A k \in 1 .. Len(pre) : pre[k].seq # s
      <4>1. L[s] = len[s]
        BY <1>8, <3>2 DEF Accepts
      <4> QED
        BY <1>1, <1>8, <4>1 DEF ProgressOK
    <3> QED
      BY <3>1, <3>2
  <2> DEFINE b == tab[s][home[s] + 1]
  <2>4. c3[b] = c1[b] /\ h3[b] = h1[b]
    <3> DEFINE a == home[s] + 1
    <3> HIDE DEF a
    <3>1. c3[tab[s][a]] = c1[tab[s][a]] /\ h3[tab[s][a]] = h1[tab[s][a]]
      BY <1>7, <1>8, <2>2, <2>3 DEF a
    <3> QED
      BY <3>1 DEF a
  <2>5. CASE \E k \in 1 .. Len(pre) : pre[k].seq = s
    <3>1. PICK k \in 1 .. Len(pre) : pre[k].seq = s
      BY <2>5
    <3>2. c1[Base(s)] = Before(s, len[s] + pre[k].n) /\ h1[Base(s)] = Tok(s, len[s] + pre[k].n - 1)
      BY <3>1 DEF Staged
    <3>3. L[s] = len[s] + pre[k].n
      BY <3>1 DEF Accepts
    <3>4. len[s] \in Int /\ pre[k].n \in Int
      BY <1>1, ChunkTypes DEF ProgressOK, MayRun
    <3>5. len[s] + pre[k].n - 1 = (len[s] + pre[k].n) - 1
      BY <3>4
    <3>6. home[s] = 0
      BY <2>1, <3>1 DEF MayRun
    <3>7. b = Base(s)
      BY <3>6 DEF Base
    <3> HIDE DEF b
    <3> QED
      BY <2>1, <2>4, <3>2, <3>3, <3>5, <3>7 DEF b
  <2>6. CASE \A k \in 1 .. Len(pre) : pre[k].seq # s
    <3>1. L[s] = len[s]
      BY <1>8, <2>6 DEF Accepts
    <3>2. c1[b] = conv[b] /\ h1[b] = hid[b]
      <4> DEFINE a == home[s] + 1
      <4> HIDE DEF a
      <4>1. c1[tab[s][a]] = conv[tab[s][a]] /\ h1[tab[s][a]] = hid[tab[s][a]]
        BY <1>4, <2>2, <2>3, <2>6 DEF a
      <4> QED
        BY <4>1 DEF a
    <3>3. conv[b] = Before(s, len[s]) /\ hid[b] = Tok(s, len[s] - 1)
      BY <1>8, <2>1, <3>1 DEF IInv, CacheOK, CacheFollows, Before
    <3> HIDE DEF b
    <3> QED
      BY <2>1, <2>4, <3>1, <3>2, <3>3 DEF b
  <2> QED
    BY <2>5, <2>6
<1>9. ASSUME NEW s \in Seqs, s \notin X, L[s] > 0, H[s] # -1
      PROVE  c3[tab[s][H[s] + 1]] = Before(s, L[s]) /\ h3[tab[s][H[s] + 1]] = Tok(s, L[s] - 1)
  <2>1. CASE \E i \in 1 .. m : ver[i].seq = s
    <3>1. PICK i \in 1 .. m : ver[i].seq = s
      BY <2>1
    <3>2. r(i)
      BY <3>1, CcaAssumption
    <3> HIDE DEF r
    <3> QED
      BY <1>6, <1>9, <3>1, <3>2
  <2>2. CASE \A i \in 1 .. m : ver[i].seq # s
    BY <1>8, <1>9, <2>2
  <2> QED
    BY <2>1, <2>2
<1> QED
  BY <1>5, <1>9

-----------------------------------------------------------------------------
\* What a verified pass does to the progress.

\* The row of a sequence that is verified.
LEMMA RowOfIs ==
  ASSUME NEW pre, NEW ver, MayVerify(ver, pre)
  PROVE  /\ \A i \in 1 .. Len(ver) : ver[i].seq # Pad => ver[i].seq \in Verified(ver) /\ RowOf(ver, ver[i].seq) = ver[i]
         /\ \A s \in Seqs : s \in Verified(ver) <=> \E i \in 1 .. Len(ver) : ver[i].seq = s
         /\ Verified(ver) \subseteq Seqs
<1>1. DOMAIN ver = 1 .. Len(ver) /\ \A i \in 1 .. Len(ver) : ver[i].seq \in Seqs \cup {Pad}
  <2>1. DOMAIN ver = 1 .. Len(ver)
    BY LenProperties DEF MayVerify
  <2>2. \A i \in 1 .. Len(ver) : ver[i] \in [seq : Seqs \cup {Pad}, n : 1 .. P, ok : 1 .. P, col : 0 .. MaxBlock, cwin : 1 .. P, hwin : 1 .. P]
    BY ElementOfSeq DEF MayVerify
  <2> QED
    BY <2>1, <2>2
<1>2. Range(ver) = {ver[i] : i \in 1 .. Len(ver)}
  BY <1>1 DEF Range
<1>3. \A s : s \in Verified(ver) <=> s # Pad /\ \E i \in 1 .. Len(ver) : ver[i].seq = s
  BY <1>2 DEF Verified
<1>4. ASSUME NEW i \in 1 .. Len(ver), ver[i].seq # Pad PROVE RowOf(ver, ver[i].seq) = ver[i]
  <2> DEFINE s == ver[i].seq
             v == RowOf(ver, s)
  <2>1. ver[i] \in Range(ver) /\ ver[i].seq = s
    BY <1>2
  <2>2. v \in Range(ver) /\ v.seq = s
    BY <2>1 DEF RowOf
  <2> HIDE DEF v, s
  <2>3. PICK k \in 1 .. Len(ver) : v = ver[k]
    BY <1>2, <2>2
  <2>4. k = i
    BY <1>4, <2>1, <2>2, <2>3 DEF MayVerify
  <2> QED
    BY <2>3, <2>4 DEF v, s
<1>5. \A s \in Seqs : s # Pad
  BY CcaAssumption
<1>6. Verified(ver) \subseteq Seqs
  BY <1>1, <1>3
<1> QED
  BY <1>3, <1>4, <1>5, <1>6

\* What a verified pass assigns to the progress.
Progressed(ver, pre) ==
  /\ len' = [s \in Seqs |-> len[s] + PrefillCount(pre, s) + IF s \in Verified(ver) THEN RowOf(ver, s).ok ELSE 0]
  /\ sched' = [s \in Seqs |-> IF cfg.mode = "all" /\ s \in Verified(ver) THEN RowOf(ver, s).col ELSE sched[s]]
  /\ acc' = [s \in Seqs |-> IF s \in Verified(ver) THEN RowOf(ver, s).ok ELSE acc[s]]
  /\ home' = [s \in Seqs |-> IF s \in Verified(ver) THEN Left(RowOf(ver, s)) ELSE home[s]]
  /\ lost' = lost \cup {s \in Verified(ver) : ReadCol(RowOf(ver, s)) # home[s]}
  /\ UNCHANGED <<cfg, tab>>

\* Sequences advance by what is accepted, and what is known of their states follows.
LEMMA VerifyCounts ==
  ASSUME IInv, cfg.mode # "plain", NEW pre, MayRun(pre), NEW ver, MayVerify(ver, pre), Progressed(ver, pre)
  PROVE  Accepts(len', ver, pre) /\ Homes(home', lost', ver) /\ Advances /\ ProgressOK' /\ RollOK'
<1> DEFINE m == Len(ver)
           V == Verified(ver)
           F(s) == PrefillCount(pre, s)
<1>1. /\ len \in [Seqs -> Nat] /\ IsChunks(pre) /\ MaxLen \in Nat /\ MaxBlock \in Nat /\ P \in Nat /\ Width \in Nat
      /\ Width >= 1
      /\ \A s \in Seqs : /\ len[s] \in Nat /\ len[s] <= MaxLen /\ (len[s] > 0 => tab[s] # <<>>)
                         /\ sched[s] \in 0 .. MaxBlock /\ acc[s] \in 0 .. P
                         /\ (cfg.mode # "all" \/ (acc[s] = 0 /\ cfg.keeps) => sched[s] = 0)
      /\ \A k \in 1 .. Len(pre) : pre[k].seq \in Seqs /\ pre[k].n \in Nat /\ pre[k].n >= 1
  <2>1. MaxLen \in Nat /\ MaxBlock \in Nat /\ len \in [Seqs -> 0 .. MaxLen]
    BY CcaAssumption DEF IInv, ProgressOK
  <2>2. IsChunks(pre)
    BY DEF MayRun
  <2>3. \A s \in Seqs : /\ len[s] > 0 => tab[s] # <<>>
                        /\ sched[s] \in 0 .. MaxBlock /\ acc[s] \in 0 .. P
                        /\ (cfg.mode # "all" \/ (acc[s] = 0 /\ cfg.keeps) => sched[s] = 0)
    BY DEF IInv, ProgressOK
  <2>4. P \in Nat /\ Width \in Nat /\ Width >= 1
    BY WidthIs DEF IInv
  <2> QED
    BY <2>1, <2>2, <2>3, <2>4, ChunkTypes
<1>2. ASSUME NEW i \in 1 .. m, ver[i].seq # Pad
      PROVE  /\ ver[i].seq \in Seqs /\ ver[i].ok \in 1 .. P /\ ver[i].col \in 0 .. MaxBlock
             /\ ver[i].ok \in Nat /\ ver[i].ok >= 1 /\ len[ver[i].seq] + ver[i].ok <= MaxLen
             /\ tab[ver[i].seq] # <<>> /\ Candidates(ver[i])
             /\ \A k \in 1 .. Len(pre) : pre[k].seq # ver[i].seq
  <2>1. Candidates(ver[i]) /\ \A k \in 1 .. Len(pre) : pre[k].seq # ver[i].seq
    BY <1>2 DEF MayVerify
  <2> DEFINE v == ver[i]
  <2> HIDE DEF v
  <2>2. Candidates(v)
    BY <2>1 DEF v
  <2>3. /\ v.seq \in Seqs /\ v.ok \in Nat /\ v.ok >= 1 /\ v.ok <= v.n /\ v.n <= P /\ v.n \in Nat
        /\ v.col \in 0 .. MaxBlock /\ len[v.seq] \in Nat
    BY <2>2, CandIs
  <2>4. tab[v.seq] # <<>> /\ len[v.seq] + v.n <= MaxLen
    BY <2>2 DEF Candidates
  <2>5. v.ok \in 1 .. P /\ len[v.seq] + v.ok <= MaxLen
    BY <1>1, <2>3, <2>4
  <2> QED
    BY <2>1, <2>3, <2>4, <2>5 DEF v
<1>3. /\ \A i \in 1 .. m : ver[i].seq # Pad => ver[i].seq \in V /\ RowOf(ver, ver[i].seq) = ver[i]
      /\ \A s \in Seqs : s \in V <=> \E i \in 1 .. m : ver[i].seq = s
      /\ V \subseteq Seqs /\ \A s \in Seqs : s # Pad
  BY RowOfIs, CcaAssumption
<1>4. /\ \A s \in Seqs : len'[s] = len[s] + F(s) + IF s \in V THEN RowOf(ver, s).ok ELSE 0
      /\ \A s \in Seqs : sched'[s] = IF cfg.mode = "all" /\ s \in V THEN RowOf(ver, s).col ELSE sched[s]
      /\ \A s \in Seqs : acc'[s] = IF s \in V THEN RowOf(ver, s).ok ELSE acc[s]
      /\ \A s \in Seqs : home'[s] = IF s \in V THEN Left(RowOf(ver, s)) ELSE home[s]
      /\ lost' = lost \cup {s \in V : ReadCol(RowOf(ver, s)) # home[s]}
      /\ cfg' = cfg /\ tab' = tab
      /\ len' = [s \in Seqs |-> len'[s]] /\ sched' = [s \in Seqs |-> sched'[s]] /\ acc' = [s \in Seqs |-> acc'[s]]
      /\ home' = [s \in Seqs |-> home'[s]]
  BY DEF Progressed
<1>5. \A s \in Seqs : /\ \A k \in 1 .. Len(pre) : pre[k].seq = s => F(s) = pre[k].n
                      /\ (\A k \in 1 .. Len(pre) : pre[k].seq # s) => F(s) = 0
  BY <1>1, CountIs
<1> HIDE DEF V, F
<1>6. ASSUME NEW i \in 1 .. m, ver[i].seq # Pad PROVE len'[ver[i].seq] = len[ver[i].seq] + ver[i].ok
  <2> DEFINE s == ver[i].seq
  <2>1. s \in Seqs /\ s \in V /\ len[s] \in Nat /\ F(s) = 0 /\ RowOf(ver, s) = ver[i] /\ ver[i].ok \in Nat
    BY <1>1, <1>2, <1>3, <1>5, <1>6
  <2> HIDE DEF s
  <2>2. len'[s] = len[s] + F(s) + ver[i].ok
    BY <1>4, <2>1
  <2>3. len'[s] = len[s] + ver[i].ok
    BY <2>1, <2>2
  <2> QED
    BY <2>3 DEF s
<1>7. ASSUME NEW k \in 1 .. Len(pre) PROVE len'[pre[k].seq] = len[pre[k].seq] + pre[k].n
  <2> DEFINE s == pre[k].seq
  <2>1. s \in Seqs /\ len[s] \in Nat /\ F(s) = pre[k].n /\ pre[k].n \in Nat
    BY <1>1, <1>5
  <2>2. s \notin V
    BY <1>2, <1>3, <2>1
  <2> HIDE DEF s
  <2>3. len'[s] = len[s] + F(s) + 0
    BY <1>4, <2>1, <2>2
  <2>4. len'[s] = len[s] + pre[k].n
    BY <2>1, <2>3
  <2> QED
    BY <2>4 DEF s
<1>8. ASSUME NEW s \in Seqs, \A i \in 1 .. m : ver[i].seq # s, \A k \in 1 .. Len(pre) : pre[k].seq # s
       PROVE  len'[s] = len[s]
  <2>1. len[s] \in Nat /\ F(s) = 0 /\ s \notin V
    BY <1>1, <1>3, <1>5, <1>8
  <2>2. len'[s] = len[s] + F(s) + 0
    BY <1>4, <2>1
  <2> QED
    BY <2>1, <2>2
<1>9. Accepts(len', ver, pre)
  <2> DEFINE L == len'
  <2> HIDE DEF L
  <2>1. Accepts(L, ver, pre)
    BY <1>6, <1>7, <1>8 DEF Accepts, L
  <2> QED
    BY <2>1 DEF L
<1>10. ASSUME NEW i \in 1 .. m, ver[i].seq # Pad
       PROVE  /\ home'[ver[i].seq] = Left(ver[i]) /\ acc'[ver[i].seq] = ver[i].ok
              /\ sched'[ver[i].seq] = (IF cfg.mode = "all" THEN ver[i].col ELSE sched[ver[i].seq])
              /\ ver[i].seq \in lost' <=> ver[i].seq \in lost \/ ReadCol(ver[i]) # home[ver[i].seq]
  <2>1. ver[i].seq \in Seqs /\ ver[i].seq \in V /\ RowOf(ver, ver[i].seq) = ver[i]
    BY <1>2, <1>3, <1>10
  <2> QED
    BY <1>4, <2>1
<1>11. ASSUME NEW s \in Seqs, \A i \in 1 .. m : ver[i].seq # s
       PROVE  home'[s] = home[s] /\ (s \in lost' => s \in lost) /\ acc'[s] = acc[s] /\ sched'[s] = sched[s]
  <2>1. s \notin V
    BY <1>3, <1>11
  <2> QED
    BY <1>4, <2>1
<1>12. Homes(home', lost', ver)
  <2> DEFINE H == home'
             X == lost'
  <2>1. lost \subseteq X
    BY <1>4
  <2> HIDE DEF H, X
  <2>2. Homes(H, X, ver)
    BY <1>10, <1>11, <2>1 DEF Homes, H, X
  <2> QED
    BY <2>2 DEF H, X
<1>13. ASSUME NEW s \in Seqs
       PROVE  /\ len'[s] \in 0 .. MaxLen /\ len'[s] >= len[s] /\ (len'[s] > 0 => tab[s] # <<>>)
              /\ sched'[s] \in 0 .. MaxBlock /\ acc'[s] \in 0 .. P /\ (tab[s] = <<>> => acc'[s] = 0)
              /\ (cfg.mode # "all" \/ (acc'[s] = 0 /\ cfg.keeps) => sched'[s] = 0)
  <2>0. len[s] \in Nat /\ MaxLen \in Nat
    BY <1>1
  <2>1. CASE \E i \in 1 .. m : ver[i].seq = s
    <3>1. PICK i \in 1 .. m : ver[i].seq = s /\ ver[i].seq # Pad
      BY <1>3, <2>1
    <3>2. PICK y \in 1 .. P : y = ver[i].ok
      BY <1>2, <3>1
    <3>3. len'[s] = len[s] + y /\ len[s] + y <= MaxLen /\ tab[s] # <<>>
      BY <1>2, <1>6, <3>1, <3>2
    <3>4. acc'[s] = y /\ sched'[s] = (IF cfg.mode = "all" THEN ver[i].col ELSE sched[s]) /\ ver[i].col \in 0 .. MaxBlock
      BY <1>2, <1>10, <3>1, <3>2
    <3>5. len'[s] \in 0 .. MaxLen /\ len'[s] >= len[s] /\ acc'[s] \in 0 .. P /\ acc'[s] # 0
      BY <1>1, <2>0, <3>3, <3>4
    <3>6. sched'[s] \in 0 .. MaxBlock /\ (cfg.mode # "all" \/ (acc'[s] = 0 /\ cfg.keeps) => sched'[s] = 0)
      BY <1>1, <3>4, <3>5
    <3> QED
      BY <3>3, <3>5, <3>6
  <2>2. CASE \A i \in 1 .. m : ver[i].seq # s
    <3>1. sched'[s] = sched[s] /\ acc'[s] = acc[s]
      BY <1>11, <2>2
    <3>4. tab[s] = <<>> => acc'[s] = 0
      BY <3>1 DEF IInv, ProgressOK
    <3>2. sched'[s] \in 0 .. MaxBlock /\ acc'[s] \in 0 .. P /\ (cfg.mode # "all" \/ (acc'[s] = 0 /\ cfg.keeps) => sched'[s] = 0)
      BY <1>1, <3>1
    <3>3. len'[s] \in 0 .. MaxLen /\ len'[s] >= len[s] /\ (len'[s] > 0 => tab[s] # <<>>)
      <4>1. CASE \E k \in 1 .. Len(pre) : pre[k].seq = s
        <5>1. PICK k \in 1 .. Len(pre) : pre[k].seq = s
          BY <4>1
        <5>2. PICK y \in Nat : y = pre[k].n
          BY <1>1
        <5>3. len'[s] = len[s] + y /\ len[s] + y <= MaxLen /\ tab[s] # <<>>
          BY <1>7, <5>1, <5>2 DEF MayRun
        <5> QED
          BY <2>0, <5>3
      <4>2. CASE \A k \in 1 .. Len(pre) : pre[k].seq # s
        <5>1. len'[s] = len[s]
          BY <1>8, <2>2, <4>2
        <5>2. len[s] \in Nat /\ len[s] <= MaxLen /\ (len[s] > 0 => tab[s] # <<>>)
          BY <1>1
        <5> QED
          BY <2>0, <5>1, <5>2
      <4> QED
        BY <4>1, <4>2
    <3> QED
      BY <3>2, <3>3, <3>4
  <2> QED
    BY <2>1, <2>2
<1>14. len' \in [Seqs -> 0 .. MaxLen] /\ sched' \in [Seqs -> 0 .. MaxBlock] /\ acc' \in [Seqs -> 0 .. P]
  <2> DEFINE LL == len'
             SS == sched'
             AA == acc'
  <2> HIDE DEF LL, SS, AA
  <2>1. LL \in [Seqs -> 0 .. MaxLen]
    BY <1>4, <1>13 DEF LL
  <2>2. SS \in [Seqs -> 0 .. MaxBlock]
    BY <1>4, <1>13 DEF SS
  <2>3. AA \in [Seqs -> 0 .. P]
    BY <1>4, <1>13 DEF AA
  <2> QED
    BY <2>1, <2>2, <2>3 DEF LL, SS, AA
<1>15. Advances
  BY <1>4, <1>13, <1>14 DEF Advances
<1>16. ProgressOK'
  BY <1>4, <1>13, <1>14 DEF ProgressOK, P
\* Where the engine does its part, a row reads the column that is home.
<1>17. ASSUME NEW s \in Seqs
       PROVE  /\ home'[s] \in -1 .. Width - 1
              /\ acc'[s] = 0 => home'[s] = 0 /\ s \notin lost'
              /\ cfg.keeps => s \notin lost'
              /\ cfg.keeps /\ cfg.mode # "all" => home'[s] = 0
              /\ cfg.keeps /\ cfg.mode = "all" => home'[s] = sched'[s] + AtLeast(acc'[s], 1) - 1
  <2>0. /\ home[s] \in -1 .. Width - 1 /\ (acc[s] = 0 => home[s] = 0 /\ s \notin lost)
        /\ cfg.keeps => lost = {}
        /\ cfg.keeps /\ cfg.mode # "all" => home[s] = 0
        /\ cfg.keeps /\ cfg.mode = "all" => home[s] = sched[s] + AtLeast(acc[s], 1) - 1
    BY DEF IInv, RollOK
  <2>1. CASE \E i \in 1 .. m : ver[i].seq = s
    <3>1. PICK i \in 1 .. m : ver[i].seq = s /\ ver[i].seq # Pad
      BY <1>3, <2>1
    <3> DEFINE v == ver[i]
    <3>2. Candidates(v) /\ v.ok \in Nat /\ v.ok >= 1 /\ v.seq = s /\ v.cwin \in {v.cwin, v.hwin}
      BY <1>2, <3>1
    <3>3. /\ home'[s] = Left(v) /\ acc'[s] = v.ok /\ sched'[s] = (IF cfg.mode = "all" THEN v.col ELSE sched[s])
          /\ s \in lost' <=> s \in lost \/ ReadCol(v) # home[s]
      BY <1>10, <3>1
    <3> HIDE DEF v
    <3>4. /\ Left(v) \in -1 .. Width - 1 /\ (Copies => Left(v) = 0)
          /\ (cfg.mode = "all" => Left(v) = v.col + v.ok - 1)
      BY <3>2, LandsIs
    <3>5. cfg.keeps => ReadCol(v) = home[s]
      BY <3>2, ReadIs
    <3>6. cfg.keeps /\ cfg.mode # "all" => Copies
      <4>1. cfg.mode \in {"plain", "align", "computed", "all"} /\ (cfg.mode = "computed" => ~cfg.keeps)
        BY WidthIs DEF IInv, LayoutOK
      <4> QED
        BY <4>1 DEF Copies
    <3>7. AtLeast(acc'[s], 1) = v.ok
      BY <3>2, <3>3 DEF AtLeast
    <3> QED
      BY <2>0, <3>2, <3>3, <3>4, <3>5, <3>6, <3>7
  <2>2. CASE \A i \in 1 .. m : ver[i].seq # s
    BY <1>11, <2>0, <2>2
  <2> QED
    BY <2>1, <2>2
<1>18. lost' \subseteq Seqs /\ (cfg.keeps => lost' = {})
  <2>1. lost' \subseteq Seqs
    BY <1>3, <1>4 DEF IInv, RollOK
  <2> QED
    BY <1>17, <2>1
<1>19. home' \in [Seqs -> -1 .. Width - 1]
  <2> DEFINE H == home'
  <2> HIDE DEF H
  <2>1. H \in [Seqs -> -1 .. Width - 1]
    BY <1>4, <1>17 DEF H
  <2> QED
    BY <2>1 DEF H
<1>20. Width' = Width
  BY <1>4 DEF Width, P
<1>21. RollOK'
  BY <1>4, <1>17, <1>18, <1>19, <1>20 DEF RollOK
<1> QED
  BY <1>9, <1>12, <1>15, <1>16, <1>21

-----------------------------------------------------------------------------
\* The rows of a verified region.

\* Tokens that rows hold, and windows of them.
Tokens1 == Token \cup {Junk}
Windows == [1 .. TP + 1 -> Tokens1]

\* A region has rows of at least one candidate each; each is computed as its row says.
IsRegion(d, ver, c1) ==
  \A i \in 1 .. Len(ver) :
    /\ d[i].win \in Seq(Windows) /\ Len(d[i].win) = ver[i].n
    /\ ver[i].seq # Pad => IsVerified(d[i], ver[i], c1[ReadBlock(ver[i])])

\* The candidates of all rows, and the region as a list of parts.
LEMMA RegionIs ==
  ASSUME IInv, NEW pre, NEW ver, MayVerify(ver, pre)
  PROVE  /\ IsSized(ver) /\ Len(ver) \in Nat /\ DOMAIN ver = 1 .. Len(ver)
         /\ \A i \in 1 .. Len(ver) :
              /\ ver[i].n \in Nat /\ ver[i].n >= 1 /\ ver[i].n \in 1 .. P
              /\ Cand(ver[i]) \in Seq(Tokens1) /\ Len(Cand(ver[i])) = ver[i].n
              /\ ver[i].seq = Pad => Cand(ver[i]) = [j \in 1 .. ver[i].n |-> Junk]
<1>1. Len(ver) \in Nat /\ DOMAIN ver = 1 .. Len(ver)
  BY LenProperties DEF MayVerify
<1>2. \A i \in 1 .. Len(ver) : ver[i].n \in 1 .. P
  <2>1. \A i \in 1 .. Len(ver) : ver[i] \in [seq : Seqs \cup {Pad}, n : 1 .. P, ok : 1 .. P, col : 0 .. MaxBlock, cwin : 1 .. P, hwin : 1 .. P]
    BY ElementOfSeq DEF MayVerify
  <2> QED
    BY <2>1
<1>3. P \in Nat
  BY CcaAssumption DEF P
<1>4. \A i \in 1 .. Len(ver) : ver[i].n \in Nat /\ ver[i].n >= 1
  BY <1>2, <1>3
<1>5. IsSized(ver)
  BY <1>1, <1>4 DEF IsSized
<1>6. ASSUME NEW i \in 1 .. Len(ver)
      PROVE  /\ Cand(ver[i]) \in Seq(Tokens1) /\ Len(Cand(ver[i])) = ver[i].n
             /\ ver[i].seq = Pad => Cand(ver[i]) = [j \in 1 .. ver[i].n |-> Junk]
  <2> DEFINE v == ver[i]
  <2>1. CASE v.seq = Pad
    <3>1. Cand(v) = [j \in 1 .. v.n |-> Junk] /\ v.n \in Nat /\ Junk \in Tokens1
      BY <1>4, <2>1 DEF Cand, Tokens1
    <3> HIDE DEF v
    <3>2. Cand(v) \in Seq(Tokens1) /\ Len(Cand(v)) = v.n
      BY <3>1
    <3> QED
      BY <3>1, <3>2 DEF v
  <2>2. CASE v.seq # Pad
    <3>1. Candidates(v)
      BY <2>2 DEF MayVerify
    <3>2. Cand(v) \in Seq(Token) /\ Len(Cand(v)) = v.n
      BY <3>1, CandIs
    <3>3. Seq(Token) \subseteq Seq(Tokens1)
      <4>1. Token \subseteq Tokens1
        BY DEF Tokens1
      <4> QED
        BY <4>1
    <3> QED
      BY <2>2, <3>2, <3>3
  <2> QED
    BY <2>1, <2>2
<1> QED
  BY <1>1, <1>2, <1>4, <1>5, <1>6

\* The accepted rows of X are not to be trusted; the others are typed and not accepted.
IsDraftRow(x, X) == RowOK(x) /\ x.tok # Zero /\ (x.tok[3] => x.tok[1] \in X)

\* R answers exactly the accepted candidates of the sequences of ver that are not in X,
\* beside rows of rejected ones and of padding.
VerAnswers(R, n, ver, X) ==
  /\ n \in Nat /\ R = [t \in 1 .. n |-> R[t]]
  /\ \A t \in 1 .. n : \/ IsDraftRow(R[t], X)
                       \/ \E k \in 1 .. Len(ver) : ver[k].seq # Pad /\
                            \E i \in len[ver[k].seq] .. len[ver[k].seq] + ver[k].ok - 1 :
                              R[t] = Exact!Answer(ver[k].seq, i)
  /\ \A k \in 1 .. Len(ver) : ver[k].seq # Pad /\ ver[k].seq \notin X =>
       \A i \in len[ver[k].seq] .. len[ver[k].seq] + ver[k].ok - 1 : \E t \in 1 .. n : R[t] = Exact!Answer(ver[k].seq, i)

\* The streams of a region that is verified, laid end to end.
VerWins(d, ver) == FlattenSeq([i \in DOMAIN ver |-> d[i].win])
\* The hidden state before each row.
Seeds(ver, hs) == [i \in DOMAIN ver |-> IF ver[i].seq = Pad THEN Zero ELSE hs[ReadBlock(ver[i])]]
\* The rows of the region.
VerRows(d, ver, hs) ==
  [t \in DOMAIN VerWins(d, ver) |->
     [tok |-> VerifyHid(ver, hs).toks[t], win |-> VerWins(d, ver)[t], hs2 |-> VerifyHid(ver, hs).hs2[t]]]

\* The windows and the candidates lie at the same places.
LEMMA VerLaid ==
  ASSUME IInv, NEW pre, NEW ver, MayVerify(ver, pre), NEW c1, NEW d, IsRegion(d, ver, c1), NEW hs
  PROVE  /\ Laid(VerWins(d, ver), [i \in 1 .. Len(ver) |-> d[i].win], Windows, ver)
         /\ Laid(VerifyHid(ver, hs).toks, Cands(ver), Tokens1, ver)
         /\ IsShifted(VerifyHid(ver, hs).hs2, VerifyHid(ver, hs).toks, Seeds(ver, hs), ver)
<1> DEFINE m == Len(ver)
           wp == [i \in 1 .. m |-> d[i].win]
           tp == Cands(ver)
           rq == Req(ver)
           seed == Seeds(ver, hs)
           T == VerifyHid(ver, hs).toks
<1>1. IsSized(ver) /\ m \in Nat /\ DOMAIN ver = 1 .. m
  BY RegionIs
<1>2. VerWins(d, ver) = FlattenSeq(wp)
  BY <1>1 DEF VerWins
<1>3. T = FlattenSeq(tp)
  BY <1>1 DEF VerifyHid, Cands
<1>4. VerifyHid(ver, hs).hs2 = Shifted(T, rq, seed)
  BY DEF VerifyHid, Req, Seeds
<1>5. wp \in [1 .. m -> Seq(Windows)] /\ \A i \in 1 .. m : Len(wp[i]) = ver[i].n
  BY DEF IsRegion
<1>6. tp \in [1 .. m -> Seq(Tokens1)] /\ \A i \in 1 .. m : Len(tp[i]) = ver[i].n
  BY RegionIs DEF Cands
<1> HIDE DEF wp, tp, rq, seed, T
<1>7. Laid(FlattenSeq(wp), wp, Windows, ver)
  BY <1>1, <1>5, LaidIs
<1>8. Laid(FlattenSeq(tp), tp, Tokens1, ver)
  BY <1>1, <1>6, LaidIs
<1>9. OfRequest(rq, ver)
  BY <1>1, ReqIs DEF rq
<1>10. DOMAIN T = 1 .. Total(ver)
  BY <1>3, <1>8 DEF Laid
<1>11. IsShifted(Shifted(T, rq, seed), T, seed, ver)
  BY <1>1, <1>9, <1>10, ShiftedIs
<1>12. Laid(VerWins(d, ver), wp, Windows, ver) /\ Laid(T, tp, Tokens1, ver)
  BY <1>2, <1>3, <1>7, <1>8
<1>13. IsShifted(VerifyHid(ver, hs).hs2, T, seed, ver)
  BY <1>4, <1>11
<1> QED
  BY <1>12, <1>13 DEF wp, tp, seed, T, m

\* One row of a sequence: the candidate, its window, and the token before it.
LEMMA VerRowIs ==
  ASSUME IInv, NEW v, Candidates(v), NEW z, NEW y \in Token, NEW w, IsVerified(w, v, z), NEW j \in 1 .. v.n,
         NEW x, x = [tok |-> Cand(v)[j], win |-> w.win[j], hs2 |-> IF j = 1 THEN y ELSE Cand(v)[j - 1]]
  PROVE  /\ RowOK(x) /\ x.tok # Zero /\ x.tok[1] = v.seq /\ (j > v.ok => ~x.tok[3])
         /\ j <= v.ok /\ z = Before(v.seq, len[v.seq]) /\ y = Tok(v.seq, len[v.seq] - 1) =>
              x = Exact!Answer(v.seq, len[v.seq] + j - 1)
<1> DEFINE s == v.seq
           l == len[v.seq]
           i == len[v.seq] + j - 1
<1>1. /\ s \in Seqs /\ v.n \in Nat /\ v.ok \in Nat /\ v.ok >= 1 /\ v.ok <= v.n /\ l \in Nat /\ l > 0 /\ MaxLen \in Nat
      /\ Cand(v) \in Seq(Token) /\ Len(Cand(v)) = v.n
      /\ \A k \in 1 .. v.n : /\ l + k - 1 \in 0 .. MaxLen - 1
                             /\ k <= v.ok => Cand(v)[k] = Tok(s, l + k - 1)
                             /\ k > v.ok => Cand(v)[k] = Draft(s, l + k - 1)
  BY CandIs
<1>2. /\ w.win \in Seq([1 .. TP + 1 -> Token \cup {Junk}]) /\ Len(w.win) = v.n
      /\ z = Before(s, l) => \A k \in 1 .. v.ok : w.win[k] = Win(s, l + k - 1)
  BY DEF IsVerified
<1>3. x.tok = Cand(v)[j] /\ x.win = w.win[j] /\ x.hs2 = IF j = 1 THEN y ELSE Cand(v)[j - 1]
  OBVIOUS
<1>30. x = [tok |-> x.tok, win |-> x.win, hs2 |-> x.hs2]
  OBVIOUS
<1> HIDE DEF s, l
<1>4. j \in Nat /\ j >= 1 /\ (j # 1 => j - 1 \in 1 .. v.n) /\ i = l + j - 1 /\ i \in 0 .. MaxLen - 1
  BY <1>1 DEF l
<1> HIDE DEF i
<1>5. /\ Tok(s, i) = <<s, i, TRUE>> /\ Tok(s, i) # Zero /\ Draft(s, i) # Zero /\ Draft(s, i) = <<s, i, FALSE>>
  BY <1>1, <1>4, TokenTypes DEF Draft
<1>6. x.tok = Tok(s, i) \/ (j > v.ok /\ x.tok = Draft(s, i))
  BY <1>1, <1>3, <1>4
<1>60. j > v.ok => x.tok = Draft(s, i)
  BY <1>1, <1>3, <1>4
<1>7. x.tok # Zero /\ x.tok[1] = s /\ (j > v.ok => ~x.tok[3])
  <2>1. \A b, c : <<b, c, TRUE>>[1] = b /\ <<b, c, FALSE>>[1] = b /\ ~<<b, c, FALSE>>[3]
    OBVIOUS
  <2>2. Tok(s, i)[1] = s /\ Draft(s, i)[1] = s /\ ~Draft(s, i)[3]
    BY ONLY <1>5, <2>1
  <2> QED
    BY ONLY <1>5, <1>6, <1>60, <2>2
<1>8. RowOK(x)
  <2>1. x.tok \in Token
    BY <1>1, <1>3, ElementOfSeq
  <2>2. x.hs2 \in Token
    <3>1. CASE j = 1
      BY <1>3, <3>1
    <3>2. CASE j # 1
      <4>1. Cand(v)[j - 1] \in Token
        BY <1>1, <1>4, <3>2, ElementOfSeq
      <4> QED
        BY <1>3, <3>2, <4>1
    <3> QED
      BY <3>1, <3>2
  <2>3. x.win \in [1 .. TP + 1 -> Token \cup {Junk}]
    <3> DEFINE W == [1 .. TP + 1 -> Token \cup {Junk}]
    <3>1. w.win \in Seq(W) /\ j \in 1 .. Len(w.win)
      BY <1>2
    <3> HIDE DEF W
    <3>2. w.win[j] \in W
      BY <3>1, ElementOfSeq
    <3> QED
      BY <1>3, <3>2 DEF W
  <2> QED
    BY <1>7, <2>1, <2>2, <2>3 DEF RowOK
<1>9. ASSUME j <= v.ok, z = Before(s, l), y = Tok(s, l - 1) PROVE x = Exact!Answer(s, i)
  <2>1. x.hs2 = Tok(s, i - 1)
    <3>1. CASE j = 1
      <4>1. l - 1 = i - 1
        BY <1>1, <1>4, <3>1
      <4> QED
        BY <1>3, <1>9, <3>1, <4>1
    <3>2. CASE j # 1
      <4>1. j - 1 \in 1 .. v.n /\ j - 1 <= v.ok /\ l + (j - 1) - 1 = i - 1
        <5>1. j - 1 \in 1 .. v.n
          BY <1>4, <3>2
        <5>2. j \in Nat /\ l \in Nat /\ v.ok \in Nat /\ j <= v.ok /\ i = l + j - 1
          BY <1>1, <1>4, <1>9
        <5>3. j - 1 <= v.ok /\ l + (j - 1) - 1 = i - 1
          BY ONLY <5>2
        <5> QED
          BY <5>1, <5>3
      <4>2. Cand(v)[j - 1] = Tok(s, l + (j - 1) - 1)
        BY <1>1, <4>1
      <4> QED
        BY <1>3, <3>2, <4>1, <4>2
    <3> QED
      BY <3>1, <3>2
  <2>2. x.tok = Tok(s, i) /\ x.win = Win(s, i)
    <3>1. j \in 1 .. v.ok
      BY <1>1, <1>4, <1>9
    <3> QED
      BY <1>1, <1>2, <1>3, <1>4, <1>9, <3>1
  <2>3. x = [tok |-> Tok(s, i), win |-> Win(s, i), hs2 |-> Tok(s, i - 1)]
    BY <1>30, <2>1, <2>2
  <2> QED
    BY <1>1, <1>4, <2>3, AnswerIs
<1> QED
  BY <1>7, <1>8, <1>9 DEF s, l, i

\* The token of a padding row.
LEMMA JunkIs == Junk # Zero /\ ~Junk[3]
<1>1. Pad \in Seqs \cup {Pad} /\ 0 \in Int /\ FALSE \in BOOLEAN
  OBVIOUS
<1>2. \A S, T : \A a \in S, b \in Int, c \in T : <<a, b, c>> \in S \X Int \X T
  OBVIOUS
<1>3. <<Pad, 0, FALSE>> \in (Seqs \cup {Pad}) \X Int \X BOOLEAN
  BY <1>1, <1>2
<1>4. ~<<Pad, 0, FALSE>>[3]
  OBVIOUS
<1> QED
  BY <1>3, <1>4, CcaAssumption DEF Junk, Draft

\* A padding row is typed and answers nothing.
LEMMA VerPadRowIs ==
  ASSUME NEW n \in Nat, NEW w \in Seq(Windows), Len(w) = n, NEW j \in 1 .. n, NEW x,
         x = [tok |-> Junk, win |-> w[j], hs2 |-> IF j = 1 THEN Zero ELSE Junk], NEW X
  PROVE  IsDraftRow(x, X)
<1>1. w[j] \in Windows
  BY ElementOfSeq
<1>3. Junk # Zero /\ ~Junk[3]
  BY JunkIs
<1>4. x.tok = Junk /\ x.win \in Windows /\ x.hs2 \in Tokens1 /\ Junk \in Tokens1
  BY <1>1 DEF Tokens1, Token
<1> QED
  BY <1>3, <1>4 DEF IsDraftRow, RowOK, Windows, Tokens1

\* The rows of a region that is verified answer exactly its accepted candidates, but those of
\* sequences that have read a wrong column.
LEMMA VerRowsAre ==
  ASSUME IInv, NEW pre, MayRun(pre), NEW ver, MayVerify(ver, pre), NEW c1, NEW h1, Staged(c1, h1, pre),
         NEW d, IsRegion(d, ver, c1), NEW H, NEW X, Homes(H, X, ver)
  PROVE  VerAnswers(VerRows(d, ver, h1), Total(ver), ver, X)
<1> DEFINE m == Len(ver)
           n == Total(ver)
           R == VerRows(d, ver, h1)
           W == VerWins(d, ver)
           T == VerifyHid(ver, h1).toks
           G == VerifyHid(ver, h1).hs2
           seed == Seeds(ver, h1)
           r(i) == ver[i].seq # Pad
           Y(i, j) == [tok |-> Cand(ver[i])[j], win |-> d[i].win[j],
                       hs2 |-> IF j = 1 THEN seed[i] ELSE Cand(ver[i])[j - 1]]
<1>1. /\ IsSized(ver) /\ m \in Nat /\ DOMAIN ver = 1 .. m
      /\ \A i \in 1 .. m : ver[i].n \in Nat /\ ver[i].n >= 1
  BY RegionIs
<1>2. \A i \in 1 .. m : r(i) => /\ Candidates(ver[i]) /\ ver[i].ok \in Nat /\ ver[i].ok >= 1 /\ ver[i].ok <= ver[i].n
                                /\ len[ver[i].seq] \in Nat
  BY CandIs DEF MayVerify
<1>3. Laid(W, [i \in 1 .. m |-> d[i].win], Windows, ver) /\ Laid(T, Cands(ver), Tokens1, ver) /\ IsShifted(G, T, seed, ver)
  BY VerLaid
<1>4. R = [t \in DOMAIN W |-> [tok |-> T[t], win |-> W[t], hs2 |-> G[t]]]
  BY DEF VerRows
<1>5. \A i \in 1 .. m : seed[i] = IF r(i) THEN h1[ReadBlock(ver[i])] ELSE Zero
  BY <1>1 DEF Seeds
<1> HIDE DEF m, n, R, W, T, G, seed, r, Y
<1>6. /\ n \in Nat
      /\ \A k \in 1 .. m : \A j \in 1 .. ver[k].n : At(ver, k, j) \in 1 .. n
      /\ \A t \in 1 .. n : \E k \in 1 .. m : \E j \in 1 .. ver[k].n : t = At(ver, k, j)
  BY <1>1, QStartIs DEF At, Total, n, m
<1>7. DOMAIN W = 1 .. n
  BY <1>3 DEF Laid, n
<1>8. \A i \in 1 .. m : \A j \in 1 .. ver[i].n :
        /\ W[At(ver, i, j)] = d[i].win[j] /\ T[At(ver, i, j)] = Cand(ver[i])[j]
        /\ G[At(ver, i, j)] = IF j = 1 THEN seed[i] ELSE T[At(ver, i, j - 1)]
  <2> SUFFICES ASSUME NEW i \in 1 .. m, NEW j \in 1 .. ver[i].n
               PROVE  /\ W[At(ver, i, j)] = d[i].win[j] /\ T[At(ver, i, j)] = Cand(ver[i])[j]
                      /\ G[At(ver, i, j)] = IF j = 1 THEN seed[i] ELSE T[At(ver, i, j - 1)]
    OBVIOUS
  <2>1. i \in 1 .. Len(ver)
    BY DEF m
  <2>2. W[At(ver, i, j)] = [k \in 1 .. m |-> d[k].win][i][j]
    BY <1>3, <2>1 DEF Laid
  <2>3. T[At(ver, i, j)] = Cands(ver)[i][j] /\ Cands(ver)[i] = Cand(ver[i])
    BY <1>3, <2>1 DEF Laid, Cands
  <2>4. G[At(ver, i, j)] = IF j = 1 THEN seed[i] ELSE T[At(ver, i, j - 1)]
    BY <1>3, <2>1 DEF IsShifted
  <2> QED
    BY <2>2, <2>3, <2>4
<1>9. ASSUME NEW i \in 1 .. m, NEW j \in 1 .. ver[i].n PROVE R[At(ver, i, j)] = Y(i, j)
  <2>1. G[At(ver, i, j)] = IF j = 1 THEN seed[i] ELSE Cand(ver[i])[j - 1]
    <3>1. CASE j = 1
      BY <1>8, <3>1
    <3>2. CASE j # 1
      <4>1. j - 1 \in 1 .. ver[i].n
        BY <1>1, <3>2
      <4>2. T[At(ver, i, j - 1)] = Cand(ver[i])[j - 1]
        BY <1>8, <4>1
      <4> QED
        BY <1>8, <3>2, <4>2
    <3> QED
      BY <3>1, <3>2
  <2>2. R[At(ver, i, j)] = [tok |-> T[At(ver, i, j)], win |-> W[At(ver, i, j)], hs2 |-> G[At(ver, i, j)]]
    BY <1>4, <1>6, <1>7
  <2> QED
    BY <1>8, <2>1, <2>2 DEF Y
<1>10. ASSUME NEW i \in 1 .. m, r(i), NEW j \in 1 .. ver[i].n
       PROVE  /\ IsDraftRow(Y(i, j), X) \/ (j <= ver[i].ok /\ Y(i, j) = Exact!Answer(ver[i].seq, len[ver[i].seq] + j - 1))
              /\ j <= ver[i].ok /\ ver[i].seq \notin X => Y(i, j) = Exact!Answer(ver[i].seq, len[ver[i].seq] + j - 1)
  <2> DEFINE v == ver[i]
             w == d[i]
             x == Y(i, j)
             z == c1[ReadBlock(ver[i])]
             y == h1[ReadBlock(ver[i])]
  <2>0. i \in 1 .. Len(ver) /\ ver[i].seq # Pad
    BY <1>10 DEF m, r
  <2>1. Candidates(v) /\ j \in 1 .. v.n /\ v.ok \in Nat
    BY <1>2, <1>10
  <2>2. IsVerified(w, v, z)
    BY <2>0 DEF IsRegion
  <2>3. /\ z \in [1 .. TP -> Token] /\ y \in Token
        /\ v.seq \notin lost /\ ReadCol(v) = home[v.seq] => z = Before(v.seq, len[v.seq]) /\ y = Tok(v.seq, len[v.seq] - 1)
    BY <2>0, SourceIs
  <2>4. v.seq \in X <=> v.seq \in lost \/ ReadCol(v) # home[v.seq]
    BY <2>0 DEF Homes
  <2>5. x = [tok |-> Cand(v)[j], win |-> w.win[j], hs2 |-> IF j = 1 THEN y ELSE Cand(v)[j - 1]]
    BY <1>5, <1>10 DEF Y
  <2> HIDE DEF v, w, x, y, z
  <2>6. /\ RowOK(x) /\ x.tok # Zero /\ x.tok[1] = v.seq /\ (j > v.ok => ~x.tok[3])
        /\ j <= v.ok /\ z = Before(v.seq, len[v.seq]) /\ y = Tok(v.seq, len[v.seq] - 1) =>
             x = Exact!Answer(v.seq, len[v.seq] + j - 1)
    <3>1. y \in Token
      BY <2>3
    <3>2. j \in 1 .. v.n
      BY <2>1
    <3> QED
      BY ONLY IInv, <2>1, <2>2, <2>5, <3>1, <3>2, VerRowIs
  <2>7. j <= v.ok \/ j > v.ok
    BY <2>1
  <2>8. /\ IsDraftRow(x, X) \/ (j <= v.ok /\ x = Exact!Answer(v.seq, len[v.seq] + j - 1))
        /\ j <= v.ok /\ v.seq \notin X => x = Exact!Answer(v.seq, len[v.seq] + j - 1)
    BY <2>3, <2>4, <2>6, <2>7 DEF IsDraftRow
  <2> QED
    BY <2>8 DEF v, x
<1>11. ASSUME NEW i \in 1 .. m, ~r(i), NEW j \in 1 .. ver[i].n PROVE IsDraftRow(Y(i, j), X)
  <2>0. i \in 1 .. Len(ver) /\ ver[i].seq = Pad
    BY <1>11 DEF m, r
  <2>1. Cand(ver[i]) = [k \in 1 .. ver[i].n |-> Junk] /\ seed[i] = Zero
    BY <1>5, <1>11, <2>0, RegionIs
  <2>2. d[i].win \in Seq(Windows) /\ Len(d[i].win) = ver[i].n
    BY <2>0 DEF IsRegion
  <2>3. Y(i, j) = [tok |-> Junk, win |-> d[i].win[j], hs2 |-> IF j = 1 THEN Zero ELSE Junk]
    <3>1. j # 1 => j - 1 \in 1 .. ver[i].n
      BY <1>1
    <3>2. Cand(ver[i])[j] = Junk /\ (j # 1 => Cand(ver[i])[j - 1] = Junk)
      BY <2>1, <3>1
    <3> QED
      BY <2>1, <3>2 DEF Y
  <2> QED
    BY <1>1, <2>2, <2>3, VerPadRowIs
<1>12. ASSUME NEW t \in 1 .. n
       PROVE  \/ IsDraftRow(R[t], X)
              \/ \E k \in 1 .. m : r(k) /\ \E i \in len[ver[k].seq] .. len[ver[k].seq] + ver[k].ok - 1 :
                   R[t] = Exact!Answer(ver[k].seq, i)
  <2>1. PICK k \in 1 .. m : \E j \in 1 .. ver[k].n : t = At(ver, k, j)
    BY <1>6
  <2>2. PICK j \in 1 .. ver[k].n : t = At(ver, k, j)
    BY <2>1
  <2>3. R[t] = Y(k, j)
    BY <1>9, <2>2
  <2>4. CASE r(k) /\ j <= ver[k].ok /\ Y(k, j) = Exact!Answer(ver[k].seq, len[ver[k].seq] + j - 1)
    <3>1. len[ver[k].seq] + j - 1 \in len[ver[k].seq] .. len[ver[k].seq] + ver[k].ok - 1
      BY <1>2, <2>4
    <3> QED
      BY <2>3, <2>4, <3>1
  <2> QED
    BY <1>10, <1>11, <2>3, <2>4
<1>13. ASSUME NEW k \in 1 .. m, r(k), ver[k].seq \notin X, NEW i \in len[ver[k].seq] .. len[ver[k].seq] + ver[k].ok - 1
       PROVE  \E t \in 1 .. n : R[t] = Exact!Answer(ver[k].seq, i)
  <2>1. PICK j \in 1 .. ver[k].n : j <= ver[k].ok /\ i = len[ver[k].seq] + j - 1
    <3>1. PICK l, b, c \in Nat : l = len[ver[k].seq] /\ b = ver[k].ok /\ c = ver[k].n
      BY <1>1, <1>2, <1>13
    <3>2. b <= c /\ i \in l .. l + b - 1
      BY <1>2, <1>13, <3>1
    <3>3. i - l + 1 \in 1 .. c /\ i - l + 1 <= b /\ i = l + (i - l + 1) - 1
      BY <3>2
    <3> QED
      BY <3>1, <3>3
  <2>2. Y(k, j) = Exact!Answer(ver[k].seq, i)
    BY <1>10, <1>13, <2>1
  <2> QED
    BY <1>6, <1>9, <2>2
<1>14. R = [t \in 1 .. n |-> R[t]]
  BY <1>4, <1>7
<1>15. VerAnswers(R, n, ver, X)
  BY <1>6, <1>12, <1>13, <1>14 DEF VerAnswers, m, r
<1> QED
  BY <1>15 DEF R, n

-----------------------------------------------------------------------------
\* A pass with speculation.

\* The rows of a verified pass: the candidates first, then the tokens of the prefill region.
LEMMA BothRows ==
  ASSUME IInv, NEW pre, MayRun(pre), NEW ver, MayVerify(ver, pre), Accepts(len', ver, pre),
         NEW D, NEW k, VerAnswers(D, k, ver, lost'), NEW E, NEW n, Answers(E, n, pre), out' = D \o E
  PROVE  RowsSound /\ RowsComplete
<1> DEFINE m == Len(ver)
<1>1. k \in Nat /\ n \in Nat /\ D = [i \in 1 .. k |-> D[i]] /\ E = [i \in 1 .. n |-> E[i]]
  BY DEF Answers, VerAnswers
<1>2. /\ \A r \in DOMAIN out' : (\E i \in 1 .. k : out'[r] = D[i]) \/ (\E i \in 1 .. n : out'[r] = E[i])
      /\ \A i \in 1 .. k : \E r \in DOMAIN out' : out'[r] = D[i]
      /\ \A i \in 1 .. n : \E r \in DOMAIN out' : out'[r] = E[i]
  <2>1. IsConcat(out', D, k, E, n)
    BY <1>1, ConcatRows
  <2> QED
    BY <2>1 DEF IsConcat
<1>3. \A i \in 1 .. m : ver[i].seq # Pad =>
                        /\ ver[i].seq \in Seqs /\ ver[i].ok \in Nat /\ len[ver[i].seq] \in Nat
                        /\ len'[ver[i].seq] = len[ver[i].seq] + ver[i].ok
  <2>1. \A i \in 1 .. m : ver[i].seq # Pad => Candidates(ver[i])
    BY DEF MayVerify
  <2>2. \A i \in 1 .. m : ver[i].seq # Pad => ver[i].seq \in Seqs /\ ver[i].ok \in Nat /\ len[ver[i].seq] \in Nat
    BY <2>1, CandIs
  <2> QED
    BY <2>2 DEF Accepts
<1>4. \A i \in 1 .. Len(pre) : /\ pre[i].seq \in Seqs /\ len'[pre[i].seq] = len[pre[i].seq] + pre[i].n
                               /\ len[pre[i].seq] \in Nat /\ pre[i].n \in Nat
  <2>1. \A i \in 1 .. Len(pre) : pre[i].seq \in Seqs /\ pre[i].n \in Nat
    BY ChunkTypes DEF MayRun
  <2>2. len \in [Seqs -> Nat]
    BY CcaAssumption DEF IInv, ProgressOK
  <2> QED
    BY <2>1, <2>2 DEF Accepts
<1>5. ASSUME NEW x \in Nat, NEW y \in Nat
      PROVE  x .. x + y - 1 = x .. (x + y) - 1
  <2>1. x + y - 1 = (x + y) - 1
    OBVIOUS
  <2> QED
    BY <2>1
<1>6. ASSUME NEW t \in 1 .. n
      PROVE  \E s \in Seqs : \E i \in len[s] .. len'[s] - 1 : E[t] = Exact!Answer(s, i)
  <2>1. PICK j \in 1 .. Len(pre) : \E i \in len[pre[j].seq] .. len[pre[j].seq] + pre[j].n - 1 :
               E[t] = Exact!Answer(pre[j].seq, i)
    BY DEF Answers
  <2>2. PICK i \in len[pre[j].seq] .. len[pre[j].seq] + pre[j].n - 1 : E[t] = Exact!Answer(pre[j].seq, i)
    BY <2>1
  <2>3. i \in len[pre[j].seq] .. len'[pre[j].seq] - 1
    BY <1>4, <1>5
  <2> QED
    BY <1>4, <2>2, <2>3
<1>7. ASSUME NEW t \in 1 .. k, ~IsDraftRow(D[t], lost')
      PROVE  \E s \in Seqs : \E i \in len[s] .. len'[s] - 1 : D[t] = Exact!Answer(s, i)
  <2>1. PICK j \in 1 .. m : ver[j].seq # Pad /\ \E i \in len[ver[j].seq] .. len[ver[j].seq] + ver[j].ok - 1 :
               D[t] = Exact!Answer(ver[j].seq, i)
    BY <1>7 DEF VerAnswers
  <2>2. PICK i \in len[ver[j].seq] .. len[ver[j].seq] + ver[j].ok - 1 : D[t] = Exact!Answer(ver[j].seq, i)
    BY <2>1
  <2>3. i \in len[ver[j].seq] .. len'[ver[j].seq] - 1
    BY <1>3, <1>5, <2>1
  <2> QED
    BY <1>3, <2>1, <2>2, <2>3
<1>8. RowsSound
  <2> SUFFICES ASSUME NEW r \in DOMAIN out'
               PROVE  \/ IsDraftRow(out'[r], lost')
                      \/ \E s \in Seqs : \E i \in len[s] .. len'[s] - 1 : out'[r] = Exact!Answer(s, i)
    BY DEF RowsSound, IsDraftRow
  <2>1. CASE \E i \in 1 .. k : out'[r] = D[i]
    <3>1. PICK i \in 1 .. k : out'[r] = D[i]
      BY <2>1
    <3>2. CASE IsDraftRow(D[i], lost')
      BY <3>1, <3>2
    <3>3. CASE ~IsDraftRow(D[i], lost')
      BY <1>7, <3>1, <3>3
    <3> QED
      BY <3>2, <3>3
  <2>2. CASE \E i \in 1 .. n : out'[r] = E[i]
    BY <1>6, <2>2
  <2> QED
    BY <1>2, <2>1, <2>2
<1>9. ASSUME NEW s \in Seqs, s \notin lost', NEW x \in len[s] .. len'[s] - 1
      PROVE  \E r \in DOMAIN out' : out'[r] = Exact!Answer(s, x)
  <2>0. len[s] \in Nat
    BY CcaAssumption DEF IInv, ProgressOK
  <2>1. CASE \E i \in 1 .. m : ver[i].seq = s
    <3>1. PICK i \in 1 .. m : ver[i].seq = s /\ ver[i].seq # Pad
      BY <2>1, CcaAssumption
    <3>2. x \in len[ver[i].seq] .. len[ver[i].seq] + ver[i].ok - 1
      BY <1>3, <1>5, <3>1
    <3>3. PICK t \in 1 .. k : D[t] = Exact!Answer(s, x)
      BY <1>9, <3>1, <3>2 DEF VerAnswers
    <3>4. PICK r \in DOMAIN out' : out'[r] = D[t]
      BY <1>2
    <3> QED
      BY <3>3, <3>4
  <2>2. CASE \E i \in 1 .. Len(pre) : pre[i].seq = s
    <3>1. PICK i \in 1 .. Len(pre) : pre[i].seq = s
      BY <2>2
    <3>2. x \in len[pre[i].seq] .. len[pre[i].seq] + pre[i].n - 1
      BY <1>4, <1>5, <3>1
    <3>3. PICK t \in 1 .. n : E[t] = Exact!Answer(s, x)
      BY <3>1, <3>2 DEF Answers
    <3>4. PICK r \in DOMAIN out' : out'[r] = E[t]
      BY <1>2
    <3> QED
      BY <3>3, <3>4
  <2>3. CASE (\A i \in 1 .. m : ver[i].seq # s) /\ \A i \in 1 .. Len(pre) : pre[i].seq # s
    <3>1. len'[s] = len[s]
      BY <2>3 DEF Accepts
    <3> QED
      BY <2>0, <3>1
  <2> QED
    BY <2>1, <2>2, <2>3
<1> QED
  BY <1>8, <1>9 DEF RowsComplete

\* The blocks that are home hold what the invariant says of them.
LEMMA VerifyFollows ==
  ASSUME IInv, UNCHANGED <<cfg, tab>>,
         OnBlocks(conv', [1 .. TP -> Token]), OnBlocks(hid', Token), conv'[0] = Zeros, hid'[0] = Zero,
         \A s \in Seqs : s \notin lost' /\ len'[s] > 0 /\ home'[s] # -1 =>
           /\ conv'[tab[s][home'[s] + 1]] = Before(s, len'[s])
           /\ hid'[tab[s][home'[s] + 1]] = Tok(s, len'[s] - 1)
  PROVE  LayoutOK' /\ CacheOK'
<1>1. LayoutOK'
  BY DEF IInv, LayoutOK, Width, P
<1>2. CacheFollows'
  BY DEF CacheFollows, Before
<1>3. CacheOK'
  BY <1>2 DEF CacheOK, OnBlocks
<1> QED
  BY <1>1, <1>3

\* The hidden states that the region writes.
LEMMA HidPutsAre ==
  ASSUME NEW ver, DOMAIN ver = 1 .. Len(ver), NEW f
  PROVE  VerifyHid(ver, f).put = Puts(f, ver, HWins(ver), Cands(ver))
<1> DEFINE A(i) == HidPuts(ver[i], f)
           B(i) == IF ver[i].seq = Pad THEN {<<0, f[0]>>}
                   ELSE {<<WriteBlock(ver[i], j), Cands(ver)[i][j]>> : j \in Lands(ver[i], HWins(ver)[i])}
<1>1. \A i \in 1 .. Len(ver) : HWins(ver)[i] = ver[i].hwin /\ Cands(ver)[i] = Cand(ver[i])
  BY DEF HWins, Cands
<1>2. \A i \in 1 .. Len(ver) : A(i) = B(i)
  BY <1>1 DEF HidPuts
<1>3. VerifyHid(ver, f).put = UNION {A(i) : i \in 1 .. Len(ver)}
  BY DEF VerifyHid
<1>4. Puts(f, ver, HWins(ver), Cands(ver)) = UNION {B(i) : i \in 1 .. Len(ver)}
  BY DEF Puts
<1> HIDE DEF A, B
<1>5. {A(i) : i \in 1 .. Len(ver)} = {B(i) : i \in 1 .. Len(ver)}
  BY <1>2
<1> QED
  BY <1>3, <1>4, <1>5

\* The states that one row writes.
OwnPuts(w, v, f) ==
  /\ Lands(v, v.cwin) \subseteq 1 .. v.n
  /\ w = {<<WriteBlock(v, j), Held(v, f[ReadBlock(v)], j)>> : j \in Lands(v, v.cwin)}

\* The states that the region writes.
LEMMA ConvPutsAre ==
  ASSUME NEW ver, DOMAIN ver = 1 .. Len(ver), NEW f, NEW d,
         \A i \in 1 .. Len(ver) : ver[i].seq = Pad => d[i].put = {<<0, f[0]>>},
         \A i \in 1 .. Len(ver) : ver[i].seq # Pad => OwnPuts(d[i].put, ver[i], f)
  PROVE  UNION {d[i].put : i \in DOMAIN ver} = Puts(f, ver, CWins(ver), States(ver, f))
<1> DEFINE A(i) == d[i].put
           B(i) == IF ver[i].seq = Pad THEN {<<0, f[0]>>}
                   ELSE {<<WriteBlock(ver[i], j), States(ver, f)[i][j]>> : j \in Lands(ver[i], CWins(ver)[i])}
<1>1. ASSUME NEW i \in 1 .. Len(ver)
      PROVE  /\ CWins(ver)[i] = ver[i].cwin
             /\ \A j \in 1 .. ver[i].n : States(ver, f)[i][j] = Held(ver[i], f[ReadBlock(ver[i])], j)
  BY DEF CWins, States
<1>2. ASSUME NEW i \in 1 .. Len(ver) PROVE A(i) = B(i)
  <2>1. CASE ver[i].seq = Pad
    BY <2>1
  <2>2. CASE ver[i].seq # Pad
    <3> DEFINE l == Lands(ver[i], ver[i].cwin)
    <3>1. l \subseteq 1 .. ver[i].n /\ CWins(ver)[i] = ver[i].cwin
      BY <1>1, <2>2 DEF OwnPuts
    <3>2. \A j \in l : States(ver, f)[i][j] = Held(ver[i], f[ReadBlock(ver[i])], j)
      BY <1>1, <3>1
    <3>3. A(i) = {<<WriteBlock(ver[i], j), Held(ver[i], f[ReadBlock(ver[i])], j)>> : j \in l}
      BY <2>2 DEF OwnPuts
    <3>4. B(i) = {<<WriteBlock(ver[i], j), States(ver, f)[i][j]>> : j \in l}
      BY <2>2, <3>1
    <3> HIDE DEF A, B, l
    <3> QED
      BY <3>2, <3>3, <3>4
  <2> QED
    BY <2>1, <2>2
<1>3. Puts(f, ver, CWins(ver), States(ver, f)) = UNION {B(i) : i \in 1 .. Len(ver)}
  BY DEF Puts
<1> HIDE DEF B
<1>4. {A(i) : i \in 1 .. Len(ver)} = {B(i) : i \in 1 .. Len(ver)}
  <2> HIDE DEF A
  <2> QED
    BY <1>2
<1> QED
  BY <1>3, <1>4

\* A pass with speculation keeps the invariant and answers as the abstract pass does.
LEMMA VerifyPassIs ==
  ASSUME IInv, cfg.mode # "plain", NEW pre, MayRun(pre), NEW ver, MayVerify(ver, pre), VerifyPass(ver, pre)
  PROVE  IInv' /\ Exact!Pass
<1> DEFINE p  == EagerPrefill(pre)
           ph == PrefillHid(pre)
           c1 == Put(conv, p.put)
           h1 == Put(hid, ph.put)
           d  == [i \in DOMAIN ver |-> VerifyConv(ver[i], c1)]
           vh == VerifyHid(ver, h1)
           w  == UNION {d[i].put : i \in DOMAIN ver}
           D  == VerRows(d, ver, h1)
           E  == [t \in DOMAIN p.win |-> [tok |-> Toks(pre)[t], win |-> p.win[t], hs2 |-> ph.hs2[t]]]
           c2 == Put(c1, Puts(c1, ver, CWins(ver), States(ver, c1)))
           h2 == Put(h1, Puts(h1, ver, HWins(ver), Cands(ver)))
<1>1. /\ conv' = AlignCopy(Put(c1, w), ver)
      /\ hid' = AlignCopy(Put(h1, vh.put), ver)
      /\ UNCHANGED <<cfg, tab>>
  BY DEF VerifyPass
<1>2. out' = D \o E
  BY DEF VerifyPass, VerRows, VerWins
<1>3. Progressed(ver, pre)
  BY DEF VerifyPass, Progressed, PrefillCount
<1>4. IsFilled(p, pre)
  <2>1. \A i \in 1 .. Len(pre) : Cached(pre[i].seq)
    <3>1. \A i \in 1 .. Len(pre) : pre[i].seq \in Seqs
      BY ChunkTypes DEF MayRun
    <3> QED
      BY <3>1, CachedIs DEF MayRun
  <2>2. len \in [Seqs -> Nat] /\ IsChunks(pre)
    BY CcaAssumption DEF IInv, ProgressOK, MayRun
  <2> QED
    BY <2>1, <2>2, EagerIs
<1>5. E = PrefillRows(p, pre)
  BY DEF PrefillRows
<1> HIDE DEF p
<1>6. Staged(c1, h1, pre)
  BY <1>4, StagedIs
<1>7. Answers(E, Total(pre), pre)
  BY <1>4, <1>5, PrefillRowsAre
<1>8. Accepts(len', ver, pre) /\ Homes(home', lost', ver) /\ Advances /\ ProgressOK' /\ RollOK'
  BY <1>3, VerifyCounts
<1>9. /\ Len(ver) \in Nat /\ DOMAIN ver = 1 .. Len(ver)
      /\ \A i \in 1 .. Len(ver) : ver[i].n \in 1 .. P /\ (ver[i].seq # Pad => Candidates(ver[i]))
  <2>1. Len(ver) \in Nat /\ DOMAIN ver = 1 .. Len(ver) /\ \A i \in 1 .. Len(ver) : ver[i].n \in 1 .. P
    BY RegionIs
  <2>2. \A i \in 1 .. Len(ver) : ver[i].seq # Pad => Candidates(ver[i])
    BY DEF MayVerify
  <2> QED
    BY <2>1, <2>2
<1> HIDE DEF c1, h1, E
\* What each row reads, and what it computes from it.
<1>10. \A i \in 1 .. Len(ver) : ver[i].seq # Pad => /\ c1[ReadBlock(ver[i])] \in [1 .. TP -> Token]
                                                    /\ h1[ReadBlock(ver[i])] \in Token
  BY <1>6, SourceIs
<1>11. ASSUME NEW i \in 1 .. Len(ver), ver[i].seq # Pad PROVE IsVerified(d[i], ver[i], c1[ReadBlock(ver[i])])
  <2> DEFINE v == ver[i]
             x == c1[ReadBlock(ver[i])]
  <2>1. Candidates(v) /\ x \in [1 .. TP -> Token] /\ c1[ReadBlock(v)] = x
    BY <1>9, <1>10, <1>11
  <2>2. d[i] = VerifyConv(v, c1)
    BY <1>9
  <2> HIDE DEF v, d, x
  <2>3. IsVerified(VerifyConv(v, c1), v, x)
    BY <2>1, VerifyConvIs
  <2> QED
    BY <2>2, <2>3 DEF v, x
<1>12. ASSUME NEW i \in 1 .. Len(ver), ver[i].seq = Pad
       PROVE  d[i].win \in Seq(Windows) /\ Len(d[i].win) = ver[i].n /\ d[i].put = {<<0, c1[0]>>}
  <2>1. d[i] = VerifyConv(ver[i], c1)
    BY <1>9
  <2>2. /\ VerifyConv(ver[i], c1).win \in Seq(Windows) /\ Len(VerifyConv(ver[i], c1).win) = ver[i].n
        /\ VerifyConv(ver[i], c1).put = {<<0, c1[0]>>}
    BY <1>9, <1>12, VerifyPadIs DEF Windows, Tokens1
  <2> HIDE DEF d
  <2> QED
    BY <2>1, <2>2
<1> HIDE DEF d
<1>13. IsRegion(d, ver, c1)
  <2> SUFFICES ASSUME NEW i \in 1 .. Len(ver)
               PROVE  /\ d[i].win \in Seq(Windows) /\ Len(d[i].win) = ver[i].n
                      /\ ver[i].seq # Pad => IsVerified(d[i], ver[i], c1[ReadBlock(ver[i])])
    BY DEF IsRegion
  <2>1. CASE ver[i].seq = Pad
    BY <1>12, <2>1
  <2>2. CASE ver[i].seq # Pad
    BY <1>11, <2>2 DEF IsVerified, Windows, Tokens1
  <2> QED
    BY <2>1, <2>2
<1>14. VerAnswers(D, Total(ver), ver, lost')
  BY <1>6, <1>8, <1>13, VerRowsAre
<1>15. w = Puts(c1, ver, CWins(ver), States(ver, c1))
  <2>1. ASSUME NEW i \in 1 .. Len(ver), ver[i].seq # Pad
        PROVE  OwnPuts(d[i].put, ver[i], c1)
    <3>1. Candidates(ver[i]) /\ ver[i].cwin \in {ver[i].cwin, ver[i].hwin}
      BY <1>9, <2>1
    <3>2. Lands(ver[i], ver[i].cwin) \subseteq 1 .. ver[i].n
      BY <3>1, LandsIs
    <3> QED
      BY <1>11, <2>1, <3>2 DEF IsVerified, OwnPuts
  <2> QED
    BY <1>9, <1>12, <2>1, ConvPutsAre
<1>16. vh.put = Puts(h1, ver, HWins(ver), Cands(ver))
  BY <1>9, HidPutsAre
<1> HIDE DEF w, vh, D
\* What the caches hold after the region and after the copy.
<1>17. OnBlocks(c1, [1 .. TP -> Token]) /\ OnBlocks(h1, Token)
  BY <1>6 DEF Staged, OnBlocks
<1>18. /\ OnBlocks(c2, [1 .. TP -> Token])
       /\ Written(c2, c1, ver, CWins(ver), States(ver, c1))
  <2>1. ASSUME NEW i \in 1 .. Len(ver), ver[i].seq # Pad
        PROVE  /\ CWins(ver)[i] \in {ver[i].cwin, ver[i].hwin}
               /\ \A j \in 1 .. ver[i].n : States(ver, c1)[i][j] \in [1 .. TP -> Token]
    <3>1. CWins(ver)[i] = ver[i].cwin
      BY DEF CWins
    <3>2. \A j \in 1 .. ver[i].n : States(ver, c1)[i][j] = Held(ver[i], c1[ReadBlock(ver[i])], j)
      BY DEF States
    <3>3. \A j \in 1 .. ver[i].n : Held(ver[i], c1[ReadBlock(ver[i])], j) \in [1 .. TP -> Token]
      BY <1>9, <1>10, <2>1, HeldIs
    <3> QED
      BY <3>1, <3>2, <3>3
  <2> QED
    BY <1>17, <2>1, PutsAre
<1>19. OnBlocks(h2, Token) /\ Written(h2, h1, ver, HWins(ver), Cands(ver))
  <2>1. ASSUME NEW i \in 1 .. Len(ver), ver[i].seq # Pad
        PROVE  HWins(ver)[i] \in {ver[i].cwin, ver[i].hwin} /\ \A j \in 1 .. ver[i].n : Cands(ver)[i][j] \in Token
    <3>1. HWins(ver)[i] = ver[i].hwin /\ Cands(ver)[i] = Cand(ver[i])
      BY DEF HWins, Cands
    <3>2. Cand(ver[i]) \in Seq(Token) /\ Len(Cand(ver[i])) = ver[i].n
      BY <1>9, <2>1, CandIs
    <3>3. \A j \in 1 .. ver[i].n : Cand(ver[i])[j] \in Token
      BY <3>2, ElementOfSeq
    <3> QED
      BY <3>1, <3>3
  <2> QED
    BY <1>17, <2>1, PutsAre
<1>20. conv' = AlignCopy(c2, ver) /\ hid' = AlignCopy(h2, ver)
  BY <1>1, <1>15, <1>16
<1> HIDE DEF c2, h2
<1>21. OnBlocks(conv', [1 .. TP -> Token]) /\ Aligned(conv', c2, ver)
  BY <1>18, <1>20, AlignIs
<1>22. OnBlocks(hid', Token) /\ Aligned(hid', h2, ver)
  BY <1>19, <1>20, AlignIs
<1>23. /\ conv'[0] = Zeros /\ hid'[0] = Zero
       /\ \A s \in Seqs : s \notin lost' /\ len'[s] > 0 /\ home'[s] # -1 =>
            /\ conv'[tab[s][home'[s] + 1]] = Before(s, len'[s])
            /\ hid'[tab[s][home'[s] + 1]] = Tok(s, len'[s] - 1)
  BY <1>6, <1>8, <1>18, <1>19, <1>21, <1>22, VerifyKeeps
<1>24. LayoutOK' /\ CacheOK'
  BY <1>1, <1>21, <1>22, <1>23, VerifyFollows
<1>25. RowsSound /\ RowsComplete
  BY <1>2, <1>7, <1>8, <1>14, BothRows
<1>26. RowsOK' /\ Exact!Pass
  BY <1>8, <1>25, RowsAnswer DEF IInv
<1> QED
  BY <1>8, <1>24, <1>26 DEF IInv

-----------------------------------------------------------------------------
\* The batches of the engine.

\* The first part of a batch.
LEMMA FirstIs ==
  ASSUME NEW q \in Orders, NEW nd \in 0 .. Len(q)
  PROVE  /\ SubSeq(q, 1, nd) \in Seq(Seqs) /\ Len(SubSeq(q, 1, nd)) = nd /\ DOMAIN SubSeq(q, 1, nd) = 1 .. nd
         /\ \A i \in 1 .. nd : SubSeq(q, 1, nd)[i] = q[i] /\ q[i] \in Seqs /\ i \in 1 .. Len(q)
         /\ nd \in Nat
<1>1. Len(q) \in Nat /\ \A i \in 1 .. Len(q) : q[i] \in Seqs
  BY OrderIs
<1>2. nd \in Nat /\ nd <= Len(q) /\ nd = 1 + nd - 1
  BY <1>1
<1>3. \A i \in 1 .. nd : i \in 1 .. Len(q) /\ 1 + i - 1 = i
  <2>1. PICK n \in Nat : n = Len(q)
    BY <1>1
  <2>2. \A i \in 1 .. nd : i \in 1 .. n /\ 1 + i - 1 = i
    BY <1>2, <2>1
  <2> QED
    BY <2>1, <2>2
<1>4. \A i \in 1 .. nd : q[1 + i - 1] \in Seqs
  BY <1>1, <1>3
<1>5. /\ SubSeq(q, 1, nd) \in Seq(Seqs) /\ Len(SubSeq(q, 1, nd)) = nd
      /\ \A i \in 1 .. nd : SubSeq(q, 1, nd)[i] = q[1 + i - 1]
  BY <1>2, <1>4, PartIs
<1>6. DOMAIN SubSeq(q, 1, nd) = 1 .. nd
  BY <1>5, LenProperties
<1> QED
  BY <1>1, <1>2, <1>3, <1>5, <1>6

\* The engine decodes what may be decoded: its sequences, then padding.
LEMMA DecodesMayRun ==
  ASSUME IInv, NEW q \in Orders, NEW nd \in 0 .. Len(q), NEW pads \in Nat,
         \A i \in 1 .. nd : Fits(q[i], 1) /\ len[q[i]] > 0,
         NEW pre, \A i \in 1 .. nd : \A k \in 1 .. Len(pre) : q[i] # pre[k].seq
  PROVE  MayDecode(SubSeq(q, 1, nd) \o [i \in 1 .. pads |-> Pad], pre)
<1> DEFINE u == SubSeq(q, 1, nd)
           z == [i \in 1 .. pads |-> Pad]
           D == u \o z
           X == Seqs \cup {Pad}
<1>1. /\ u \in Seq(Seqs) /\ Len(u) = nd /\ nd \in Nat
      /\ \A i \in 1 .. nd : u[i] = q[i] /\ q[i] \in Seqs /\ i \in 1 .. Len(q)
  BY FirstIs
<1> HIDE DEF u
<1>2. u \in Seq(X) /\ z \in Seq(X) /\ Len(z) = pads /\ \A i \in 1 .. pads : z[i] = Pad
  <2>1. u = [i \in 1 .. nd |-> u[i]]
    BY <1>1, LenProperties
  <2>2. \A i \in 1 .. nd : u[i] \in X
    BY <1>1
  <2> HIDE DEF X
  <2>3. u \in Seq(X)
    BY <1>1, <2>1, <2>2
  <2>4. Pad \in X
    BY DEF X
  <2> QED
    BY <2>3, <2>4
<1> HIDE DEF z, X
<1>3. /\ D \in Seq(X) /\ Len(D) = nd + pads
      /\ \A i \in 1 .. nd + pads : D[i] = IF i <= nd THEN u[i] ELSE z[i - nd]
  <2>1. /\ D \in Seq(X) /\ Len(D) = Len(u) + Len(z)
        /\ \A i \in 1 .. Len(u) + Len(z) : D[i] = IF i <= Len(u) THEN u[i] ELSE z[i - Len(u)]
    BY <1>2, ConcatProperties
  <2> HIDE DEF D
  <2> QED
    BY <1>1, <1>2, <2>1
<1> HIDE DEF D
<1>4. ASSUME NEW i \in 1 .. nd + pads
      PROVE  /\ i <= nd => i \in 1 .. nd /\ D[i] = q[i]
             /\ ~(i <= nd) => D[i] = Pad
  <2>1. i <= nd => i \in 1 .. nd
    BY <1>1
  <2>2. ~(i <= nd) => i - nd \in 1 .. pads
    BY <1>1
  <2> QED
    BY <1>1, <1>2, <1>3, <2>1, <2>2
<1>5. \A i, k \in 1 .. Len(q) : q[i] = q[k] => i = k
  BY OrderIs
<1>6. ASSUME NEW i \in 1 .. Len(D), NEW k \in 1 .. Len(D), D[i] = D[k], D[i] # Pad PROVE i = k
  <2>1. i <= nd /\ k <= nd
    BY <1>3, <1>4, <1>6
  <2>2. i \in 1 .. nd /\ k \in 1 .. nd /\ q[i] = q[k]
    BY <1>3, <1>4, <1>6, <2>1
  <2> QED
    BY <1>1, <1>5, <2>2
<1>7. ASSUME NEW i \in 1 .. Len(D), D[i] # Pad
      PROVE  /\ tab[D[i]] # <<>> /\ len[D[i]] > 0 /\ len[D[i]] + 1 <= MaxLen
             /\ \A k \in 1 .. Len(pre) : pre[k].seq # D[i]
  <2>1. i \in 1 .. nd /\ D[i] = q[i]
    BY <1>3, <1>4, <1>7
  <2> QED
    BY <2>1 DEF Fits
<1>8. MayDecode(D, pre)
  BY <1>3, <1>6, <1>7 DEF MayDecode, X
<1> QED
  BY <1>8 DEF D, u, z

\* A step without speculation.
LEMMA RunPlainIs ==
  ASSUME IInv, RunPlain
  PROVE  IInv' /\ Exact!Pass
<1>1. PICK q \in Orders : \E nd \in 0 .. Len(q) : \E pads \in 0 .. MaxPads :
        /\ \A i \in 1 .. nd : Fits(q[i], 1) /\ len[q[i]] > 0
        /\ \E pre \in Prefills(SubSeq(q, nd + 1, Len(q))) :
             PlainPass(SubSeq(q, 1, nd) \o [i \in 1 .. pads |-> Pad], pre)
  BY DEF RunPlain
<1>2. PICK nd \in 0 .. Len(q) : \E pads \in 0 .. MaxPads :
        /\ \A i \in 1 .. nd : Fits(q[i], 1) /\ len[q[i]] > 0
        /\ \E pre \in Prefills(SubSeq(q, nd + 1, Len(q))) :
             PlainPass(SubSeq(q, 1, nd) \o [i \in 1 .. pads |-> Pad], pre)
  BY <1>1
<1>3. PICK pads \in 0 .. MaxPads :
        /\ \A i \in 1 .. nd : Fits(q[i], 1) /\ len[q[i]] > 0
        /\ \E pre \in Prefills(SubSeq(q, nd + 1, Len(q))) :
             PlainPass(SubSeq(q, 1, nd) \o [i \in 1 .. pads |-> Pad], pre)
  BY <1>2
<1>4. PICK pre \in Prefills(SubSeq(q, nd + 1, Len(q))) :
             PlainPass(SubSeq(q, 1, nd) \o [i \in 1 .. pads |-> Pad], pre)
  BY <1>3
<1>5. cfg.mode = "plain" /\ LayoutOK /\ pads \in Nat
  BY CcaAssumption DEF RunPlain, IInv
<1>6. MayRun(pre) /\ \A i \in 1 .. nd : \A k \in 1 .. Len(pre) : q[i] # pre[k].seq
  BY <1>5, ChunksMayRun
<1> DEFINE D == SubSeq(q, 1, nd) \o [i \in 1 .. pads |-> Pad]
<1>7. MayDecode(D, pre)
  BY <1>3, <1>5, <1>6, DecodesMayRun
<1>8. PlainPass(D, pre)
  BY <1>4
<1> HIDE DEF D
<1> QED
  BY <1>5, <1>6, <1>7, <1>8, PlainPassIs

\* A list of which the first part and the rest lie in a set.
LEMMA JoinIs ==
  ASSUME NEW X, NEW u \in Seq(X), NEW z \in Seq(X)
  PROVE  /\ u \o z \in Seq(X) /\ Len(u \o z) = Len(u) + Len(z)
         /\ \A i \in 1 .. Len(u) + Len(z) : \/ i \in 1 .. Len(u) /\ (u \o z)[i] = u[i]
                                            \/ i - Len(u) \in 1 .. Len(z) /\ (u \o z)[i] = z[i - Len(u)]
<1>0. PICK a, b \in Nat : a = Len(u) /\ b = Len(z)
  BY LenProperties
<1>1. /\ u \o z \in Seq(X) /\ Len(u \o z) = Len(u) + Len(z)
      /\ \A i \in 1 .. Len(u) + Len(z) : (u \o z)[i] = IF i <= Len(u) THEN u[i] ELSE z[i - Len(u)]
  BY ConcatProperties
<1> DEFINE f == u \o z
<1> HIDE DEF f
<1>2. f \in Seq(X) /\ Len(f) = a + b /\ \A i \in 1 .. a + b : f[i] = IF i <= a THEN u[i] ELSE z[i - a]
  BY <1>0, <1>1 DEF f
<1>3. ASSUME NEW i \in 1 .. a + b
      PROVE  (i \in 1 .. a /\ f[i] = u[i]) \/ (i - a \in 1 .. b /\ f[i] = z[i - a])
  <2>1. CASE i <= a
    <3>1. i \in 1 .. a
      BY <2>1
    <3> QED
      BY <1>2, <2>1, <3>1
  <2>2. CASE ~(i <= a)
    <3>1. i - a \in 1 .. b
      BY <2>2
    <3> QED
      BY <1>2, <2>2, <3>1
  <2> QED
    BY <2>1, <2>2
<1> QED
  BY <1>0, <1>2, <1>3 DEF f

\* The engine verifies what may be verified: its sequences, then padding.
LEMMA VerifiesMayRun ==
  ASSUME IInv, NEW q \in Orders, NEW nd \in 0 .. Len(q), NEW pads \in Nat,
         NEW u \in Verifies(SubSeq(q, 1, nd)), NEW z \in Padded(pads),
         \A i \in 1 .. nd : Fits(q[i], 1) /\ len[q[i]] > 0,
         NEW pre, \A i \in 1 .. nd : \A k \in 1 .. Len(pre) : q[i] # pre[k].seq
  PROVE  MayVerify(u \o z, pre)
<1> DEFINE g == SubSeq(q, 1, nd)
           X == [seq : Seqs \cup {Pad}, n : 1 .. P, ok : 1 .. P, col : 0 .. MaxBlock, cwin : 1 .. P, hwin : 1 .. P]
           f == u \o z
<1>1. /\ Len(g) = nd /\ nd \in Nat /\ DOMAIN g = 1 .. nd
      /\ \A i \in 1 .. nd : g[i] = q[i] /\ q[i] \in Seqs /\ i \in 1 .. Len(q)
  BY FirstIs
<1> HIDE DEF g
<1>2. /\ u \in [1 .. nd -> UNION {Asked(s) : s \in Range(g)}]
      /\ \A i \in 1 .. nd : u[i].seq = g[i]
  BY <1>1 DEF Verifies, g
<1>3. ASSUME NEW i \in 1 .. nd PROVE u[i].seq = q[i] /\ u[i] \in X /\ Candidates(u[i])
  <2> DEFINE v == u[i]
  <2>1. PICK s \in Range(g) : v \in Asked(s)
    BY <1>2
  <2>2. v.seq = q[i] /\ q[i] \in Seqs
    BY <1>1, <1>2
  <2> HIDE DEF v
  <2>3. /\ v \in [seq : {s}, n : 1 .. P, ok : 1 .. P, col : 0 .. MaxBlock, cwin : 1 .. P, hwin : 1 .. P]
        /\ v.ok <= v.n /\ Fits(s, v.n) /\ (cfg.mode = "align" => v.col = 0)
        /\ \A w \in {v.cwin, v.hwin} : w <= v.n /\ WriteCol(v, w) = WriteCol(v, v.n)
    BY <2>1 DEF Asked
  <2>4. v.seq = s /\ s \in Seqs
    BY <2>2, <2>3
  <2>5. v \in [seq : Seqs, n : 1 .. P, ok : 1 .. P, col : 0 .. MaxBlock, cwin : 1 .. P, hwin : 1 .. P] /\ v \in X
    BY <2>3, <2>4
  <2>6. Candidates(v)
    BY <2>2, <2>3, <2>4, <2>5 DEF Candidates, Fits
  <2> QED
    BY <2>2, <2>5, <2>6 DEF v
<1>4. P \in Nat /\ P >= 1 /\ 0 \in 0 .. MaxBlock
  BY CcaAssumption DEF P
<1>5. ASSUME NEW i \in 1 .. pads PROVE z[i].seq = Pad /\ z[i] \in X
  <2>1. z[i] \in [seq : {Pad}, n : 1 .. P, ok : {1}, col : {0}, cwin : {1}, hwin : {1}]
    BY DEF Padded
  <2>2. z[i].seq = Pad /\ 1 \in 1 .. P
    BY <1>4, <2>1
  <2> QED
    BY <1>4, <2>1, <2>2
<1> HIDE DEF X
<1>6. u \in Seq(X) /\ Len(u) = nd
  <2>1. u \in [1 .. nd -> X]
    BY <1>2, <1>3
  <2> QED
    BY <1>1, <2>1
<1>7. z \in Seq(X) /\ Len(z) = pads
  <2>1. z = [i \in 1 .. pads |-> z[i]]
    BY DEF Padded
  <2>2. z \in [1 .. pads -> X]
    BY <1>5, <2>1
  <2> QED
    BY <2>2
<1>8. /\ f \in Seq(X) /\ Len(f) = nd + pads
      /\ \A i \in 1 .. nd + pads : (i \in 1 .. nd /\ f[i] = u[i]) \/ (i - nd \in 1 .. pads /\ f[i] = z[i - nd])
  <2>1. nd \in Nat /\ pads \in Nat /\ u \in Seq(X) /\ Len(u) = nd /\ z \in Seq(X) /\ Len(z) = pads
    BY <1>1, <1>6, <1>7
  <2> QED
    BY <2>1, JoinIs
<1> HIDE DEF f
<1>9. ASSUME NEW i \in 1 .. Len(f), f[i].seq # Pad PROVE i \in 1 .. nd /\ f[i] = u[i]
  BY <1>5, <1>8, <1>9
<1>10. \A i, k \in 1 .. Len(q) : q[i] = q[k] => i = k
  BY OrderIs
<1>11. ASSUME NEW i \in 1 .. Len(f), NEW k \in 1 .. Len(f), f[i].seq = f[k].seq, f[i].seq # Pad PROVE i = k
  <2>1. i \in 1 .. nd /\ k \in 1 .. nd /\ f[i] = u[i] /\ f[k] = u[k]
    BY <1>9, <1>11
  <2>2. q[i] = q[k]
    BY <1>3, <1>11, <2>1
  <2> QED
    BY <1>1, <1>10, <2>1, <2>2
<1>12. ASSUME NEW i \in 1 .. Len(f), f[i].seq # Pad
       PROVE  Candidates(f[i]) /\ \A k \in 1 .. Len(pre) : pre[k].seq # f[i].seq
  <2>1. i \in 1 .. nd /\ f[i] = u[i]
    BY <1>9, <1>12
  <2>2. Candidates(u[i]) /\ u[i].seq = q[i]
    BY <1>3, <2>1
  <2> QED
    BY <2>1, <2>2
<1>13. MayVerify(f, pre)
  BY <1>8, <1>11, <1>12 DEF MayVerify, X
<1> QED
  BY <1>13 DEF f

\* A step with speculation.
LEMMA RunVerifyIs ==
  ASSUME IInv, RunVerify
  PROVE  IInv' /\ Exact!Pass
<1>0. PICK q \in Orders : \E nd \in 0 .. Len(q) : \E pads \in 0 .. MaxPads :
        /\ \A i \in 1 .. nd : Fits(q[i], 1) /\ len[q[i]] > 0
        /\ \E ver \in Verifies(SubSeq(q, 1, nd)), z \in Padded(pads), pre \in Prefills(SubSeq(q, nd + 1, Len(q))) :
             VerifyPass(ver \o z, pre)
  BY DEF RunVerify
<1>1. PICK nd \in 0 .. Len(q) : \E pads \in 0 .. MaxPads :
        /\ \A i \in 1 .. nd : Fits(q[i], 1) /\ len[q[i]] > 0
        /\ \E ver \in Verifies(SubSeq(q, 1, nd)), z \in Padded(pads), pre \in Prefills(SubSeq(q, nd + 1, Len(q))) :
             VerifyPass(ver \o z, pre)
  BY <1>0
<1>2. PICK pads \in 0 .. MaxPads :
        /\ \A i \in 1 .. nd : Fits(q[i], 1) /\ len[q[i]] > 0
        /\ \E ver \in Verifies(SubSeq(q, 1, nd)), z \in Padded(pads), pre \in Prefills(SubSeq(q, nd + 1, Len(q))) :
             VerifyPass(ver \o z, pre)
  BY <1>1
<1>3. PICK ver \in Verifies(SubSeq(q, 1, nd)), z \in Padded(pads), pre \in Prefills(SubSeq(q, nd + 1, Len(q))) :
             VerifyPass(ver \o z, pre)
  BY <1>2
<1>4. cfg.mode # "plain" /\ LayoutOK /\ pads \in Nat
  BY CcaAssumption DEF RunVerify, IInv
<1>5. MayRun(pre) /\ \A i \in 1 .. nd : \A k \in 1 .. Len(pre) : q[i] # pre[k].seq
  BY <1>4, ChunksMayRun
<1>6. MayVerify(ver \o z, pre)
  BY <1>2, <1>4, <1>5, VerifiesMayRun
<1> DEFINE f == ver \o z
<1> HIDE DEF f
<1>7. VerifyPass(f, pre) /\ MayVerify(f, pre)
  BY <1>3, <1>6 DEF f
<1> QED
  BY <1>4, <1>5, <1>7, VerifyPassIs

-----------------------------------------------------------------------------
\* The theorems.

\* The engine: sequences come and go.

\* The first k elements of a sequence.
LEMMA HeadIs ==
  ASSUME NEW S, NEW f, NEW k \in Nat, \A i \in 1 .. k : f[i] \in S
  PROVE  /\ SubSeq(f, 1, k) \in [1 .. k -> S] /\ SubSeq(f, 1, k) \in Seq(S) /\ Len(SubSeq(f, 1, k)) = k
         /\ \A i \in 1 .. k : SubSeq(f, 1, k)[i] = f[i]
<1>1. 1 \in Int /\ k \in Int /\ k = 1 + k - 1 /\ \A i \in 1 .. k : 1 + i - 1 = i
  OBVIOUS
<1>2. \A i \in 1 .. k : f[1 + i - 1] \in S
  BY <1>1
<1>3. /\ SubSeq(f, 1, k) \in Seq(S) /\ Len(SubSeq(f, 1, k)) = k
      /\ \A i \in 1 .. k : SubSeq(f, 1, k)[i] = f[1 + i - 1]
  BY <1>1, <1>2, PartIs
<1>4. SubSeq(f, 1, k) \in [1 .. k -> S]
  BY <1>1, <1>2, PartIs
<1>5. \A i \in 1 .. k : SubSeq(f, 1, k)[i] = f[i]
  BY <1>1, <1>3
<1> QED
  BY <1>3, <1>4, <1>5

\* The free blocks in some order, and a part of them as the row of a sequence.
LEMMA FreeRow ==
  ASSUME LayoutOK, Cardinality(FreeBlocks) >= Width
  PROVE  LET u == SubSeq(SetToSeq(FreeBlocks), 1, Width) IN
         /\ u \in Seq(1 .. NumSlots) /\ Len(u) = Width /\ u # <<>>
         /\ IsInjective(u) /\ Range(u) \subseteq FreeBlocks
<1> DEFINE S == FreeBlocks
           n == Cardinality(S)
           f == SetToSeq(S)
           w == Width
           u == SubSeq(f, 1, w)
<1>1. S \subseteq 1 .. NumSlots /\ NumSlots \in Int
  BY CcaAssumption DEF FreeBlocks
<1>2. IsFiniteSet(S)
  <2>1. IsFiniteSet(1 .. NumSlots)
    BY <1>1, FS_Interval
  <2> HIDE DEF S
  <2> QED
    BY <1>1, <2>1, FS_Subset
<1>3. w \in Nat /\ w >= 1 /\ w <= n
  <2>1. w \in Nat /\ w >= 1
    BY WidthIs
  <2>2. n \in Nat
    BY <1>2, FS_CardinalityType
  <2> HIDE DEF n, w
  <2>3. n >= w
    BY DEF n, w
  <2> QED
    BY <2>1, <2>2, <2>3
<1> HIDE DEF S
<1>4. f \in [1 .. n -> S] /\ IsInjective(f)
  <2>1. PICK k \in Nat : ExistsBijection(1 .. k, S)
    BY <1>2, FS_NatBijection
  <2>2. n = k
    BY <2>1, FS_CountingElements
  <2>3. \E g \in [1 .. n -> S] : IsInjective(g)
    BY <2>1, <2>2 DEF ExistsBijection, Bijection, Injection
  <2> HIDE DEF n
  <2>4. f = CHOOSE g \in [1 .. n -> S] : IsInjective(g)
    BY DEF SetToSeq, n
  <2> QED
    BY <2>3, <2>4
<1>5. n \in Nat
  BY <1>2, FS_CardinalityType
<1> HIDE DEF f, n, w
<1>6. \A i \in 1 .. w : i \in 1 .. n
  BY <1>3, <1>5
<1>7. /\ u \in [1 .. w -> S] /\ u \in Seq(S) /\ Len(u) = w
      /\ \A i \in 1 .. w : u[i] = f[i]
  <2>1. \A i \in 1 .. w : f[i] \in S
    BY <1>4, <1>6
  <2>2. u \in [1 .. w -> S]
    BY <1>3, <2>1, HeadIs
  <2>3. u \in Seq(S) /\ Len(u) = w /\ \A i \in 1 .. w : u[i] = f[i]
    BY <1>3, <2>1, HeadIs
  <2> QED
    BY <2>2, <2>3
<1> HIDE DEF u
<1>8. IsInjective(u)
  BY <1>4, <1>6, <1>7 DEF IsInjective
<1>9. Range(u) \subseteq S
  BY <1>7 DEF Range
<1>10. u \in Seq(1 .. NumSlots)
  <2>1. \A i \in 1 .. w : u[i] \in 1 .. NumSlots
    BY <1>1, <1>7
  <2>2. u = [i \in 1 .. w |-> u[i]]
    BY <1>7
  <2> DEFINE X == 1 .. NumSlots
  <2>3. \A i \in 1 .. w : u[i] \in X
    BY <2>1
  <2> HIDE DEF X
  <2>4. u \in [1 .. w -> X]
    BY <2>2, <2>3
  <2>5. u \in Seq(X)
    BY <1>3, <2>4
  <2> QED
    BY <2>5 DEF X
<1>11. u # <<>>
  BY <1>3, <1>7
<1> QED
  BY <1>7, <1>8, <1>9, <1>10, <1>11 DEF u, w, f, S

\* Nothing is answered between two passes.
LEMMA Silence ==
  ASSUME out' = <<>>
  PROVE  Answered' = {} /\ RowsOK'
<1>1. DOMAIN out' = {}
  OBVIOUS
<1> QED
  BY <1>1 DEF Answered, RowsOK

\* A sequence is admitted: it owns blocks that no other has, and has read none of them.
LEMMA AdmitIs ==
  ASSUME IInv, NEW s \in Seqs, Admit(s)
  PROVE  IInv' /\ Exact!Forget(s)
<1> DEFINE u == SubSeq(SetToSeq(FreeBlocks), 1, Width)
<1>1. /\ tab[s] = <<>> /\ Cardinality(FreeBlocks) >= Width
      /\ tab' = [tab EXCEPT ![s] = u] /\ out' = <<>>
      /\ UNCHANGED <<cfg, len, conv, hid, acc, home, lost>>
      /\ \E c \in 0 .. (IF cfg.mode = "all" /\ ~cfg.keeps THEN MaxBlock ELSE 0) : sched' = [sched EXCEPT ![s] = c]
  BY DEF Admit
<1>2. LayoutOK /\ ProgressOK /\ RollOK
  BY DEF IInv
<1>3. u \in Seq(1 .. NumSlots) /\ Len(u) = Width /\ u # <<>> /\ IsInjective(u) /\ Range(u) \subseteq FreeBlocks
  BY <1>1, <1>2, FreeRow
<1> HIDE DEF u
<1>4. tab \in [Seqs -> Seq(1 .. NumSlots)]
  BY <1>2 DEF LayoutOK
<1>5. tab'[s] = u /\ \A x \in Seqs : x # s => tab'[x] = tab[x]
  BY <1>1, <1>4
<1>6. LayoutOK'
  <2>1. tab' \in [Seqs -> Seq(1 .. NumSlots)]
    BY <1>1, <1>3, <1>4
  <2>2. Width' = Width
    BY <1>1 DEF Width, P
  <2>3. \A x \in Seqs : tab'[x] # <<>> => Len(tab'[x]) = Width
    <3>1. \A x \in Seqs : tab[x] # <<>> => Len(tab[x]) = Width
      BY <1>2 DEF LayoutOK
    <3> QED
      BY <1>3, <1>5, <3>1
  <2>4. \A x \in Seqs : IsInjective(tab'[x])
    <3>1. \A x \in Seqs : IsInjective(tab[x])
      BY <1>2 DEF LayoutOK
    <3> QED
      BY <1>3, <1>5, <3>1
  <2>5. \A x, y \in Seqs : x # y => Range(tab'[x]) \cap Range(tab'[y]) = {}
    <3>1. \A x, y \in Seqs : x # y => Range(tab[x]) \cap Range(tab[y]) = {}
      BY <1>2 DEF LayoutOK
    <3>2. \A x \in Seqs : Range(u) \cap Range(tab[x]) = {}
      BY <1>3 DEF FreeBlocks
    <3> QED
      BY <1>5, <3>1, <3>2
  <2>6. cfg' \in [mode : Modes, hip : SUBSET {"decode", "prefill"}, keeps : BOOLEAN]
    BY <1>1, <1>2 DEF LayoutOK
  <2>7. (cfg'.mode = "plain" => cfg'.keeps) /\ (cfg'.mode = "computed" => ~cfg'.keeps)
    BY <1>1, <1>2 DEF LayoutOK
  <2> QED
    BY <2>1, <2>2, <2>3, <2>4, <2>5, <2>6, <2>7 DEF LayoutOK
<1>7. len[s] = 0 /\ len \in [Seqs -> 0 .. MaxLen] /\ MaxLen \in Nat /\ \A x \in Seqs : len[x] > 0 => x # s
  <2>1. len \in [Seqs -> 0 .. MaxLen] /\ \A x \in Seqs : len[x] > 0 => tab[x] # <<>>
    BY <1>2 DEF ProgressOK
  <2>2. MaxLen \in Nat
    BY CcaAssumption
  <2> QED
    BY <1>1, <2>1, <2>2
<1>8. /\ sched \in [Seqs -> 0 .. MaxBlock] /\ acc[s] = 0 /\ MaxBlock \in Nat
      /\ \A x \in Seqs : (cfg.mode # "all" \/ (acc[x] = 0 /\ cfg.keeps) => sched[x] = 0)
  BY <1>1, <1>2, CcaAssumption DEF ProgressOK
<1>80. PICK c \in 0 .. (IF cfg.mode = "all" /\ ~cfg.keeps THEN MaxBlock ELSE 0) : sched' = [sched EXCEPT ![s] = c]
  BY <1>1
<1>81. c \in 0 .. MaxBlock /\ (cfg.mode # "all" \/ cfg.keeps => c = 0)
  BY <1>8
<1>82. /\ sched' \in [Seqs -> 0 .. MaxBlock]
       /\ \A x \in Seqs : sched'[x] = IF x = s THEN c ELSE sched[x]
  BY <1>8, <1>80, <1>81
<1>83. \A x \in Seqs : (cfg.mode # "all" \/ (acc[x] = 0 /\ cfg.keeps) => sched'[x] = 0)
  BY <1>8, <1>81, <1>82
<1>84. ProgressOK'
  <2>1. \A x \in Seqs : len[x] > 0 => tab'[x] # <<>>
    BY <1>2, <1>5, <1>7 DEF ProgressOK
  <2>2. \A x \in Seqs : tab'[x] = <<>> => acc[x] = 0
    BY <1>2, <1>5, <1>8 DEF ProgressOK
  <2>3. acc \in [Seqs -> 0 .. P] /\ P' = P
    BY <1>2 DEF ProgressOK, P
  <2> QED
    BY <1>1, <1>7, <1>82, <1>83, <2>1, <2>2, <2>3 DEF ProgressOK
<1>85. RollOK'
  <2>1. Width' = Width
    BY <1>1 DEF Width, P
  <2>2. /\ home \in [Seqs -> -1 .. Width - 1] /\ lost \subseteq Seqs
        /\ \A x \in Seqs : acc[x] = 0 => home[x] = 0 /\ x \notin lost
        /\ cfg.mode = "plain" => \A x \in Seqs : acc[x] = 0
        /\ cfg.keeps => lost = {}
        /\ cfg.keeps /\ cfg.mode # "all" => \A x \in Seqs : home[x] = 0
        /\ cfg.keeps /\ cfg.mode = "all" => \A x \in Seqs : home[x] = sched[x] + AtLeast(acc[x], 1) - 1
    BY <1>2 DEF RollOK
  <2>3. ASSUME cfg.keeps, cfg.mode = "all", NEW x \in Seqs
        PROVE  home[x] = sched'[x] + AtLeast(acc[x], 1) - 1
    <3>1. sched[s] = 0 /\ c = 0
      BY <1>8, <1>81, <2>3
    <3>2. sched'[x] = sched[x]
      BY <1>82, <3>1
    <3> QED
      BY <2>2, <2>3, <3>2
  <2> QED
    BY <1>1, <2>1, <2>2, <2>3 DEF RollOK, AtLeast
<1>9. CacheOK'
  <2>1. CacheFollows'
    <3> SUFFICES ASSUME NEW x \in Seqs \ lost, len[x] > 0, home[x] # -1
                 PROVE  /\ conv[tab'[x][home[x] + 1]] = Exact!Before(x, len[x])
                        /\ hid[tab'[x][home[x] + 1]] = Tok(x, len[x] - 1)
      BY <1>1 DEF CacheFollows
    <3>1. tab'[x] = tab[x]
      BY <1>5, <1>7
    <3> QED
      BY <3>1 DEF IInv, CacheOK, CacheFollows
  <2> QED
    BY <1>1, <2>1 DEF IInv, CacheOK
<1>10. Answered' = {} /\ RowsOK'
  BY <1>1, Silence
<1>11. Followed' = [Followed EXCEPT ![s] = 0]
  BY <1>1, <1>7 DEF Followed
<1> QED
  BY <1>6, <1>84, <1>85, <1>9, <1>10, <1>11 DEF IInv, Exact!Forget

\* A sequence is released: what its blocks hold is nobody's.
LEMMA ReleaseIs ==
  ASSUME IInv, NEW s \in Seqs, Release(s)
  PROVE  IInv' /\ Exact!Forget(s)
<1>1. /\ tab' = [tab EXCEPT ![s] = <<>>] /\ len' = [len EXCEPT ![s] = 0]
      /\ sched' = [sched EXCEPT ![s] = 0] /\ acc' = [acc EXCEPT ![s] = 0] /\ out' = <<>>
      /\ home' = [home EXCEPT ![s] = 0] /\ lost' = lost \ {s}
      /\ UNCHANGED <<cfg, conv, hid>>
  BY DEF Release
<1>2. LayoutOK /\ ProgressOK /\ RollOK
  BY DEF IInv
<1>3. /\ tab \in [Seqs -> Seq(1 .. NumSlots)] /\ len \in [Seqs -> 0 .. MaxLen] /\ sched \in [Seqs -> 0 .. MaxBlock]
      /\ acc \in [Seqs -> 0 .. P] /\ home \in [Seqs -> -1 .. Width - 1] /\ Width \in Nat /\ Width >= 1 /\ MaxLen \in Nat /\ MaxBlock \in Nat /\ P \in Nat
  BY <1>2, WidthIs, CcaAssumption DEF LayoutOK, ProgressOK, RollOK
<1>4. /\ tab'[s] = <<>> /\ len'[s] = 0 /\ sched'[s] = 0 /\ acc'[s] = 0 /\ home'[s] = 0
      /\ \A x \in Seqs : x # s => tab'[x] = tab[x] /\ len'[x] = len[x] /\ sched'[x] = sched[x] 
                                  /\ acc'[x] = acc[x] /\ home'[x] = home[x]
  BY <1>1, <1>3
<1>5. LayoutOK'
  <2>1. tab' \in [Seqs -> Seq(1 .. NumSlots)]
    <3>1. <<>> \in Seq(1 .. NumSlots)
      OBVIOUS
    <3> QED
      BY <1>1, <1>3, <3>1
  <2>2. Width' = Width
    BY <1>1 DEF Width, P
  <2>3. \A x \in Seqs : tab'[x] # <<>> => Len(tab'[x]) = Width
    <3>1. \A x \in Seqs : tab[x] # <<>> => Len(tab[x]) = Width
      BY <1>2 DEF LayoutOK
    <3> QED
      BY <1>4, <3>1
  <2>4. IsInjective(<<>>) /\ Range(<<>>) = {}
    BY DEF IsInjective, Range
  <2>5. \A x \in Seqs : IsInjective(tab'[x])
    <3>1. \A x \in Seqs : IsInjective(tab[x])
      BY <1>2 DEF LayoutOK
    <3> QED
      BY <1>4, <2>4, <3>1
  <2>6. \A x, y \in Seqs : x # y => Range(tab'[x]) \cap Range(tab'[y]) = {}
    <3>1. \A x, y \in Seqs : x # y => Range(tab[x]) \cap Range(tab[y]) = {}
      BY <1>2 DEF LayoutOK
    <3> QED
      BY <1>4, <2>4, <3>1
  <2>7. cfg' \in [mode : Modes, hip : SUBSET {"decode", "prefill"}, keeps : BOOLEAN]
    BY <1>1, <1>2 DEF LayoutOK
  <2>8. (cfg'.mode = "plain" => cfg'.keeps) /\ (cfg'.mode = "computed" => ~cfg'.keeps)
    BY <1>1, <1>2 DEF LayoutOK
  <2> QED
    BY <2>1, <2>2, <2>3, <2>5, <2>6, <2>7, <2>8 DEF LayoutOK
<1>6. ProgressOK'
  <2>1. /\ len' \in [Seqs -> 0 .. MaxLen] /\ sched' \in [Seqs -> 0 .. MaxBlock] /\ acc' \in [Seqs -> 0 .. P]
    <3>1. 0 \in 0 .. MaxLen /\ 0 \in 0 .. MaxBlock /\ 0 \in 0 .. P
      BY <1>3
    <3>2. len' \in [Seqs -> 0 .. MaxLen]
      BY <1>1, <1>3, <3>1
    <3>3. sched' \in [Seqs -> 0 .. MaxBlock]
      BY <1>1, <1>3, <3>1
    <3>4. acc' \in [Seqs -> 0 .. P]
      BY <1>1, <1>3, <3>1
    <3> QED
      BY <3>2, <3>3, <3>4
  <2>2. \A x \in Seqs : len'[x] > 0 => tab'[x] # <<>>
    <3>1. \A x \in Seqs : len[x] > 0 => tab[x] # <<>>
      BY <1>2 DEF ProgressOK
    <3>2. ~(0 > 0)
      OBVIOUS
    <3> QED
      BY <1>4, <3>1, <3>2
  <2>3. \A x \in Seqs : cfg'.mode # "all" \/ (acc'[x] = 0 /\ cfg'.keeps) => sched'[x] = 0
    BY <1>1, <1>2, <1>4 DEF ProgressOK
  <2>4. \A x \in Seqs : tab'[x] = <<>> => acc'[x] = 0
    BY <1>2, <1>4 DEF ProgressOK
  <2> QED
    BY <2>1, <2>2, <2>3, <2>4 DEF ProgressOK, P
<1>60. RollOK'
  <2>1. Width' = Width
    BY <1>1 DEF Width, P
  <2>2. /\ lost \subseteq Seqs
        /\ \A x \in Seqs : acc[x] = 0 => home[x] = 0 /\ x \notin lost
        /\ cfg.mode = "plain" => \A x \in Seqs : acc[x] = 0
        /\ cfg.keeps => lost = {}
        /\ cfg.keeps /\ cfg.mode # "all" => \A x \in Seqs : home[x] = 0
        /\ cfg.keeps /\ cfg.mode = "all" => \A x \in Seqs : home[x] = sched[x] + AtLeast(acc[x], 1) - 1
    BY <1>2 DEF RollOK
  <2>3. home' \in [Seqs -> -1 .. Width - 1]
    <3>1. 0 \in -1 .. Width - 1
      BY <1>3
    <3> QED
      BY <1>1, <1>3, <3>1
  <2>4. \A x \in Seqs : acc'[x] = 0 => home'[x] = 0 /\ x \notin lost'
    BY <1>1, <1>4, <2>2
  <2>5. cfg.mode = "plain" => \A x \in Seqs : acc'[x] = 0
    BY <1>4, <2>2
  <2>6. lost' \subseteq Seqs /\ (cfg.keeps => lost' = {})
    BY <1>1, <2>2
  <2>7. cfg.keeps /\ cfg.mode # "all" => \A x \in Seqs : home'[x] = 0
    BY <1>4, <2>2
  <2>8. ASSUME cfg.keeps, cfg.mode = "all", NEW x \in Seqs
        PROVE  home'[x] = sched'[x] + AtLeast(acc'[x], 1) - 1
    <3>1. CASE x = s
      BY <1>4, <3>1 DEF AtLeast
    <3>2. CASE x # s
      BY <1>4, <2>2, <2>8, <3>2
    <3> QED
      BY <3>1, <3>2
  <2> QED
    BY <1>1, <2>1, <2>3, <2>4, <2>5, <2>6, <2>7, <2>8 DEF RollOK, AtLeast
<1>7. CacheOK'
  <2>1. CacheFollows'
    <3> SUFFICES ASSUME NEW x \in Seqs \ lost', len'[x] > 0, home'[x] # -1
                 PROVE  /\ conv[tab'[x][home'[x] + 1]] = Exact!Before(x, len'[x])
                        /\ hid[tab'[x][home'[x] + 1]] = Tok(x, len'[x] - 1)
      BY <1>1 DEF CacheFollows
    <3>1. x # s /\ x \notin lost
      BY <1>1, <1>4
    <3>2. len'[x] = len[x] /\ tab'[x] = tab[x] /\ home'[x] = home[x]
      BY <1>4, <3>1
    <3> QED
      BY <3>1, <3>2 DEF IInv, CacheOK, CacheFollows
  <2> QED
    BY <1>1, <2>1 DEF IInv, CacheOK
<1>8. Answered' = {} /\ RowsOK'
  BY <1>1, Silence
<1>9. Followed' = [Followed EXCEPT ![s] = 0]
  <2>1. ASSUME NEW x \in Seqs
        PROVE  (IF x \in lost' THEN 0 ELSE len'[x]) = IF x = s THEN 0 ELSE Followed[x]
    BY <1>1, <1>4 DEF Followed
  <2>2. Followed' = [x \in Seqs |-> IF x \in lost' THEN 0 ELSE len'[x]]
    BY DEF Followed
  <2>3. Followed' = [x \in Seqs |-> IF x = s THEN 0 ELSE Followed[x]]
    BY <2>1, <2>2
  <2>4. [Followed EXCEPT ![s] = 0] = [x \in Seqs |-> IF x = s THEN 0 ELSE Followed[x]]
    BY DEF Followed
  <2> QED
    BY <2>3, <2>4
<1> QED
  BY <1>5, <1>6, <1>60, <1>7, <1>8, <1>9 DEF IInv, Exact!Forget

\* At the start nobody runs, and every state is zero.
LEMMA InitIs ==
  ASSUME Init
  PROVE  IInv /\ Exact!Init
<1>1. /\ cfg \in [mode : Modes, hip : {{}, {"decode"}, {"decode", "prefill"}}, keeps : BOOLEAN]
      /\ (cfg.mode = "plain" => cfg.keeps) /\ (cfg.mode = "computed" => ~cfg.keeps)
      /\ tab = [s \in Seqs |-> <<>>] /\ len = [s \in Seqs |-> 0]
      /\ conv = [b \in 0 .. NumSlots |-> Zeros] /\ hid = [b \in 0 .. NumSlots |-> Zero]
      /\ sched = [s \in Seqs |-> 0] /\ acc = [s \in Seqs |-> 0] /\ out = <<>>
      /\ home = [s \in Seqs |-> 0] /\ lost = {}
  BY DEF Init
<1>2. MaxLen \in Nat /\ MaxBlock \in Nat /\ P \in Nat /\ NumSlots \in Nat
  BY CcaAssumption DEF P
<1>3. LayoutOK
  <2>1. <<>> \in Seq(1 .. NumSlots) /\ IsInjective(<<>>) /\ Range(<<>>) = {}
    BY DEF IsInjective, Range
  <2>2. cfg \in [mode : Modes, hip : SUBSET {"decode", "prefill"}, keeps : BOOLEAN]
    BY <1>1
  <2> QED
    BY <1>1, <2>1, <2>2 DEF LayoutOK
<1>4. ProgressOK
  BY <1>1, <1>2 DEF ProgressOK
<1>40. RollOK
  <2>1. Width \in Nat /\ Width >= 1
    BY <1>3, WidthIs
  <2>2. 0 \in -1 .. Width - 1
    BY <2>1
  <2> QED
    BY <1>1, <2>2 DEF RollOK, AtLeast
<1>5. CacheOK
  <2>1. CacheFollows
    BY <1>1 DEF CacheFollows
  <2>2. Zero \in Token /\ Zeros \in [1 .. TP -> Token]
    BY DEF Token, Zeros
  <2>3. 0 \in 0 .. NumSlots
    BY <1>2
  <2> HIDE DEF Zeros
  <2> QED
    BY <1>1, <2>1, <2>2, <2>3 DEF CacheOK
<1>6. DOMAIN out = {}
  BY <1>1
<1>7. RowsOK /\ Answered = {}
  BY <1>6 DEF RowsOK, Answered
<1>8. Followed = [s \in Seqs |-> 0]
  BY <1>1 DEF Followed
<1> QED
  BY <1>3, <1>4, <1>40, <1>5, <1>7, <1>8 DEF IInv, Exact!Init

\* Each step of the layer and its engine is a step of the promise.
LEMMA StepIs ==
  ASSUME IInv, [Next]_vars
  PROVE  IInv' /\ [Exact!Next]_<<Followed, Answered>>
<1>1. CASE RunPlain
  BY <1>1, RunPlainIs DEF Exact!Next
<1>2. CASE RunVerify
  BY <1>2, RunVerifyIs DEF Exact!Next
<1>3. ASSUME NEW s \in Seqs, Admit(s) PROVE IInv' /\ [Exact!Next]_<<Followed, Answered>>
  BY <1>3, AdmitIs DEF Exact!Next
<1>4. ASSUME NEW s \in Seqs, Release(s) PROVE IInv' /\ [Exact!Next]_<<Followed, Answered>>
  BY <1>4, ReleaseIs DEF Exact!Next
<1>5. CASE UNCHANGED vars
  <2>1. UNCHANGED <<cfg, tab, len, conv, hid, sched, acc, out, home, lost>>
    BY <1>5 DEF vars
  <2>2. LayoutOK'
    BY <2>1 DEF IInv, LayoutOK, Width, P
  <2>3. ProgressOK'
    BY <2>1 DEF IInv, ProgressOK, P
  <2>4. CacheOK'
    BY <2>1 DEF IInv, CacheOK, CacheFollows
  <2>5. RowsOK'
    BY <2>1 DEF IInv, RowsOK
  <2>6. UNCHANGED <<Followed, Answered>>
    BY <2>1 DEF Answered, Followed
  <2>7. RollOK'
    BY <2>1 DEF IInv, RollOK, Width, P
  <2> QED
    BY <2>2, <2>3, <2>4, <2>5, <2>6, <2>7 DEF IInv
<1> QED
  BY <1>1, <1>2, <1>3, <1>4, <1>5 DEF Next

\* Blocks, progress, columns, caches and answers agree in every state of every run.
THEOREM Invariance == Spec => []IInv
<1>1. Init => IInv
  BY InitIs
<1>2. IInv /\ [Next]_vars => IInv'
  BY StepIs
<1> QED
  BY <1>1, <1>2, PTL DEF Spec

\* Variables have their types and no two sequences share a block.
THEOREM TypeCorrect == Spec => []TypeOK
<1>1. IInv => home \in [Seqs -> -1 .. MaxBlock + NumSpec]
  <2> SUFFICES ASSUME IInv PROVE home \in [Seqs -> -1 .. MaxBlock + NumSpec]
    OBVIOUS
  <2>1. Width \in Nat /\ Width <= 1 + NumSpec + MaxBlock /\ NumSpec \in Nat /\ MaxBlock \in Nat
    BY CcaAssumption DEF Width, P
  <2>2. \A x \in -1 .. Width - 1 : x \in -1 .. MaxBlock + NumSpec
    BY <2>1
  <2>3. home \in [Seqs -> -1 .. Width - 1]
    BY DEF IInv, RollOK
  <2> QED
    BY <2>2, <2>3
<1>2. IInv => TypeOK
  BY <1>1 DEF IInv, LayoutOK, ProgressOK, RollOK, CacheOK, RowsOK, RowOK, TypeOK
<1> QED
  BY <1>2, Invariance, PTL

\* Of a sequence that has not read a wrong column, the column home holds its last TP tokens and
\* its last hidden state.
THEOREM CacheCorrect == Spec => []CacheFollows
<1>1. IInv => CacheFollows
  BY DEF IInv, CacheOK
<1> QED
  BY <1>1, Invariance, PTL

\* Where the engine does its part no pass reads another column than the one that is home.
THEOREM RollbackCorrect == Spec => []RollbackWorks
<1>1. IInv => RollbackWorks
  BY DEF IInv, RollOK, RollbackWorks
<1> QED
  BY <1>1, Invariance, PTL

\* Padding leaves block 0 zero and its tokens nowhere, and a plain decode answers it with zeros.
THEOREM PaddingCorrect == Spec => []PaddingIsInert
<1>1. \A t \in Token : t # Junk
  <2> SUFFICES ASSUME NEW t \in Token, t = Junk PROVE FALSE
    OBVIOUS
  <2>1. Junk = <<Pad, 0, FALSE>> /\ Junk # Zero
    BY JunkIs DEF Junk, Draft
  <2>2. PICK s \in Seqs, i \in 0 .. MaxLen - 1 : t = Tok(s, i) \/ t = Draft(s, i)
    <3>1. t \in Token /\ t # Zero
      BY <2>1
    <3> QED
      BY ONLY <3>1 DEF Token
  <2>3. ~(i < 0)
    BY CcaAssumption
  <2>4. t = <<s, i, TRUE>> \/ t = <<s, i, FALSE>>
    BY ONLY <2>2, <2>3 DEF Tok, Exact!Tok, Draft
  <2>5. s = Pad
    BY <2>1, <2>4
  <2> QED
    BY <2>5, CcaAssumption
<1>2. IInv => PaddingIsInert
  <2> SUFFICES ASSUME IInv PROVE PaddingIsInert
    OBVIOUS
  <2>1. conv[0] = Zeros /\ hid[0] = Zero
    BY DEF IInv, CacheOK
  <2>2. \A b \in 0 .. NumSlots : hid[b] # Junk /\ \A c \in 1 .. TP : conv[b][c] # Junk
    BY <1>1 DEF IInv, CacheOK
  <2>3. \A r \in DOMAIN out : out[r].tok = Zero => out[r].hs2 = Zero /\ \A c \in 1 .. TP + 1 : out[r].win[c] = Zero
    BY DEF IInv, RowsOK, RowOK
  <2> QED
    BY <2>1, <2>2, <2>3 DEF PaddingIsInert
<1> QED
  BY <1>2, Invariance, PTL

\* forward_cuda implements the causal convolution of each sequence by itself, for as long as
\* its passes read the right columns.
THEOREM Implements == Spec => ExactAnswers
<1>1. Init => Exact!Init
  BY InitIs
<1>2. IInv /\ [Next]_vars => [Exact!Next]_<<Followed, Answered>>
  BY StepIs
<1> QED
  BY <1>1, <1>2, Invariance, PTL DEF Spec, ExactAnswers, Exact!Spec

=============================================================================
