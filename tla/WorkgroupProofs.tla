-------------------------- MODULE WorkgroupProofs --------------------------
(* Proofs about Workgroup, for every set of kernels, launches and waves:  *)
(* waves are never a barrier apart, so whether a kernel is free of races  *)
(* and of stranded waves, and whether it reads what it means to, can be   *)
(* read off its code without a look at the interleavings.  Then the dense *)
(* kernels of GemmKernels, for any launch and any tile: code is put       *)
(* together from parts that end in a barrier, and a part is sound when    *)
(* its waves keep apart in a phase and read what earlier phases left.     *)
(* Then what they contribute: every output once from every K group, for   *)
(* its rows and columns and the K groups are shared out once.  Last the   *)
(* kernels of MoeKernels and AttnKernels, put together the same way.      *)
EXTENDS Workgroup, MoeKernels, AttnKernels, DataLemmas, FiniteSetTheorems, SequenceTheorems, TLAPS

\* Only so many statements lie before a place in the code.
LEMMA PassedFinite ==
    ASSUME NEW c, NEW i \in Nat \ {0}
    PROVE  IsFiniteSet({j \in 1 .. i - 1 : c[j].sync})
<1>1. IsFiniteSet(1 .. i - 1)
  BY FS_Interval
<1> QED
  BY <1>1, FS_Subset, {j \in 1 .. i - 1 : c[j].sync} \subseteq 1 .. i - 1

\* The barriers passed are a number.
LEMMA PassedIsNat ==
    ASSUME NEW c, NEW i \in Nat \ {0}
    PROVE  Passed(c, i) \in Nat
BY PassedFinite, FS_CardinalityType DEF Passed

\* A statement takes a wave past a barrier exactly when it is one.
LEMMA PassedNext ==
    ASSUME NEW c, NEW i \in Nat \ {0}
    PROVE  /\ c[i].sync => Passed(c, i + 1) = Passed(c, i) + 1
           /\ ~c[i].sync => Passed(c, i + 1) = Passed(c, i)
<1> DEFINE before == {j \in 1 .. i - 1 : c[j].sync}
           after == {j \in 1 .. (i + 1) - 1 : c[j].sync}
<1>1. IsFiniteSet(before)
  BY PassedFinite
<1>2. i \notin before
  OBVIOUS
<1>3. ASSUME c[i].sync PROVE Passed(c, i + 1) = Passed(c, i) + 1
  <2>1. after = before \cup {i}
    BY <1>3
  <2>2. Cardinality(before \cup {i}) = Cardinality(before) + 1
    <3> HIDE DEF before
    <3> QED
      BY <1>1, <1>2, FS_AddElement
  <2> QED
    BY <2>1, <2>2 DEF Passed
<1>4. ASSUME ~c[i].sync PROVE Passed(c, i + 1) = Passed(c, i)
  <2>1. after = before
    BY <1>4
  <2> QED
    BY <2>1 DEF Passed
<1> QED
  BY <1>3, <1>4

\* A wave that is further has passed no fewer barriers.
LEMMA PassedGrows ==
    ASSUME NEW c, NEW i \in Nat \ {0}, NEW j \in Nat \ {0}, i <= j
    PROVE  Passed(c, i) <= Passed(c, j)
<1>1. {k \in 1 .. i - 1 : c[k].sync} \subseteq {k \in 1 .. j - 1 : c[k].sync}
  OBVIOUS
<1> QED
  BY <1>1, PassedFinite, FS_Subset, FS_CardinalityType DEF Passed
-----------------------------------------------------------------------------
InPhase == TypeOK /\ SamePhase

\* Nobody has passed a barrier at the start.
LEMMA InitInPhase == Init => InPhase
<1> SUFFICES ASSUME Init PROVE InPhase
  OBVIOUS
<1> USE DEF Init
<1>1. TypeOK
  BY CodeAssumption DEF TypeOK, Waves
<1>2. \A w \in Waves : Passed(code[w], pc[w]) = Cardinality({})
  <2> SUFFICES ASSUME NEW w \in Waves PROVE Passed(code[w], pc[w]) = Cardinality({})
    OBVIOUS
  <2>1. pc[w] = 1
    BY DEF Waves
  <2>2. {j \in 1 .. 1 - 1 : code[w][j].sync} = {}
    OBVIOUS
  <2> QED
    BY <2>1, <2>2 DEF Passed
<1> QED
  BY <1>1, <1>2 DEF InPhase, SamePhase

\* A statement a wave has still to run is one of its code.
LEMMA AheadIsCode ==
    ASSUME TypeOK, NEW w \in Waves, ~Ended(w)
    PROVE  /\ pc[w] \in 1 .. Len(code[w])
           /\ Len(code[w]) \in Nat
           /\ Statement(w) = code[w][pc[w]]
           /\ code[w][pc[w]].sync \in BOOLEAN
<1>1. Len(code[w]) \in Nat /\ \A i \in 1 .. Len(code[w]) : code[w][i].sync \in BOOLEAN
  BY CodeAssumption DEF TypeOK, Waves
<1> QED
  BY <1>1 DEF TypeOK, Ended, Statement

\* A step keeps every wave in the same phase.
LEMMA NextInPhase == InPhase /\ [Next]_vars => InPhase'
<1> SUFFICES ASSUME InPhase, [Next]_vars PROVE InPhase'
  OBVIOUS
<1> USE DEF InPhase
<1>1. ASSUME NEW w \in Waves, Run(w) PROVE InPhase'
  <2>1. pc[w] \in 1 .. Len(code[w]) /\ Len(code[w]) \in Nat /\ ~Statement(w).sync
    BY <1>1, AheadIsCode DEF Run, Runs
  <2>2. TypeOK'
    BY <1>1, <2>1 DEF Run, TypeOK, Waves
  <2>3. Passed(code[w], pc[w] + 1) = Passed(code[w], pc[w])
    BY <2>1, PassedNext DEF Statement
  <2>4. \A v \in Waves : Passed(code[v], pc'[v]) = Passed(code[v], pc[v])
    BY <1>1, <2>3 DEF Run, TypeOK
  <2> QED
    BY <1>1, <2>2, <2>4 DEF Run, SamePhase, Waves
<1>2. CASE Barrier
  <2>1. \A w \in Waves : /\ pc[w] \in 1 .. Len(code[w]) /\ Len(code[w]) \in Nat
                         /\ code[w][pc[w]].sync /\ code[w][pc[w]].sync \in BOOLEAN
    BY <1>2, AheadIsCode DEF Barrier, Waits
  <2>2. TypeOK'
    BY <1>2, <2>1 DEF Barrier, TypeOK, Waves
  <2>3. ASSUME NEW w \in Waves PROVE Passed(code[w], pc'[w]) = Passed(code[w], pc[w]) + 1
    BY <1>2, <2>1, PassedNext DEF Barrier
  <2> QED
    BY <1>2, <2>2, <2>3 DEF Barrier, SamePhase, Waves
<1>3. CASE Finished \/ UNCHANGED vars
  BY <1>3 DEF Finished, vars, TypeOK, SamePhase, Waves
<1> QED
  BY <1>1, <1>2, <1>3 DEF Next

\* The state stays well formed: the waves run the code of their workgroup, each within its own.
THEOREM TypeCorrect == Spec => []TypeOK
<1>1. InPhase => TypeOK
  BY DEF InPhase
<1> QED
  BY InitInPhase, NextInPhase, <1>1, PTL DEF Spec

\* No wave is ever a barrier ahead of another.
THEOREM WavesShareThePhase == Spec => []SamePhase
<1>1. InPhase => SamePhase
  BY DEF InPhase
<1> QED
  BY InitInPhase, NextInPhase, <1>1, PTL DEF Spec

\* Kernels whose waves touch different cells between barriers are free of races however the
\* waves interleave.
THEOREM PhasesDecideRaces ==
    ASSUME \A g \in Groups : RaceFree(CodeOf(g))
    PROVE  Spec => []NoRace
<1>1. InPhase => NoRace
  <2> SUFFICES ASSUME InPhase, NEW v \in Waves, NEW w \in Waves, v # w, Runs(v), Runs(w)
               PROVE ~Conflict(Statement(v), Statement(w))
    BY DEF NoRace
  <2>1. RaceFree(code)
    BY DEF InPhase, TypeOK
  <2>2. /\ pc[v] \in 1 .. Len(code[v]) /\ Statement(v) = code[v][pc[v]]
        /\ pc[w] \in 1 .. Len(code[w]) /\ Statement(w) = code[w][pc[w]]
    BY AheadIsCode DEF Runs, InPhase
  <2>3. ~code[v][pc[v]].sync /\ ~code[w][pc[w]].sync
    BY <2>2 DEF Runs
  <2>4. Passed(code[v], pc[v]) = Passed(code[w], pc[w])
    BY DEF InPhase, SamePhase
  <2> QED
    BY <2>1, <2>2, <2>3, <2>4 DEF RaceFree, Waves
<1> QED
  BY InitInPhase, NextInPhase, <1>1, PTL DEF Spec

\* Kernels whose waves pass equally many barriers leave nobody waiting.
THEOREM CountsDecideStranding ==
    ASSUME \A g \in Groups : BarriersAgree(CodeOf(g))
    PROVE  Spec => []NobodyStranded
<1>1. InPhase => NobodyStranded
  <2> SUFFICES ASSUME InPhase, NEW v \in Waves, NEW w \in Waves, Ended(v), Waits(w)
               PROVE FALSE
    BY DEF NobodyStranded
  <2> DEFINE nv == Len(code[v])
             nw == Len(code[w])
  <2>1. nv \in Nat /\ pc[v] \in 1 .. nv + 1 /\ pc[v] > nv
    BY CodeAssumption DEF InPhase, TypeOK, Waves, Ended
  <2>2. pc[w] \in 1 .. nw /\ nw \in Nat /\ code[w][pc[w]].sync /\ code[w][pc[w]].sync \in BOOLEAN
    BY AheadIsCode DEF InPhase, Waits
  <2>3. Passed(code[v], nv + 1) = Passed(code[w], nw + 1)
    BY DEF InPhase, TypeOK, BarriersAgree, Waves
  <2>4. Passed(code[v], nv + 1) = Passed(code[w], pc[w])
    <3>1. pc[v] = nv + 1
      BY <2>1
    <3> QED
      BY <3>1 DEF InPhase, SamePhase
  <2>5. Passed(code[w], pc[w] + 1) = Passed(code[w], pc[w]) + 1
    BY <2>2, PassedNext
  <2>6. Passed(code[w], pc[w] + 1) <= Passed(code[w], nw + 1)
    BY <2>2, PassedGrows
  <2>7. Passed(code[w], pc[w]) \in Nat
    BY <2>2, PassedIsNat
  <2> QED
    BY <2>3, <2>4, <2>5, <2>6, <2>7
<1> QED
  BY InitInPhase, NextInPhase, <1>1, PTL DEF Spec
-----------------------------------------------------------------------------
\* What memory holds: a version that was written stays unless a later statement wrote its cell.
Written(v, j) == j < pc[v] /\ ~code[v][j].sync
Remembers ==
    \A v \in Waves : \A j \in 1 .. Len(code[v]) : Written(v, j) =>
        \A h \in code[v][j].writes :
            \/ h \in lds
            \/ \E u \in Waves : \E k \in 1 .. Len(code[u]) :
                  /\ Written(u, k) /\ WritesTo(code, u, k, h[1])
                  /\ <<u, k>> # <<v, j>> /\ ~Earlier(code, u, k, v, j)

\* A wave that stands before statement i has run j exactly when j comes first, in its own phase
\* and the earlier ones.
LEMMA RanBefore ==
    ASSUME InPhase, NEW v \in Waves, NEW j \in 1 .. Len(code[v]), j < pc[v], NEW w \in Waves
    PROVE  ~(Passed(code[w], pc[w]) < Passed(code[v], j))
<1>1. pc[v] \in Nat \ {0} /\ pc[w] \in Nat \ {0} /\ j \in Nat \ {0} /\ j <= pc[v]
  BY CodeAssumption DEF InPhase, TypeOK, Waves
<1>2. Passed(code[v], j) <= Passed(code[v], pc[v])
  BY <1>1, PassedGrows
<1>3. Passed(code[v], pc[v]) = Passed(code[w], pc[w])
  BY DEF InPhase, SamePhase
<1>4. Passed(code[v], j) \in Nat /\ Passed(code[v], pc[v]) \in Nat
  BY <1>1, PassedIsNat
<1> QED
  BY <1>2, <1>3, <1>4

\* The code of the waves does not change.
LEMMA SameCode ==
    ASSUME code' = code
    PROVE  /\ Waves' = Waves
           /\ \A u, k, cell : WritesTo(code, u, k, cell)' <=> WritesTo(code, u, k, cell)
           /\ \A u, k, v, j : Earlier(code, u, k, v, j)' <=> Earlier(code, u, k, v, j)
<1>1. Waves' = Waves
  BY DEF Waves
<1>2. \A u, k, cell : WritesTo(code, u, k, cell)' <=> WritesTo(code, u, k, cell)
  BY DEF WritesTo, CellsOf
<1>3. \A u, i : Passed(code[u], i)' = Passed(code[u], i)
  BY DEF Passed
<1>4. \A u, k, v, j : Earlier(code, u, k, v, j)' <=> Earlier(code, u, k, v, j)
  BY <1>3 DEF Earlier
<1> QED
  BY <1>1, <1>2, <1>4

\* A statement keeps what was written and is still to be read.
LEMMA RunRemembers ==
    ASSUME InPhase, Remembers, NEW x \in Waves, Run(x)
    PROVE  Remembers'
<1> PICK i : i = pc[x]
  OBVIOUS
<1> PICK W : W = code[x][i].writes
  OBVIOUS
<1>0. /\ i \in 1 .. Len(code[x]) /\ Len(code[x]) \in Nat /\ ~code[x][i].sync
      /\ Statement(x) = code[x][i]
  BY AheadIsCode DEF Run, Runs, InPhase
<1>1. /\ code' = code /\ Waves' = Waves
      /\ pc' = [pc EXCEPT ![x] = i + 1]
      /\ lds' = {h \in lds : h[1] \notin CellsOf(W)} \cup W
  BY <1>0 DEF Run, Waves
<1>2. pc \in [Waves -> Nat]
  BY DEF InPhase, TypeOK
<1>3. ASSUME NEW v \in Waves, NEW j \in 1 .. Len(code[v])
      PROVE  Written(v, j)' <=> Written(v, j) \/ <<v, j>> = <<x, i>>
  <2>1. CASE v = x
    <3>1. Len(code[v]) \in Nat /\ j \in Nat /\ i \in Nat
      BY <2>1, <1>0
    <3> QED
      BY <2>1, <3>1, <1>0, <1>1, <1>2 DEF Written
  <2>2. CASE v # x
    BY <2>2, <1>1, <1>2 DEF Written
  <2> QED
    BY <2>1, <2>2
<1>4. ASSUME NEW v \in Waves, NEW j \in 1 .. Len(code[v]), Written(v, j)'
      PROVE  \A h \in code[v][j].writes :
                \/ h \in lds'
                \/ \E u \in Waves : \E k \in 1 .. Len(code[u]) :
                      /\ Written(u, k)' /\ WritesTo(code, u, k, h[1])
                      /\ <<u, k>> # <<v, j>> /\ ~Earlier(code, u, k, v, j)
  <2> SUFFICES ASSUME NEW h \in code[v][j].writes, h \notin lds'
               PROVE  \E u \in Waves : \E k \in 1 .. Len(code[u]) :
                         /\ Written(u, k)' /\ WritesTo(code, u, k, h[1])
                         /\ <<u, k>> # <<v, j>> /\ ~Earlier(code, u, k, v, j)
    OBVIOUS
  <2>1. <<v, j>> # <<x, i>> /\ Written(v, j)
    <3>1. h \notin W
      BY <1>1
    <3> QED
      BY <1>3, <1>4, <3>1
  <2>2. CASE h \in lds
    <3>1. h[1] \in CellsOf(W)
      BY <2>2, <1>1
    <3>2. WritesTo(code, x, i, h[1])
      BY <3>1, <1>0 DEF WritesTo
    <3>3. ~Earlier(code, x, i, v, j)
      <4>1. ~(Passed(code[x], i) < Passed(code[v], j))
        BY <2>1, RanBefore DEF Written
      <4>2. ~(x = v /\ i < j)
        BY <2>1, <1>0 DEF Written
      <4> QED
        BY <4>1, <4>2 DEF Earlier
    <3>4. Written(x, i)'
      BY <1>0, <1>3
    <3> QED
      BY <3>2, <3>3, <3>4, <2>1, <1>0
  <2>3. CASE h \notin lds
    <3>0. PICK u \in Waves : \E k \in 1 .. Len(code[u]) :
             /\ Written(u, k) /\ WritesTo(code, u, k, h[1])
             /\ <<u, k>> # <<v, j>> /\ ~Earlier(code, u, k, v, j)
      BY <2>1, <2>3 DEF Remembers
    <3>1. PICK k \in 1 .. Len(code[u]) :
             /\ Written(u, k) /\ WritesTo(code, u, k, h[1])
             /\ <<u, k>> # <<v, j>> /\ ~Earlier(code, u, k, v, j)
      BY <3>0
    <3>2. Written(u, k)'
      BY <3>1, <1>3
    <3> QED
      BY <3>1, <3>2
  <2> QED
    BY <2>2, <2>3
<1> QED
  BY <1>1, <1>4, SameCode DEF Remembers

\* So does every step.
LEMMA NextRemembers == InPhase /\ Remembers /\ [Next]_vars => Remembers'
<1> SUFFICES ASSUME InPhase, Remembers, [Next]_vars PROVE Remembers'
  OBVIOUS
<1>1. ASSUME NEW x \in Waves, Run(x) PROVE Remembers'
  BY <1>1, RunRemembers
<1>2. CASE Barrier
  <2>1. \A w \in Waves : /\ pc[w] \in 1 .. Len(code[w]) /\ Len(code[w]) \in Nat
                         /\ code[w][pc[w]].sync
    BY <1>2, AheadIsCode DEF Barrier, Waits, InPhase
  <2>2. /\ code' = code /\ Waves' = Waves /\ lds' = lds /\ pc' = [w \in Waves |-> pc[w] + 1]
    BY <1>2 DEF Barrier, Waves
  <2>3. \A v \in Waves : \A j \in 1 .. Len(code[v]) : Written(v, j)' <=> Written(v, j)
    <3> SUFFICES ASSUME NEW v \in Waves, NEW j \in 1 .. Len(code[v])
                 PROVE Written(v, j)' <=> Written(v, j)
      OBVIOUS
    <3>1. pc[v] \in Nat /\ j \in Nat /\ code[v][pc[v]].sync
      BY <2>1
    <3>2. pc'[v] = pc[v] + 1
      BY <2>2
    <3>3. j < pc[v] + 1 <=> j < pc[v] \/ j = pc[v]
      BY <3>1
    <3> QED
      BY <3>1, <3>2, <3>3, <2>2 DEF Written
  <2> QED
    BY <2>2, <2>3, SameCode DEF Remembers
<1>3. CASE Finished \/ UNCHANGED vars
  <2>1. code' = code /\ lds' = lds /\ pc' = pc
    BY <1>3 DEF Finished, vars
  <2>2. \A v, j : Written(v, j)' <=> Written(v, j)
    BY <2>1 DEF Written
  <2> QED
    BY <2>1, <2>2, SameCode DEF Remembers
<1> QED
  BY <1>1, <1>2, <1>3 DEF Next

\* Nothing has been written at the start.
LEMMA InitRemembers == Init => Remembers
<1> SUFFICES ASSUME Init, NEW v \in Waves, NEW j \in 1 .. Len(code[v]), Written(v, j) PROVE FALSE
  BY DEF Remembers
<1>1. Len(code[v]) \in Nat
  BY CodeAssumption DEF Init, Waves
<1>2. pc[v] = 1
  BY DEF Init, Waves
<1> QED
  BY <1>1, <1>2 DEF Written

\* Kernels that stage before they read and meet in between read what they mean to, however the
\* waves interleave.
THEOREM PhasesDecideReads ==
    ASSUME \A g \in Groups : ReadsFollow(CodeOf(g))
    PROVE  Spec => []ReadsMeant
<1>1. InPhase /\ Remembers => ReadsMeant
  <2> SUFFICES ASSUME InPhase, Remembers, NEW w \in Waves, Runs(w), NEW h \in Statement(w).reads
               PROVE h \in lds
    BY DEF ReadsMeant
  <2> DEFINE i == pc[w]
  <2>1. ReadsFollow(code)
    BY DEF InPhase, TypeOK
  <2>2. i \in 1 .. Len(code[w]) /\ Statement(w) = code[w][i] /\ ~code[w][i].sync
    BY AheadIsCode DEF Runs, InPhase
  <2>. DEFINE Source(v, j) ==
          /\ ~code[v][j].sync /\ h \in code[v][j].writes /\ Earlier(code, v, j, w, i)
          /\ \A u \in Waves : \A k \in 1 .. Len(code[u]) : WritesTo(code, u, k, h[1]) =>
                \/ <<u, k>> \in {<<v, j>>, <<w, i>>}
                \/ Earlier(code, u, k, v, j)
                \/ Earlier(code, w, i, u, k)
  <2>0. PICK v \in Waves : \E j \in 1 .. Len(code[v]) : Source(v, j)
    BY <2>1, <2>2 DEF ReadsFollow, Waves
  <2>3. PICK j \in 1 .. Len(code[v]) : Source(v, j)
    BY <2>0
  <2>4. /\ \A u \in Waves : pc[u] \in Nat \ {0} /\ Len(code[u]) \in Nat
        /\ \A u \in Waves : Passed(code[u], pc[u]) = Passed(code[w], pc[w])
    BY CodeAssumption DEF InPhase, TypeOK, SamePhase, Waves
  <2>5. Written(v, j)
    <3>1. CASE v = w /\ j < i
      BY <3>1, <2>3 DEF Written
    <3>2. CASE Passed(code[v], j) < Passed(code[w], i)
      <4>1. SUFFICES ASSUME pc[v] <= j PROVE FALSE
        BY <2>3, <2>4 DEF Written
      <4>2. j \in Nat \ {0}
        BY <2>4
      <4>3. Passed(code[v], pc[v]) <= Passed(code[v], j)
        BY <4>1, <4>2, <2>4, PassedGrows
      <4>4. Passed(code[v], pc[v]) \in Nat /\ Passed(code[v], j) \in Nat
        BY <4>2, <2>4, PassedIsNat
      <4>5. Passed(code[v], pc[v]) = Passed(code[w], i)
        BY <2>4
      <4> QED
        BY <3>2, <4>3, <4>4, <4>5
    <3> QED
      BY <3>1, <3>2, <2>3 DEF Earlier
  <2>6. ASSUME NEW u \in Waves, NEW k \in 1 .. Len(code[u]), Written(u, k), WritesTo(code, u, k, h[1]),
               <<u, k>> # <<v, j>>, ~Earlier(code, u, k, v, j)
        PROVE FALSE
    <3>1. <<u, k>> = <<w, i>> \/ Earlier(code, w, i, u, k)
      BY <2>3, <2>6
    <3>2. k \in Nat /\ k < pc[u]
      BY <2>4, <2>6 DEF Written
    <3>3. ~(Passed(code[w], i) < Passed(code[u], k))
      BY <3>2, RanBefore
    <3> QED
      BY <3>1, <3>2, <3>3, <2>4 DEF Earlier
  <2> QED
    BY <2>3, <2>5, <2>6 DEF Remembers
<1> QED
  BY InitInPhase, NextInPhase, InitRemembers, NextRemembers, <1>1, PTL DEF Spec
-----------------------------------------------------------------------------
\* The code of a workgroup.
IsCode(c) == \A w \in DOMAIN c : IsText(c[w])

\* Barriers are counted through.
LEMMA PassedCat ==
    ASSUME NEW s, NEW t, IsText(s), IsText(t)
    PROVE  /\ \A i \in 1 .. Len(s) + 1 : Passed(s \o t, i) = Passed(s, i)
           /\ \A i \in 1 .. Len(t) + 1 : Passed(s \o t, Len(s) + i) = Passed(s, Len(s) + 1) + Passed(t, i)
<1>0. Len(s) \in Nat /\ Len(t) \in Nat
  BY DEF IsText
<1>1. ASSUME NEW i \in 1 .. Len(s) + 1 PROVE Passed(s \o t, i) = Passed(s, i)
  <2>1. \A j \in 1 .. i - 1 : (s \o t)[j] = s[j]
    <3>1. \A j \in 1 .. i - 1 : j \in 1 .. Len(s)
      BY <1>0
    <3> QED
      BY <3>1, TextCat
  <2>2. {j \in 1 .. i - 1 : (s \o t)[j].sync} = {j \in 1 .. i - 1 : s[j].sync}
    BY <2>1
  <2> QED
    BY <2>2 DEF Passed
<1> DEFINE n == Passed(s, Len(s) + 1)
           S == {m \in 0 .. Len(t) : Passed(s \o t, Len(s) + (m + 1)) = n + Passed(t, m + 1)}
<1>2. n \in Nat /\ \A m \in Nat : Passed(t, m + 1) \in Nat
  BY <1>0, PassedIsNat
<1>3. 0 \in S
  <2>1. {j \in 1 .. 1 - 1 : t[j].sync} = {}
    OBVIOUS
  <2>2. Passed(t, 1) = 0
    BY <2>1, FS_EmptySet DEF Passed
  <2>3. Passed(s \o t, Len(s) + 1) = n
    BY <1>0, <1>1
  <2> HIDE DEF n
  <2> QED
    BY <1>0, <1>2, <2>2, <2>3
<1>4. \A m \in 0 .. Len(t) - 1 : m \in S => m + 1 \in S
  <2> SUFFICES ASSUME NEW m \in 0 .. Len(t) - 1, m \in S PROVE m + 1 \in S
    OBVIOUS
  <2> DEFINE k == Len(s) + (m + 1)
  <2>1. /\ m + 1 \in Nat \ {0} /\ k \in Nat \ {0} /\ m + 1 \in 1 .. Len(t)
        /\ Len(s) + ((m + 1) + 1) = k + 1
    BY <1>0
  <2>2. (s \o t)[k] = t[m + 1]
    BY <2>1, TextCat, SMTT(30)
  <2>3. t[m + 1].sync \in BOOLEAN
    BY <2>1 DEF IsText
  <2>4. /\ t[m + 1].sync => Passed(s \o t, k + 1) = Passed(s \o t, k) + 1
        /\ ~t[m + 1].sync => Passed(s \o t, k + 1) = Passed(s \o t, k)
    BY <2>1, <2>2, PassedNext
  <2>5. /\ t[m + 1].sync => Passed(t, (m + 1) + 1) = Passed(t, m + 1) + 1
        /\ ~t[m + 1].sync => Passed(t, (m + 1) + 1) = Passed(t, m + 1)
    BY <2>1, PassedNext
  <2>6. Passed(s \o t, k) = n + Passed(t, m + 1)
    OBVIOUS
  <2>7. Passed(s \o t, k + 1) = n + Passed(t, (m + 1) + 1)
    <3>1. Passed(t, m + 1) \in Nat
      BY <1>2
    <3> HIDE DEF n, k
    <3> QED
      BY <1>2, <3>1, <2>3, <2>4, <2>5, <2>6
  <2> HIDE DEF n, k
  <2> QED
    BY <2>1, <2>7
<1>5. 0 .. Len(t) \subseteq S
  <2> HIDE DEF S
  <2> QED
    BY <1>0, <1>3, <1>4, Reach
<1>6. ASSUME NEW i \in 1 .. Len(t) + 1 PROVE Passed(s \o t, Len(s) + i) = n + Passed(t, i)
  <2>1. i - 1 \in 0 .. Len(t) /\ (i - 1) + 1 = i
    BY <1>0
  <2>2. i - 1 \in S
    BY <2>1, <1>5
  <2> QED
    BY <2>1, <2>2
<1> QED
  BY <1>1, <1>6
-----------------------------------------------------------------------------
\* All waves pass n barriers, the last of them after everything else.
Closed(c, n) ==
    \A w \in DOMAIN c : /\ Passed(c[w], Len(c[w]) + 1) = n
                        /\ \A i \in 1 .. Len(c[w]) : ~c[w][i].sync => Passed(c[w], i) < n

\* What is known of a statement of one of two parts.
CatIs(a, b, c, n) ==
    /\ DOMAIN c = DOMAIN a /\ DOMAIN b = DOMAIN a
    /\ \A w \in DOMAIN a :
          /\ Len(a[w]) \in Nat /\ Len(b[w]) \in Nat /\ Len(c[w]) = Len(a[w]) + Len(b[w])
          /\ \A i \in 1 .. Len(a[w]) : c[w][i] = a[w][i] /\ Passed(c[w], i) = Passed(a[w], i)
                                       /\ Passed(a[w], i) \in Nat
                                       /\ (~a[w][i].sync => Passed(a[w], i) < n)
          /\ \A i \in 1 .. Len(b[w]) : /\ c[w][Len(a[w]) + i] = b[w][i]
                                       /\ Passed(c[w], Len(a[w]) + i) = n + Passed(b[w], i)
                                       /\ Passed(b[w], i) \in Nat
          /\ Passed(c[w], Len(c[w]) + 1) = n + Passed(b[w], Len(b[w]) + 1)
          /\ \A i \in 1 .. Len(c[w]) : i \in 1 .. Len(a[w]) \/ \E k \in 1 .. Len(b[w]) : i = Len(a[w]) + k

\* Parts of which the first ends in a barrier are one code, their phases side by side.
LEMMA CatFacts ==
    ASSUME NEW a, NEW b, IsCode(a), IsCode(b), DOMAIN a = DOMAIN b, NEW n \in Nat, Closed(a, n)
    PROVE  IsCode(Cat(a, b)) /\ CatIs(a, b, Cat(a, b), n)
<1> DEFINE c == Cat(a, b)
<1>1. DOMAIN c = DOMAIN a /\ \A w \in DOMAIN a : c[w] = a[w] \o b[w]
  BY DEF Cat
<1> HIDE DEF c
<1>2. ASSUME NEW w \in DOMAIN a
      PROVE  /\ IsText(c[w])
             /\ Len(a[w]) \in Nat /\ Len(b[w]) \in Nat /\ Len(c[w]) = Len(a[w]) + Len(b[w])
             /\ \A i \in 1 .. Len(a[w]) : c[w][i] = a[w][i] /\ Passed(c[w], i) = Passed(a[w], i)
                                          /\ Passed(a[w], i) \in Nat
                                          /\ (~a[w][i].sync => Passed(a[w], i) < n)
             /\ \A i \in 1 .. Len(b[w]) : /\ c[w][Len(a[w]) + i] = b[w][i]
                                          /\ Passed(c[w], Len(a[w]) + i) = n + Passed(b[w], i)
                                          /\ Passed(b[w], i) \in Nat
             /\ Passed(c[w], Len(c[w]) + 1) = n + Passed(b[w], Len(b[w]) + 1)
             /\ \A i \in 1 .. Len(c[w]) : i \in 1 .. Len(a[w]) \/ \E k \in 1 .. Len(b[w]) : i = Len(a[w]) + k
  <2>1. IsText(a[w]) /\ IsText(b[w]) /\ c[w] = a[w] \o b[w]
    BY <1>1 DEF IsCode
  <2>2. Len(a[w]) \in Nat /\ Len(b[w]) \in Nat
    BY <2>1 DEF IsText
  <2>3. /\ IsText(c[w]) /\ Len(c[w]) = Len(a[w]) + Len(b[w])
        /\ \A i \in 1 .. Len(a[w]) : c[w][i] = a[w][i]
        /\ \A i \in 1 .. Len(b[w]) : c[w][Len(a[w]) + i] = b[w][i]
    BY <2>1, TextCat
  <2>4. Passed(a[w], Len(a[w]) + 1) = n /\ \A i \in 1 .. Len(a[w]) : ~a[w][i].sync => Passed(a[w], i) < n
    BY DEF Closed
  <2>5. \A i \in 1 .. Len(a[w]) + 1 : Passed(c[w], i) = Passed(a[w], i)
    BY <2>1, PassedCat
  <2>6. \A i \in 1 .. Len(b[w]) + 1 : Passed(c[w], Len(a[w]) + i) = n + Passed(b[w], i)
    BY <2>1, <2>4, PassedCat
  <2>7. /\ \A i \in 1 .. Len(a[w]) : Passed(a[w], i) \in Nat
        /\ \A i \in 1 .. Len(b[w]) : Passed(b[w], i) \in Nat
    BY <2>2, PassedIsNat
  <2>8. Passed(c[w], Len(c[w]) + 1) = n + Passed(b[w], Len(b[w]) + 1)
    <3>1. Len(c[w]) + 1 = Len(a[w]) + (Len(b[w]) + 1) /\ Len(b[w]) + 1 \in 1 .. Len(b[w]) + 1
      BY <2>2, <2>3
    <3> QED
      BY <3>1, <2>6
  <2>9. \A i \in 1 .. Len(c[w]) : i \in 1 .. Len(a[w]) \/ \E k \in 1 .. Len(b[w]) : i = Len(a[w]) + k
    <3> SUFFICES ASSUME NEW i \in 1 .. Len(c[w]), i \notin 1 .. Len(a[w])
                 PROVE \E k \in 1 .. Len(b[w]) : i = Len(a[w]) + k
      OBVIOUS
    <3>1. i - Len(a[w]) \in 1 .. Len(b[w]) /\ i = Len(a[w]) + (i - Len(a[w]))
      BY <2>2, <2>3
    <3> QED
      BY <3>1
  <2>10. /\ \A i \in 1 .. Len(a[w]) : i \in 1 .. Len(a[w]) + 1
         /\ \A i \in 1 .. Len(b[w]) : i \in 1 .. Len(b[w]) + 1
    BY <2>2
  <2> QED
    BY <2>2, <2>3, <2>4, <2>5, <2>6, <2>7, <2>8, <2>9, <2>10
<1>3. IsCode(c)
  BY <1>1, <1>2 DEF IsCode
<1>4. CatIs(a, b, c, n)
  BY <1>1, <1>2 DEF CatIs
<1> QED
  BY <1>3, <1>4 DEF c
-----------------------------------------------------------------------------
\* What is read was written by the code itself.
Wrote(c, v, j, h) == ~c[v][j].sync /\ h \in c[v][j].writes
Fed(c, w, i, h) ==
    \E v \in DOMAIN c : \E j \in 1 .. Len(c[v]) :
        /\ Wrote(c, v, j, h) /\ Earlier(c, v, j, w, i)
        /\ \A u \in DOMAIN c : \A k \in 1 .. Len(c[u]) : WritesTo(c, u, k, h[1]) =>
              \/ <<u, k>> \in {<<v, j>>, <<w, i>>}
              \/ Earlier(c, u, k, v, j)
              \/ Earlier(c, w, i, u, k)
\* Or it was there, and the code writes the cell later only.
Given(c, w, i, h) ==
    \A u \in DOMAIN c : \A k \in 1 .. Len(c[u]) : WritesTo(c, u, k, h[1]) =>
        <<u, k>> = <<w, i>> \/ Earlier(c, w, i, u, k)
ReadsFrom(c, K) ==
    \A w \in DOMAIN c : \A i \in 1 .. Len(c[w]) : ~c[w][i].sync =>
        \A h \in c[w][i].reads : Fed(c, w, i, h) \/ (h \in K /\ Given(c, w, i, h))

\* What is there in the end was written last, or was there and is not written.
Last(c, h) ==
    \E v \in DOMAIN c : \E j \in 1 .. Len(c[v]) :
        /\ Wrote(c, v, j, h)
        /\ \A u \in DOMAIN c : \A k \in 1 .. Len(c[u]) : WritesTo(c, u, k, h[1]) =>
              <<u, k>> = <<v, j>> \/ Earlier(c, u, k, v, j)
Spared(c, h) == \A u \in DOMAIN c : \A k \in 1 .. Len(c[u]) : ~WritesTo(c, u, k, h[1])
Leaves(c, K, L) == \A h \in L : Last(c, h) \/ (h \in K /\ Spared(c, h))

\* Started with K in memory the code has no race, reads what it means to and leaves L.
Sound(c, K, L) == RaceFree(c) /\ ReadsFrom(c, K) /\ Leaves(c, K, L)

\* Code that needs nothing from before it meets what PhasesDecideRaces and PhasesDecideReads ask.
LEMMA SoundFollows == ASSUME NEW c, NEW L, Sound(c, {}, L) PROVE RaceFree(c) /\ ReadsFollow(c)
BY DEF Sound, ReadsFrom, ReadsFollow, Fed, Wrote
-----------------------------------------------------------------------------
\* The order within a part is that of the whole, and the first part comes first.
Ordered(a, b, c) ==
    \A w, v \in DOMAIN a :
        /\ \A i \in 1 .. Len(a[w]), j \in 1 .. Len(a[v]) : Earlier(c, v, j, w, i) <=> Earlier(a, v, j, w, i)
        /\ \A i \in 1 .. Len(b[w]), j \in 1 .. Len(b[v]) :
              Earlier(c, v, Len(a[v]) + j, w, Len(a[w]) + i) <=> Earlier(b, v, j, w, i)
        /\ \A i \in 1 .. Len(b[w]), j \in 1 .. Len(a[v]) :
              ~a[v][j].sync => Earlier(c, v, j, w, Len(a[w]) + i)

\* Two parts in a row keep the order of each.
LEMMA CatOrders ==
    ASSUME NEW a, NEW b, NEW c, NEW n \in Nat, CatIs(a, b, c, n)
    PROVE  Ordered(a, b, c)
<1> SUFFICES ASSUME NEW w \in DOMAIN a, NEW v \in DOMAIN a
    PROVE
        /\ \A i \in 1 .. Len(a[w]), j \in 1 .. Len(a[v]) : Earlier(c, v, j, w, i) <=> Earlier(a, v, j, w, i)
        /\ \A i \in 1 .. Len(b[w]), j \in 1 .. Len(b[v]) :
              Earlier(c, v, Len(a[v]) + j, w, Len(a[w]) + i) <=> Earlier(b, v, j, w, i)
        /\ \A i \in 1 .. Len(b[w]), j \in 1 .. Len(a[v]) :
              ~a[v][j].sync => Earlier(c, v, j, w, Len(a[w]) + i)
  BY DEF Ordered
<1>0. Len(a[w]) \in Nat /\ Len(a[v]) \in Nat /\ Len(b[w]) \in Nat /\ Len(b[v]) \in Nat
  BY DEF CatIs
<1>1. ASSUME NEW i \in 1 .. Len(a[w]), NEW j \in 1 .. Len(a[v])
      PROVE  Earlier(c, v, j, w, i) <=> Earlier(a, v, j, w, i)
  <2>1. Passed(c[w], i) = Passed(a[w], i) /\ Passed(c[v], j) = Passed(a[v], j)
    BY DEF CatIs
  <2> QED
    BY <2>1 DEF Earlier
<1>2. ASSUME NEW i \in 1 .. Len(b[w]), NEW j \in 1 .. Len(b[v])
      PROVE  Earlier(c, v, Len(a[v]) + j, w, Len(a[w]) + i) <=> Earlier(b, v, j, w, i)
  <2>1. /\ Passed(c[w], Len(a[w]) + i) = n + Passed(b[w], i) /\ Passed(b[w], i) \in Nat
        /\ Passed(c[v], Len(a[v]) + j) = n + Passed(b[v], j) /\ Passed(b[v], j) \in Nat
    BY DEF CatIs
  <2>2. v = w => (Len(a[v]) + j < Len(a[w]) + i <=> j < i)
    BY <1>0
  <2>3. Passed(c[v], Len(a[v]) + j) < Passed(c[w], Len(a[w]) + i) <=> Passed(b[v], j) < Passed(b[w], i)
    BY <2>1
  <2> QED
    BY <2>2, <2>3 DEF Earlier
<1>3. ASSUME NEW i \in 1 .. Len(b[w]), NEW j \in 1 .. Len(a[v]), ~a[v][j].sync
      PROVE  Earlier(c, v, j, w, Len(a[w]) + i)
  <2>1. /\ Passed(c[w], Len(a[w]) + i) = n + Passed(b[w], i) /\ Passed(b[w], i) \in Nat
        /\ Passed(c[v], j) = Passed(a[v], j) /\ Passed(a[v], j) \in Nat /\ Passed(a[v], j) < n
    BY <1>3 DEF CatIs
  <2>2. Passed(c[v], j) < Passed(c[w], Len(a[w]) + i)
    BY <2>1
  <2> QED
    BY <2>2 DEF Earlier
<1> QED
  BY <1>1, <1>2, <1>3

\* A cell is written by a statement of the first part or of the second.
LEMMA CatWrites ==
    ASSUME NEW a, NEW b, NEW c, NEW n, CatIs(a, b, c, n), NEW u \in DOMAIN a, NEW k \in 1 .. Len(c[u])
    PROVE  \/ /\ k \in 1 .. Len(a[u]) /\ c[u][k] = a[u][k]
              /\ \A cell : WritesTo(c, u, k, cell) <=> WritesTo(a, u, k, cell)
           \/ \E m \in 1 .. Len(b[u]) :
              /\ k = Len(a[u]) + m /\ c[u][k] = b[u][m]
              /\ \A cell : WritesTo(c, u, k, cell) <=> WritesTo(b, u, m, cell)
<1>1. CASE k \in 1 .. Len(a[u])
  <2>1. c[u][k] = a[u][k]
    BY <1>1 DEF CatIs
  <2> QED
    BY <1>1, <2>1 DEF WritesTo
<1>2. CASE \E m \in 1 .. Len(b[u]) : k = Len(a[u]) + m
  <2>1. PICK m \in 1 .. Len(b[u]) : k = Len(a[u]) + m
    BY <1>2
  <2>2. c[u][k] = b[u][m]
    BY <2>1 DEF CatIs
  <2>3. \A cell : WritesTo(c, u, k, cell) <=> WritesTo(b, u, m, cell)
    BY <2>2 DEF WritesTo
  <2> QED
    BY <2>1, <2>2, <2>3
<1> QED
  BY <1>1, <1>2 DEF CatIs

\* Parts without races have none together.
LEMMA CatRaceFree ==
    ASSUME NEW a, NEW b, NEW c, NEW n \in Nat, CatIs(a, b, c, n), RaceFree(a), RaceFree(b)
    PROVE  RaceFree(c)
<1> SUFFICES ASSUME NEW v \in DOMAIN a, NEW w \in DOMAIN a, v # w,
                    NEW i \in 1 .. Len(c[v]), NEW j \in 1 .. Len(c[w]),
                    ~c[v][i].sync, ~c[w][j].sync, Passed(c[v], i) = Passed(c[w], j)
             PROVE  ~Conflict(c[v][i], c[w][j])
  BY DEF RaceFree, CatIs
<1>1. CASE i \in 1 .. Len(a[v]) /\ j \in 1 .. Len(a[w])
  <2>1. c[v][i] = a[v][i] /\ c[w][j] = a[w][j] /\ Passed(a[v], i) = Passed(a[w], j)
    BY <1>1 DEF CatIs
  <2> QED
    BY <1>1, <2>1 DEF RaceFree
<1>2. ASSUME i \in 1 .. Len(a[v]), NEW m \in 1 .. Len(b[w]), j = Len(a[w]) + m PROVE FALSE
  <2>1. /\ c[v][i] = a[v][i] /\ Passed(c[v], i) = Passed(a[v], i)
        /\ Passed(a[v], i) \in Nat /\ (~a[v][i].sync => Passed(a[v], i) < n)
    BY <1>2 DEF CatIs
  <2>2. Passed(c[w], j) = n + Passed(b[w], m) /\ Passed(b[w], m) \in Nat
    BY <1>2 DEF CatIs
  <2>3. Passed(a[v], i) < n
    BY <2>1
  <2>4. Passed(a[v], i) = n + Passed(b[w], m)
    BY <2>1, <2>2
  <2> QED
    BY <2>1, <2>2, <2>3, <2>4
<1>3. ASSUME j \in 1 .. Len(a[w]), NEW m \in 1 .. Len(b[v]), i = Len(a[v]) + m PROVE FALSE
  <2>1. /\ c[w][j] = a[w][j] /\ Passed(c[w], j) = Passed(a[w], j)
        /\ Passed(a[w], j) \in Nat /\ (~a[w][j].sync => Passed(a[w], j) < n)
    BY <1>3 DEF CatIs
  <2>2. Passed(c[v], i) = n + Passed(b[v], m) /\ Passed(b[v], m) \in Nat
    BY <1>3 DEF CatIs
  <2> QED
    BY <2>1, <2>2
<1>4. ASSUME NEW k \in 1 .. Len(b[v]), i = Len(a[v]) + k, NEW m \in 1 .. Len(b[w]), j = Len(a[w]) + m
      PROVE  ~Conflict(c[v][i], c[w][j])
  <2>1. /\ c[v][i] = b[v][k] /\ Passed(c[v], i) = n + Passed(b[v], k) /\ Passed(b[v], k) \in Nat
        /\ c[w][j] = b[w][m] /\ Passed(c[w], j) = n + Passed(b[w], m) /\ Passed(b[w], m) \in Nat
    BY <1>4 DEF CatIs
  <2>2. Passed(b[v], k) = Passed(b[w], m)
    <3>1. n + Passed(b[v], k) = n + Passed(b[w], m)
      BY <2>1
    <3>2. \A x, y \in Nat : n + x = n + y => x = y
      OBVIOUS
    <3> QED
      BY <2>1, <3>1, <3>2
  <2>3. DOMAIN b = DOMAIN a
    BY DEF CatIs
  <2> QED
    BY <2>1, <2>2, <2>3 DEF RaceFree
<1>5. /\ i \in 1 .. Len(a[v]) \/ \E k \in 1 .. Len(b[v]) : i = Len(a[v]) + k
      /\ j \in 1 .. Len(a[w]) \/ \E k \in 1 .. Len(b[w]) : j = Len(a[w]) + k
  BY DEF CatIs
<1> QED
  BY <1>1, <1>2, <1>3, <1>4, <1>5
-----------------------------------------------------------------------------
\* What the first part reads.
LEMMA FirstReads ==
    ASSUME NEW a, NEW b, NEW c, NEW n \in Nat, CatIs(a, b, c, n),
           NEW w \in DOMAIN a, NEW i \in 1 .. Len(a[w]), ~a[w][i].sync, NEW h
    PROVE  /\ Fed(a, w, i, h) => Fed(c, w, i, h)
           /\ Given(a, w, i, h) => Given(c, w, i, h)
<1>0. Ordered(a, b, c) /\ DOMAIN c = DOMAIN a
  BY CatOrders DEF CatIs
<1>1. ASSUME NEW u \in DOMAIN a, NEW m \in 1 .. Len(b[u]) PROVE Earlier(c, w, i, u, Len(a[u]) + m)
  BY <1>0 DEF Ordered
<1>2. ASSUME Fed(a, w, i, h) PROVE Fed(c, w, i, h)
  <2>1. PICK v \in DOMAIN a : \E j \in 1 .. Len(a[v]) :
          /\ Wrote(a, v, j, h) /\ Earlier(a, v, j, w, i)
          /\ \A u \in DOMAIN a : \A k \in 1 .. Len(a[u]) : WritesTo(a, u, k, h[1]) =>
                <<u, k>> \in {<<v, j>>, <<w, i>>} \/ Earlier(a, u, k, v, j) \/ Earlier(a, w, i, u, k)
    BY <1>2 DEF Fed
  <2>2. PICK j \in 1 .. Len(a[v]) :
          /\ Wrote(a, v, j, h) /\ Earlier(a, v, j, w, i)
          /\ \A u \in DOMAIN a : \A k \in 1 .. Len(a[u]) : WritesTo(a, u, k, h[1]) =>
                <<u, k>> \in {<<v, j>>, <<w, i>>} \/ Earlier(a, u, k, v, j) \/ Earlier(a, w, i, u, k)
    BY <2>1
  <2>3. j \in 1 .. Len(c[v]) /\ Wrote(c, v, j, h)
    <3>1. Len(c[v]) = Len(a[v]) + Len(b[v]) /\ Len(a[v]) \in Nat /\ Len(b[v]) \in Nat /\ c[v][j] = a[v][j]
      BY DEF CatIs
    <3>2. j \in 1 .. Len(c[v])
      BY <3>1
    <3> QED
      BY <2>2, <3>1, <3>2 DEF Wrote
  <2>4. Earlier(c, v, j, w, i)
    BY <1>0, <2>2 DEF Ordered
  <2>5. ASSUME NEW u \in DOMAIN a, NEW k \in 1 .. Len(c[u]), WritesTo(c, u, k, h[1])
        PROVE  <<u, k>> \in {<<v, j>>, <<w, i>>} \/ Earlier(c, u, k, v, j) \/ Earlier(c, w, i, u, k)
    <3>1. CASE k \in 1 .. Len(a[u]) /\ WritesTo(a, u, k, h[1])
      BY <3>1, <2>2, <1>0 DEF Ordered
    <3>2. CASE \E m \in 1 .. Len(b[u]) : k = Len(a[u]) + m
      BY <3>2, <1>1
    <3> QED
      BY <2>5, <3>1, <3>2, CatWrites
  <2> QED
    BY <1>0, <2>3, <2>4, <2>5 DEF Fed
<1>3. ASSUME Given(a, w, i, h) PROVE Given(c, w, i, h)
  <2> SUFFICES ASSUME NEW u \in DOMAIN a, NEW k \in 1 .. Len(c[u]), WritesTo(c, u, k, h[1])
               PROVE  <<u, k>> = <<w, i>> \/ Earlier(c, w, i, u, k)
    BY <1>0 DEF Given
  <2>1. CASE k \in 1 .. Len(a[u]) /\ WritesTo(a, u, k, h[1])
    BY <2>1, <1>3, <1>0 DEF Ordered, Given
  <2>2. CASE \E m \in 1 .. Len(b[u]) : k = Len(a[u]) + m
    BY <2>2, <1>1
  <2> QED
    BY <2>1, <2>2, CatWrites
<1> QED
  BY <1>2, <1>3

\* What the second part reads: its own versions, or what the first part leaves.
LEMMA SecondReads ==
    ASSUME NEW a, NEW b, NEW c, NEW n \in Nat, CatIs(a, b, c, n),
           NEW w \in DOMAIN a, NEW m \in 1 .. Len(b[w]), NEW h
    PROVE  /\ Fed(b, w, m, h) => Fed(c, w, Len(a[w]) + m, h)
           /\ Given(b, w, m, h) /\ Last(a, h) => Fed(c, w, Len(a[w]) + m, h)
           /\ Given(b, w, m, h) /\ Spared(a, h) => Given(c, w, Len(a[w]) + m, h)
<1>0. Ordered(a, b, c) /\ DOMAIN c = DOMAIN a /\ DOMAIN b = DOMAIN a
  BY CatOrders DEF CatIs
<1>1. \A u \in DOMAIN a : /\ Len(c[u]) = Len(a[u]) + Len(b[u]) /\ Len(a[u]) \in Nat /\ Len(b[u]) \in Nat
                          /\ \A k \in 1 .. Len(a[u]) : c[u][k] = a[u][k]
                          /\ \A k \in 1 .. Len(b[u]) : c[u][Len(a[u]) + k] = b[u][k]
  BY DEF CatIs
<1> PICK i : i = Len(a[w]) + m
  OBVIOUS
<1>2. ASSUME NEW u \in DOMAIN a, NEW k \in 1 .. Len(b[u]), <<u, k>> = <<w, m>> \/ Earlier(b, w, m, u, k)
      PROVE  <<u, Len(a[u]) + k>> = <<w, i>> \/ Earlier(c, w, i, u, Len(a[u]) + k)
  BY <1>0, <1>2 DEF Ordered
<1>3. ASSUME Fed(b, w, m, h) PROVE Fed(c, w, i, h)
  <2>1. PICK v \in DOMAIN a : \E j \in 1 .. Len(b[v]) :
          /\ Wrote(b, v, j, h) /\ Earlier(b, v, j, w, m)
          /\ \A u \in DOMAIN a : \A k \in 1 .. Len(b[u]) : WritesTo(b, u, k, h[1]) =>
                <<u, k>> \in {<<v, j>>, <<w, m>>} \/ Earlier(b, u, k, v, j) \/ Earlier(b, w, m, u, k)
    BY <1>3, <1>0 DEF Fed
  <2>2. PICK j \in 1 .. Len(b[v]) :
          /\ Wrote(b, v, j, h) /\ Earlier(b, v, j, w, m)
          /\ \A u \in DOMAIN a : \A k \in 1 .. Len(b[u]) : WritesTo(b, u, k, h[1]) =>
                <<u, k>> \in {<<v, j>>, <<w, m>>} \/ Earlier(b, u, k, v, j) \/ Earlier(b, w, m, u, k)
    BY <2>1
  <2> PICK s : s = Len(a[v]) + j
    OBVIOUS
  <2>3. s \in 1 .. Len(c[v]) /\ Wrote(c, v, s, h)
    <3>1. /\ Len(c[v]) = Len(a[v]) + Len(b[v]) /\ Len(a[v]) \in Nat /\ Len(b[v]) \in Nat
          /\ c[v][s] = b[v][j]
      BY ONLY <1>1, s = Len(a[v]) + j, j \in 1 .. Len(b[v]), v \in DOMAIN a
    <3>2. s \in 1 .. Len(c[v])
      BY ONLY <3>1, s = Len(a[v]) + j, j \in 1 .. Len(b[v])
    <3> QED
      BY <2>2, <3>1, <3>2 DEF Wrote
  <2>4. Earlier(c, v, s, w, i)
    BY <1>0, <2>2 DEF Ordered
  <2>5. ASSUME NEW u \in DOMAIN a, NEW k \in 1 .. Len(c[u]), WritesTo(c, u, k, h[1])
        PROVE  <<u, k>> \in {<<v, s>>, <<w, i>>} \/ Earlier(c, u, k, v, s) \/ Earlier(c, w, i, u, k)
    <3>1. CASE k \in 1 .. Len(a[u]) /\ WritesTo(a, u, k, h[1])
      BY <3>1, <1>0 DEF Ordered, WritesTo
    <3>2. ASSUME NEW q \in 1 .. Len(b[u]), k = Len(a[u]) + q, WritesTo(b, u, q, h[1])
          PROVE  <<u, k>> \in {<<v, s>>, <<w, i>>} \/ Earlier(c, u, k, v, s) \/ Earlier(c, w, i, u, k)
      <4>1. <<u, q>> = <<v, j>> \/ <<u, q>> = <<w, m>> \/ Earlier(b, u, q, v, j) \/ Earlier(b, w, m, u, q)
        BY <2>2, <3>2
      <4>2. CASE <<u, q>> = <<v, j>>
        BY <4>2, <3>2
      <4>3. CASE <<u, q>> = <<w, m>> \/ Earlier(b, w, m, u, q)
        BY <4>3, <3>2, <1>2
      <4>4. CASE Earlier(b, u, q, v, j)
        BY <4>4, <3>2, <1>0 DEF Ordered
      <4> QED
        BY <4>1, <4>2, <4>3, <4>4
    <3> QED
      BY <2>5, <3>1, <3>2, CatWrites
  <2> QED
    BY <1>0, <2>3, <2>4, <2>5 DEF Fed
<1>4. ASSUME Given(b, w, m, h), Last(a, h) PROVE Fed(c, w, i, h)
  <2>1. PICK v \in DOMAIN a : \E j \in 1 .. Len(a[v]) :
          /\ Wrote(a, v, j, h)
          /\ \A u \in DOMAIN a : \A k \in 1 .. Len(a[u]) : WritesTo(a, u, k, h[1]) =>
                <<u, k>> = <<v, j>> \/ Earlier(a, u, k, v, j)
    BY <1>4 DEF Last
  <2>2. PICK j \in 1 .. Len(a[v]) :
          /\ Wrote(a, v, j, h)
          /\ \A u \in DOMAIN a : \A k \in 1 .. Len(a[u]) : WritesTo(a, u, k, h[1]) =>
                <<u, k>> = <<v, j>> \/ Earlier(a, u, k, v, j)
    BY <2>1
  <2>3. j \in 1 .. Len(c[v]) /\ Wrote(c, v, j, h)
    <3>1. j \in 1 .. Len(c[v]) /\ c[v][j] = a[v][j]
      BY <1>1
    <3> QED
      BY <2>2, <3>1 DEF Wrote
  <2>4. Earlier(c, v, j, w, i)
    BY <1>0, <2>2 DEF Ordered, Wrote
  <2>5. ASSUME NEW u \in DOMAIN a, NEW k \in 1 .. Len(c[u]), WritesTo(c, u, k, h[1])
        PROVE  <<u, k>> \in {<<v, j>>, <<w, i>>} \/ Earlier(c, u, k, v, j) \/ Earlier(c, w, i, u, k)
    <3>1. CASE k \in 1 .. Len(a[u]) /\ WritesTo(a, u, k, h[1])
      BY <3>1, <2>2, <1>0 DEF Ordered
    <3>2. ASSUME NEW q \in 1 .. Len(b[u]), k = Len(a[u]) + q, WritesTo(b, u, q, h[1])
          PROVE  <<u, k>> = <<w, i>> \/ Earlier(c, w, i, u, k)
      BY <3>2, <1>0, <1>2, <1>4 DEF Given
    <3> QED
      BY <2>5, <3>1, <3>2, CatWrites
  <2> QED
    BY <1>0, <2>3, <2>4, <2>5 DEF Fed
<1>5. ASSUME Given(b, w, m, h), Spared(a, h) PROVE Given(c, w, i, h)
  <2> SUFFICES ASSUME NEW u \in DOMAIN a, NEW k \in 1 .. Len(c[u]), WritesTo(c, u, k, h[1])
               PROVE  <<u, k>> = <<w, i>> \/ Earlier(c, w, i, u, k)
    BY <1>0 DEF Given
  <2>1. ~(k \in 1 .. Len(a[u]) /\ WritesTo(a, u, k, h[1]))
    BY <1>5 DEF Spared
  <2>2. ASSUME NEW q \in 1 .. Len(b[u]), k = Len(a[u]) + q, WritesTo(b, u, q, h[1])
        PROVE  <<u, k>> = <<w, i>> \/ Earlier(c, w, i, u, k)
    BY <2>2, <1>0, <1>2, <1>5 DEF Given
  <2> QED
    BY <2>1, <2>2, CatWrites
<1> QED
  BY <1>3, <1>4, <1>5

\* What is there in the end.
LEMMA BothLeave ==
    ASSUME NEW a, NEW b, NEW c, NEW n \in Nat, CatIs(a, b, c, n), NEW h
    PROVE  /\ Last(b, h) => Last(c, h)
           /\ Spared(b, h) /\ Last(a, h) => Last(c, h)
           /\ Spared(b, h) /\ Spared(a, h) => Spared(c, h)
<1>0. Ordered(a, b, c) /\ DOMAIN c = DOMAIN a /\ DOMAIN b = DOMAIN a
  BY CatOrders DEF CatIs
<1>1. \A u \in DOMAIN a : /\ Len(c[u]) = Len(a[u]) + Len(b[u]) /\ Len(a[u]) \in Nat /\ Len(b[u]) \in Nat
                          /\ \A k \in 1 .. Len(a[u]) : c[u][k] = a[u][k]
                          /\ \A k \in 1 .. Len(b[u]) : c[u][Len(a[u]) + k] = b[u][k]
  BY DEF CatIs
<1>2. ASSUME Last(b, h) PROVE Last(c, h)
  <2>1. PICK v \in DOMAIN a : \E j \in 1 .. Len(b[v]) :
          /\ Wrote(b, v, j, h)
          /\ \A u \in DOMAIN a : \A k \in 1 .. Len(b[u]) : WritesTo(b, u, k, h[1]) =>
                <<u, k>> = <<v, j>> \/ Earlier(b, u, k, v, j)
    BY <1>2, <1>0 DEF Last
  <2>2. PICK j \in 1 .. Len(b[v]) :
          /\ Wrote(b, v, j, h)
          /\ \A u \in DOMAIN a : \A k \in 1 .. Len(b[u]) : WritesTo(b, u, k, h[1]) =>
                <<u, k>> = <<v, j>> \/ Earlier(b, u, k, v, j)
    BY <2>1
  <2> PICK s : s = Len(a[v]) + j
    OBVIOUS
  <2>3. s \in 1 .. Len(c[v]) /\ Wrote(c, v, s, h)
    <3>1. /\ Len(c[v]) = Len(a[v]) + Len(b[v]) /\ Len(a[v]) \in Nat /\ Len(b[v]) \in Nat
          /\ c[v][s] = b[v][j]
      BY ONLY <1>1, s = Len(a[v]) + j, j \in 1 .. Len(b[v]), v \in DOMAIN a
    <3>2. s \in 1 .. Len(c[v])
      BY ONLY <3>1, s = Len(a[v]) + j, j \in 1 .. Len(b[v])
    <3> QED
      BY <2>2, <3>1, <3>2 DEF Wrote
  <2>4. ASSUME NEW u \in DOMAIN a, NEW k \in 1 .. Len(c[u]), WritesTo(c, u, k, h[1])
        PROVE  <<u, k>> = <<v, s>> \/ Earlier(c, u, k, v, s)
    <3>1. CASE k \in 1 .. Len(a[u]) /\ WritesTo(a, u, k, h[1])
      BY <3>1, <1>0 DEF Ordered, WritesTo
    <3>2. ASSUME NEW q \in 1 .. Len(b[u]), k = Len(a[u]) + q, WritesTo(b, u, q, h[1])
          PROVE  <<u, k>> = <<v, s>> \/ Earlier(c, u, k, v, s)
      <4>1. <<u, q>> = <<v, j>> \/ Earlier(b, u, q, v, j)
        BY <2>2, <3>2
      <4>2. CASE <<u, q>> = <<v, j>>
        BY <4>2, <3>2
      <4>3. CASE Earlier(b, u, q, v, j)
        BY <4>3, <3>2, <1>0 DEF Ordered
      <4> QED
        BY <4>1, <4>2, <4>3
    <3>3. \/ k \in 1 .. Len(a[u]) /\ WritesTo(a, u, k, h[1])
          \/ \E q \in 1 .. Len(b[u]) : k = Len(a[u]) + q /\ WritesTo(b, u, q, h[1])
      BY ONLY <2>4, CatIs(a, b, c, n), CatWrites
    <3> QED
      BY <3>1, <3>2, <3>3
  <2> QED
    BY <1>0, <2>3, <2>4 DEF Last
<1>3. ASSUME Spared(b, h), NEW u \in DOMAIN a, NEW k \in 1 .. Len(c[u]), WritesTo(c, u, k, h[1])
      PROVE  k \in 1 .. Len(a[u]) /\ WritesTo(a, u, k, h[1])
  BY <1>0, <1>3, CatWrites DEF Spared
<1>4. ASSUME Spared(b, h), Last(a, h) PROVE Last(c, h)
  <2>1. PICK v \in DOMAIN a : \E j \in 1 .. Len(a[v]) :
          /\ Wrote(a, v, j, h)
          /\ \A u \in DOMAIN a : \A k \in 1 .. Len(a[u]) : WritesTo(a, u, k, h[1]) =>
                <<u, k>> = <<v, j>> \/ Earlier(a, u, k, v, j)
    BY <1>4 DEF Last
  <2>2. PICK j \in 1 .. Len(a[v]) :
          /\ Wrote(a, v, j, h)
          /\ \A u \in DOMAIN a : \A k \in 1 .. Len(a[u]) : WritesTo(a, u, k, h[1]) =>
                <<u, k>> = <<v, j>> \/ Earlier(a, u, k, v, j)
    BY <2>1
  <2>3. j \in 1 .. Len(c[v]) /\ Wrote(c, v, j, h)
    <3>1. j \in 1 .. Len(c[v]) /\ c[v][j] = a[v][j]
      BY <1>1
    <3> QED
      BY <2>2, <3>1 DEF Wrote
  <2>4. ASSUME NEW u \in DOMAIN a, NEW k \in 1 .. Len(c[u]), WritesTo(c, u, k, h[1])
        PROVE  <<u, k>> = <<v, j>> \/ Earlier(c, u, k, v, j)
    BY <2>4, <1>3, <1>4, <2>2, <1>0 DEF Ordered
  <2> QED
    BY <1>0, <2>3, <2>4 DEF Last
<1>5. ASSUME Spared(b, h), Spared(a, h) PROVE Spared(c, h)
  BY <1>5, <1>3, <1>0 DEF Spared
<1> QED
  BY <1>2, <1>4, <1>5

\* A barrier between two sound parts makes a sound whole.
LEMMA CatSound ==
    ASSUME NEW a, NEW b, NEW c, NEW n \in Nat, CatIs(a, b, c, n), NEW K, NEW L, NEW M,
           Sound(a, K, L), Sound(b, L, M)
    PROVE  Sound(c, K, M)
<1>0. DOMAIN c = DOMAIN a /\ DOMAIN b = DOMAIN a
  BY DEF CatIs
<1>1. RaceFree(c)
  BY CatRaceFree DEF Sound
<1>2. ReadsFrom(c, K)
  <2> SUFFICES ASSUME NEW w \in DOMAIN a, NEW i \in 1 .. Len(c[w]), ~c[w][i].sync, NEW h \in c[w][i].reads
               PROVE  Fed(c, w, i, h) \/ (h \in K /\ Given(c, w, i, h))
    BY <1>0 DEF ReadsFrom
  <2>1. CASE i \in 1 .. Len(a[w]) /\ c[w][i] = a[w][i]
    <3>1. ~a[w][i].sync /\ h \in a[w][i].reads
      BY <2>1
    <3>2. Fed(a, w, i, h) \/ (h \in K /\ Given(a, w, i, h))
      BY <2>1, <3>1 DEF Sound, ReadsFrom
    <3> QED
      BY <2>1, <3>1, <3>2, FirstReads
  <2>2. ASSUME NEW m \in 1 .. Len(b[w]), i = Len(a[w]) + m, c[w][i] = b[w][m]
        PROVE  Fed(c, w, i, h) \/ (h \in K /\ Given(c, w, i, h))
    <3>1. Fed(b, w, m, h) \/ (h \in L /\ Given(b, w, m, h))
      BY <2>2, <1>0 DEF Sound, ReadsFrom
    <3>2. h \in L => Last(a, h) \/ (h \in K /\ Spared(a, h))
      BY DEF Sound, Leaves
    <3>3. /\ Fed(b, w, m, h) => Fed(c, w, i, h)
          /\ Given(b, w, m, h) /\ Last(a, h) => Fed(c, w, i, h)
          /\ Given(b, w, m, h) /\ Spared(a, h) => Given(c, w, i, h)
      BY <2>2, SecondReads
    <3> QED
      BY <3>1, <3>2, <3>3
  <2> QED
    BY <2>1, <2>2, CatWrites
<1>3. Leaves(c, K, M)
  <2> SUFFICES ASSUME NEW h \in M PROVE Last(c, h) \/ (h \in K /\ Spared(c, h))
    BY DEF Leaves
  <2>1. Last(b, h) \/ (h \in L /\ Spared(b, h))
    BY DEF Sound, Leaves
  <2>2. h \in L => Last(a, h) \/ (h \in K /\ Spared(a, h))
    BY DEF Sound, Leaves
  <2> QED
    BY <2>1, <2>2, BothLeave
<1> QED
  BY <1>1, <1>2, <1>3 DEF Sound

\* The whole ends as its second part does.
LEMMA CatCloses ==
    ASSUME NEW a, NEW b, NEW c, NEW n \in Nat, CatIs(a, b, c, n)
    PROVE  /\ \A m \in Nat : Closed(b, m) => Closed(c, n + m)
           /\ BarriersAgree(b) => BarriersAgree(c)
<1>0. DOMAIN c = DOMAIN a /\ DOMAIN b = DOMAIN a
  BY DEF CatIs
<1>1. ASSUME NEW m \in Nat, Closed(b, m) PROVE Closed(c, n + m)
  <2> SUFFICES ASSUME NEW w \in DOMAIN a
               PROVE  /\ Passed(c[w], Len(c[w]) + 1) = n + m
                      /\ \A i \in 1 .. Len(c[w]) : ~c[w][i].sync => Passed(c[w], i) < n + m
    BY <1>0 DEF Closed
  <2>1. Passed(c[w], Len(c[w]) + 1) = n + m
    BY <1>0, <1>1 DEF Closed, CatIs
  <2>2. ASSUME NEW i \in 1 .. Len(a[w]), ~c[w][i].sync PROVE Passed(c[w], i) < n + m
    <3>1. /\ c[w][i] = a[w][i] /\ Passed(c[w], i) = Passed(a[w], i) /\ Passed(a[w], i) \in Nat
          /\ (~a[w][i].sync => Passed(a[w], i) < n)
      BY DEF CatIs
    <3>2. Passed(a[w], i) < n
      BY <2>2, <3>1
    <3> QED
      BY <3>1, <3>2
  <2>3. ASSUME NEW k \in 1 .. Len(b[w]), ~c[w][Len(a[w]) + k].sync
        PROVE  Passed(c[w], Len(a[w]) + k) < n + m
    <3>1. /\ c[w][Len(a[w]) + k] = b[w][k] /\ Passed(c[w], Len(a[w]) + k) = n + Passed(b[w], k)
          /\ Passed(b[w], k) \in Nat
      BY DEF CatIs
    <3>2. Passed(b[w], k) < m
      BY <2>3, <3>1, <1>0, <1>1 DEF Closed
    <3> QED
      BY <3>1, <3>2
  <2>4. \A i \in 1 .. Len(c[w]) : i \in 1 .. Len(a[w]) \/ \E k \in 1 .. Len(b[w]) : i = Len(a[w]) + k
    BY DEF CatIs
  <2> QED
    BY <2>1, <2>2, <2>3, <2>4
<1>2. ASSUME BarriersAgree(b) PROVE BarriersAgree(c)
  <2>1. \A w \in DOMAIN a : Passed(c[w], Len(c[w]) + 1) = n + Passed(b[w], Len(b[w]) + 1)
    BY DEF CatIs
  <2> QED
    BY <1>0, <1>2, <2>1 DEF BarriersAgree
<1> QED
  BY <1>1, <1>2

\* Waves that end at one barrier have met at the same barriers.
LEMMA ClosedAgrees == ASSUME NEW c, NEW n, Closed(c, n) PROVE BarriersAgree(c)
BY DEF Closed, BarriersAgree
-----------------------------------------------------------------------------
\* A piece of code that ends with a barrier, one that need not, for waves W.
Part(W, c, K, L) ==
    DOMAIN c = W /\ IsCode(c) /\ (\E n \in Nat : Closed(c, n)) /\ Sound(c, K, L)
Ending(W, c, K, L) == DOMAIN c = W /\ IsCode(c) /\ BarriersAgree(c) /\ Sound(c, K, L)

\* Parts in a row are a part.
LEMMA PartThenPart ==
    ASSUME NEW W, NEW a, NEW b, NEW K, NEW L, NEW M, Part(W, a, K, L), Part(W, b, L, M)
    PROVE  Part(W, Cat(a, b), K, M)
<1>1. PICK n \in Nat : Closed(a, n)
  BY DEF Part
<1>2. PICK m \in Nat : Closed(b, m)
  BY DEF Part
<1>3. IsCode(Cat(a, b)) /\ CatIs(a, b, Cat(a, b), n)
  BY <1>1, CatFacts DEF Part
<1>4. Closed(Cat(a, b), n + m) /\ n + m \in Nat
  BY <1>2, <1>3, CatCloses
<1>5. Sound(Cat(a, b), K, M)
  BY <1>3, CatSound DEF Part
<1>6. DOMAIN Cat(a, b) = W
  BY DEF Part, Cat
<1> QED
  BY <1>3, <1>4, <1>5, <1>6 DEF Part

\* A part and the end of the kernel are an end.
LEMMA PartThenEnding ==
    ASSUME NEW W, NEW a, NEW b, NEW K, NEW L, NEW M, Part(W, a, K, L), Ending(W, b, L, M)
    PROVE  Ending(W, Cat(a, b), K, M)
<1>1. PICK n \in Nat : Closed(a, n)
  BY DEF Part
<1>3. IsCode(Cat(a, b)) /\ CatIs(a, b, Cat(a, b), n)
  BY <1>1, CatFacts DEF Part, Ending
<1>4. BarriersAgree(Cat(a, b))
  BY <1>3, CatCloses DEF Ending
<1>5. Sound(Cat(a, b), K, M)
  BY <1>3, CatSound DEF Part, Ending
<1>6. DOMAIN Cat(a, b) = W
  BY DEF Part, Cat
<1> QED
  BY <1>3, <1>4, <1>5, <1>6 DEF Ending

\* A kernel may end with a barrier.
LEMMA PartIsEnding == ASSUME NEW W, NEW c, NEW K, NEW L, Part(W, c, K, L) PROVE Ending(W, c, K, L)
BY ClosedAgrees DEF Part, Ending
-----------------------------------------------------------------------------
\* Between two barriers: the waves keep apart, read what they were left and have not written
\* yet, and each wave's writes are its own.
Quiet(t) == IsCode(t) /\ \A w \in DOMAIN t : \A i \in 1 .. Len(t[w]) : ~t[w][i].sync
Apart(t) ==
    \A v, w \in DOMAIN t : v # w =>
        \A i \in 1 .. Len(t[v]), j \in 1 .. Len(t[w]) : ~Conflict(t[v][i], t[w][j])
ReadsOld(t, K) ==
    \A w \in DOMAIN t : \A i \in 1 .. Len(t[w]) : \A h \in t[w][i].reads :
        h \in K /\ \A k \in 1 .. i - 1 : h[1] \notin CellsOf(t[w][k].writes)
Puts(t, h) ==
    \E v \in DOMAIN t : \E j \in 1 .. Len(t[v]) :
        /\ h \in t[v][j].writes
        /\ \A u \in DOMAIN t : \A k \in 1 .. Len(t[u]) : h[1] \in CellsOf(t[u][k].writes) =>
              u = v /\ k <= j
Untouched(t, h) == \A u \in DOMAIN t : \A k \in 1 .. Len(t[u]) : h[1] \notin CellsOf(t[u][k].writes)
Orderly(t, K, L) ==
    Quiet(t) /\ Apart(t) /\ ReadsOld(t, K) /\ \A h \in L : Puts(t, h) \/ (h \in K /\ Untouched(t, h))

\* c is t, with a barrier or without.
Fenced(t, c) ==
    /\ IsCode(c) /\ DOMAIN c = DOMAIN t
    /\ \A w \in DOMAIN t :
          /\ Len(c[w]) \in {Len(t[w]), Len(t[w]) + 1}
          /\ \A i \in 1 .. Len(t[w]) : c[w][i] = t[w][i]
          /\ Len(c[w]) = Len(t[w]) + 1 => c[w][Len(t[w]) + 1].sync

\* Before its only barrier a phase has passed none.
LEMMA FencedIs ==
    ASSUME NEW t, Quiet(t), NEW c, Fenced(t, c), NEW w \in DOMAIN t
    PROVE  /\ \A i \in 1 .. Len(t[w]) + 1 : Passed(c[w], i) = 0
           /\ \A i \in 1 .. Len(c[w]) : ~c[w][i].sync <=> i \in 1 .. Len(t[w])
           /\ Len(t[w]) \in Nat
           /\ Len(c[w]) = Len(t[w]) => Passed(c[w], Len(c[w]) + 1) = 0
           /\ Len(c[w]) = Len(t[w]) + 1 => Passed(c[w], Len(c[w]) + 1) = 1
<1>0. Len(t[w]) \in Nat /\ Len(c[w]) \in Nat
  BY DEF Fenced, Quiet, IsCode, IsText
<1>1. \A i \in 1 .. Len(t[w]) : c[w][i] = t[w][i] /\ ~c[w][i].sync
  BY DEF Fenced, Quiet
<1>2. ASSUME NEW i \in 1 .. Len(t[w]) + 1 PROVE Passed(c[w], i) = 0
  <2>1. \A j \in 1 .. i - 1 : j \in 1 .. Len(t[w])
    BY <1>0
  <2>2. {j \in 1 .. i - 1 : c[w][j].sync} = {}
    BY <2>1, <1>1
  <2> QED
    BY <2>2, FS_EmptySet DEF Passed
<1>3. \A i \in 1 .. Len(c[w]) : ~c[w][i].sync <=> i \in 1 .. Len(t[w])
  <2> SUFFICES ASSUME NEW i \in 1 .. Len(c[w]) PROVE ~c[w][i].sync <=> i \in 1 .. Len(t[w])
    OBVIOUS
  <2>1. i \in 1 .. Len(t[w]) \/ (i = Len(t[w]) + 1 /\ Len(c[w]) = Len(t[w]) + 1)
    BY <1>0 DEF Fenced
  <2>2. CASE i = Len(t[w]) + 1 /\ Len(c[w]) = Len(t[w]) + 1
    <3>1. c[w][i].sync
      BY <2>2 DEF Fenced
    <3>2. i \notin 1 .. Len(t[w])
      BY <2>2, <1>0
    <3> QED
      BY <3>1, <3>2
  <2> QED
    BY <2>1, <2>2, <1>1
<1>4. Len(c[w]) = Len(t[w]) => Passed(c[w], Len(c[w]) + 1) = 0
  BY <1>0, <1>2
<1>5. ASSUME Len(c[w]) = Len(t[w]) + 1 PROVE Passed(c[w], Len(c[w]) + 1) = 1
  <2>1. c[w][Len(t[w]) + 1].sync
    BY <1>5 DEF Fenced
  <2>2. Passed(c[w], Len(t[w]) + 1) = 0
    BY <1>0, <1>2
  <2>3. Len(t[w]) + 1 \in Nat \ {0}
    BY <1>0
  <2> QED
    BY <1>5, <2>1, <2>2, <2>3, PassedNext
<1> QED
  BY <1>0, <1>2, <1>3, <1>4, <1>5

\* An orderly phase is sound.
LEMMA PhaseSound ==
    ASSUME NEW t, NEW K, NEW L, Orderly(t, K, L), NEW c, Fenced(t, c)
    PROVE  Sound(c, K, L)
<1>0. DOMAIN c = DOMAIN t /\ Quiet(t)
  BY DEF Orderly, Fenced
<1>1. ASSUME NEW w \in DOMAIN t, NEW i \in 1 .. Len(c[w]), ~c[w][i].sync
      PROVE  i \in 1 .. Len(t[w]) /\ c[w][i] = t[w][i] /\ Passed(c[w], i) = 0
  <2>1. i \in 1 .. Len(t[w])
    BY <1>0, <1>1, FencedIs
  <2>2. i \in 1 .. Len(t[w]) + 1
    BY <2>1, <1>0, FencedIs
  <2> QED
    BY <2>1, <2>2, <1>0, FencedIs DEF Fenced
<1>2. ASSUME NEW w \in DOMAIN t, NEW i \in 1 .. Len(t[w])
      PROVE  i \in 1 .. Len(c[w]) /\ c[w][i] = t[w][i] /\ ~c[w][i].sync
  <2>1. Len(t[w]) \in Nat /\ Len(c[w]) \in {Len(t[w]), Len(t[w]) + 1}
    BY <1>0, FencedIs DEF Fenced
  <2> QED
    BY <2>1, <1>0 DEF Fenced, Quiet
<1>3. RaceFree(c)
  <2> SUFFICES ASSUME NEW v \in DOMAIN t, NEW w \in DOMAIN t, v # w,
                      NEW i \in 1 .. Len(c[v]), NEW j \in 1 .. Len(c[w]),
                      ~c[v][i].sync, ~c[w][j].sync
               PROVE  ~Conflict(c[v][i], c[w][j])
    BY <1>0 DEF RaceFree
  <2> QED
    BY <1>1 DEF Orderly, Apart
<1>4. ASSUME NEW u \in DOMAIN t, NEW k \in 1 .. Len(c[u]), NEW cell, WritesTo(c, u, k, cell)
      PROVE  k \in 1 .. Len(t[u]) /\ cell \in CellsOf(t[u][k].writes) /\ Passed(c[u], k) = 0
  BY <1>4, <1>1 DEF WritesTo
<1>5. ReadsFrom(c, K)
  <2> SUFFICES ASSUME NEW w \in DOMAIN t, NEW i \in 1 .. Len(c[w]), ~c[w][i].sync, NEW h \in c[w][i].reads
               PROVE  h \in K /\ Given(c, w, i, h)
    BY <1>0 DEF ReadsFrom
  <2>1. i \in 1 .. Len(t[w]) /\ c[w][i] = t[w][i]
    BY <1>1
  <2>2. h \in K /\ \A k \in 1 .. i - 1 : h[1] \notin CellsOf(t[w][k].writes)
    BY <2>1 DEF Orderly, ReadsOld
  <2>3. ASSUME NEW u \in DOMAIN t, NEW k \in 1 .. Len(c[u]), WritesTo(c, u, k, h[1])
        PROVE  <<u, k>> = <<w, i>> \/ Earlier(c, w, i, u, k)
    <3>1. k \in 1 .. Len(t[u]) /\ h[1] \in CellsOf(t[u][k].writes)
      BY <2>3, <1>4
    <3>2. u = w
      <4>1. h[1] \in CellsOf(t[w][i].reads)
        BY <2>1 DEF CellsOf
      <4>2. Conflict(t[u][k], t[w][i])
        BY <3>1, <4>1 DEF Conflict
      <4> QED
        BY <2>1, <3>1, <4>2 DEF Orderly, Apart
    <3>3. Len(t[w]) \in Nat
      BY <1>0, FencedIs
    <3>4. ~(k \in 1 .. i - 1)
      BY <2>2, <3>1, <3>2
    <3>5. k = i \/ i < k
      BY <2>1, <3>1, <3>2, <3>3, <3>4
    <3> QED
      BY <3>2, <3>5 DEF Earlier
  <2> QED
    BY <1>0, <2>2, <2>3 DEF Given
<1>6. Leaves(c, K, L)
  <2> SUFFICES ASSUME NEW h \in L PROVE Last(c, h) \/ (h \in K /\ Spared(c, h))
    BY DEF Leaves
  <2>1. Puts(t, h) \/ (h \in K /\ Untouched(t, h))
    BY DEF Orderly
  <2>2. CASE Puts(t, h)
    <3>1. PICK v \in DOMAIN t : \E j \in 1 .. Len(t[v]) :
            /\ h \in t[v][j].writes
            /\ \A u \in DOMAIN t : \A k \in 1 .. Len(t[u]) : h[1] \in CellsOf(t[u][k].writes) =>
                  u = v /\ k <= j
      BY <2>2 DEF Puts
    <3>2. PICK j \in 1 .. Len(t[v]) :
            /\ h \in t[v][j].writes
            /\ \A u \in DOMAIN t : \A k \in 1 .. Len(t[u]) : h[1] \in CellsOf(t[u][k].writes) =>
                  u = v /\ k <= j
      BY <3>1
    <3>3. j \in 1 .. Len(c[v]) /\ Wrote(c, v, j, h)
      BY <3>2, <1>2 DEF Wrote
    <3>4. ASSUME NEW u \in DOMAIN t, NEW k \in 1 .. Len(c[u]), WritesTo(c, u, k, h[1])
          PROVE  <<u, k>> = <<v, j>> \/ Earlier(c, u, k, v, j)
      <4>1. u = v /\ k <= j /\ k \in 1 .. Len(t[v])
        BY <3>2, <3>4, <1>4
      <4>2. Len(t[v]) \in Nat
        BY <1>0, FencedIs
      <4>3. k = j \/ k < j
        BY <4>1, <4>2
      <4> QED
        BY <4>1, <4>3 DEF Earlier
    <3> QED
      BY <1>0, <3>3, <3>4 DEF Last
  <2>3. CASE h \in K /\ Untouched(t, h)
    <3>1. Spared(c, h)
      BY <2>3, <1>0, <1>4 DEF Spared, Untouched
    <3> QED
      BY <2>3, <3>1
  <2> QED
    BY <2>1, <2>2, <2>3
<1> QED
  BY <1>3, <1>5, <1>6 DEF Sound

\* A phase and its barrier pass one barrier.
LEMMA FencedCloses ==
    ASSUME NEW t, Quiet(t), NEW c, Fenced(t, c), \A w \in DOMAIN t : Len(c[w]) = Len(t[w]) + 1
    PROVE  Closed(c, 1)
<1> SUFFICES ASSUME NEW w \in DOMAIN t
             PROVE  /\ Passed(c[w], Len(c[w]) + 1) = 1
                    /\ \A i \in 1 .. Len(c[w]) : ~c[w][i].sync => Passed(c[w], i) < 1
  BY DEF Closed, Fenced
<1>1. Passed(c[w], Len(c[w]) + 1) = 1
  BY FencedIs
<1>2. ASSUME NEW i \in 1 .. Len(c[w]), ~c[w][i].sync PROVE Passed(c[w], i) < 1
  <2>1. i \in 1 .. Len(t[w]) /\ Len(t[w]) \in Nat
    BY <1>2, FencedIs
  <2>2. i \in 1 .. Len(t[w]) + 1
    BY <2>1
  <2>3. Passed(c[w], i) = 0
    BY <2>2, FencedIs
  <2> QED
    BY <2>3
<1> QED
  BY <1>1, <1>2

\* A barrier is a text of one statement.
LEMMA SyncIs == IsText(Sync) /\ Len(Sync) = 1 /\ Sync[1].sync
<1> DEFINE x == Sync[1]
<1>1. Sync = <<x>>
  BY DEF Sync
<1>2. x.sync = TRUE
  BY DEF Sync
<1> HIDE DEF x
<1>3. Len(Sync) = 1 /\ DOMAIN Sync = 1 .. 1 /\ Sync[1] = x
  BY <1>1
<1>4. Sync \in Seq({x})
  BY <1>1
<1>5. Sync \in [1 .. 1 -> {x}]
  BY <1>3, <1>4
<1>6. Len(Sync) \in Nat /\ Sync = [i \in 1 .. Len(Sync) |-> Sync[i]]
  BY <1>3, <1>5
<1>7. \A i \in 1 .. Len(Sync) : Sync[i].sync \in BOOLEAN
  <2>1. \A i \in 1 .. Len(Sync) : i = 1
    BY <1>3
  <2> QED
    BY <2>1, <1>2, <1>3
<1> QED
  BY <1>2, <1>3, <1>6, <1>7 DEF IsText

\* With a barrier it is a part, without one it can only be the last.
LEMMA PhaseIsPart ==
    ASSUME NEW t, NEW K, NEW L, Orderly(t, K, L), NEW c, c = [w \in DOMAIN t |-> t[w] \o Sync]
    PROVE  Part(DOMAIN t, c, K, L)
<1>1. IsText(Sync) /\ Len(Sync) = 1 /\ Sync[1].sync
  BY SyncIs
<1>2. ASSUME NEW w \in DOMAIN t
      PROVE  /\ IsText(c[w]) /\ Len(c[w]) = Len(t[w]) + 1 /\ Len(t[w]) \in Nat
             /\ \A i \in 1 .. Len(t[w]) : c[w][i] = t[w][i]
             /\ c[w][Len(t[w]) + 1].sync
  <2>1. IsText(t[w]) /\ Len(t[w]) \in Nat
    BY DEF Orderly, Quiet, IsCode, IsText
  <2>2. 1 \in 1 .. Len(Sync)
    BY <1>1
  <2>3. /\ IsText(t[w] \o Sync) /\ Len(t[w] \o Sync) = Len(t[w]) + 1
        /\ \A i \in 1 .. Len(t[w]) : (t[w] \o Sync)[i] = t[w][i]
        /\ (t[w] \o Sync)[Len(t[w]) + 1] = Sync[1]
    <3> DEFINE a == t[w]
    <3>1. IsText(a) /\ IsText(Sync)
      BY <1>1, <2>1
    <3> HIDE DEF a
    <3>2. /\ IsText(a \o Sync) /\ Len(a \o Sync) = Len(a) + Len(Sync)
          /\ \A i \in 1 .. Len(a) : (a \o Sync)[i] = a[i]
          /\ \A i \in 1 .. Len(Sync) : (a \o Sync)[Len(a) + i] = Sync[i]
      BY <3>1, TextCat
    <3>3. (a \o Sync)[Len(a) + 1] = Sync[1]
      BY <2>2, <3>2
    <3> QED
      BY <1>1, <3>2, <3>3 DEF a
  <2>4. c[w] = t[w] \o Sync
    OBVIOUS
  <2> QED
    BY <1>1, <2>1, <2>3, <2>4
<1>3. Fenced(t, c)
  BY <1>2 DEF Fenced, IsCode
<1>4. Sound(c, K, L)
  BY <1>3, PhaseSound
<1>5. Closed(c, 1)
  BY <1>2, <1>3, FencedCloses DEF Orderly
<1> QED
  BY <1>3, <1>4, <1>5 DEF Part, Fenced

\* A phase at the end of a kernel needs no barrier.
LEMMA PhaseIsEnding ==
    ASSUME NEW t, NEW K, NEW L, Orderly(t, K, L)
    PROVE  Ending(DOMAIN t, t, K, L)
<1>1. Fenced(t, t) /\ Quiet(t)
  BY DEF Fenced, Orderly, Quiet
<1>2. Sound(t, K, L)
  BY <1>1, PhaseSound
<1>3. BarriersAgree(t)
  BY <1>1, FencedIs DEF BarriersAgree
<1> QED
  BY <1>1, <1>2, <1>3 DEF Ending, Quiet
-----------------------------------------------------------------------------
\* No code is a part that changes nothing.
LEMMA NothingIsPart ==
    ASSUME NEW W, NEW K
    PROVE  Part(W, [w \in W |-> <<>>], K, K)
<1> DEFINE c == [w \in W |-> <<>>]
<1>1. DOMAIN c = W /\ \A w \in W : c[w] = <<>> /\ Len(c[w]) = 0
  BY EmptyText
<1>2. IsCode(c)
  BY <1>1, EmptyText DEF IsCode
<1> HIDE DEF c
<1>3. \A w \in W : Passed(c[w], Len(c[w]) + 1) = 0
  <2> SUFFICES ASSUME NEW w \in W PROVE Passed(c[w], Len(c[w]) + 1) = 0
    OBVIOUS
  <2>1. {j \in 1 .. Len(c[w]) + 1 - 1 : c[w][j].sync} = {}
    BY <1>1
  <2> QED
    BY <2>1, FS_EmptySet DEF Passed
<1>4. Closed(c, 0)
  BY <1>1, <1>3 DEF Closed
<1>5. Sound(c, K, K)
  BY <1>1 DEF Sound, RaceFree, ReadsFrom, Leaves, Spared
<1> QED
  BY <1>1, <1>2, <1>4, <1>5 DEF Part, c
-----------------------------------------------------------------------------
Rounds(W, first, end, B, K) == \A i \in first .. end - 1 : Part(W, [w \in W |-> B[w][i]], K[i], K[i + 1])

\* A loop whose rounds are parts that hand each other what they know is a part.
LEMMA LoopIsPart ==
    ASSUME NEW W, NEW first \in Nat, NEW end \in Nat, first <= end, NEW F, NEW B, NEW K,
           Unrolls(F, W, first, end, B), Rounds(W, first, end, B, K)
    PROVE  Part(W, [w \in W |-> F[w][end]], K[first], K[end])
<1> DEFINE n == end - first
           P(m) == Part(W, [w \in W |-> F[w][first + m]], K[first], K[first + m])
           S == {m \in 0 .. n : P(m)}
<1>0. n \in Nat /\ first + n = end /\ first + 0 = first
  OBVIOUS
<1>1. /\ \A w \in W : F[w][first] = <<>>
      /\ \A w \in W : \A i \in first .. end - 1 : F[w][i + 1] = F[w][i] \o B[w][i]
  <2>1. ASSUME NEW w \in W
        PROVE  F[w][first] = <<>> /\ \A i \in first .. end - 1 : F[w][i + 1] = F[w][i] \o B[w][i]
    <3>1. Goes(F[w], first, end, B[w])
      BY UnrolledIs DEF Unrolls
    <3> QED
      BY <3>1 DEF Goes
  <2> QED
    BY <2>1
<1>2. P(0)
  <2>1. [w \in W |-> F[w][first]] = [w \in W |-> <<>>]
    BY <1>1
  <2> QED
    BY <2>1, <1>0, NothingIsPart
<1>3. ASSUME NEW m \in 0 .. n - 1, P(m) PROVE P(m + 1)
  <2> DEFINE i == first + m
             a == [w \in W |-> F[w][i]]
             b == [w \in W |-> B[w][i]]
  <2>1. i \in first .. end - 1 /\ first + (m + 1) = i + 1
    OBVIOUS
  <2>2. Part(W, a, K[first], K[i])
    BY <1>3
  <2>3. Part(W, b, K[i], K[i + 1])
    BY <2>1 DEF Rounds
  <2>4. Cat(a, b) = [w \in W |-> F[w][i + 1]]
    BY <1>1, <2>1 DEF Cat
  <2>5. Part(W, Cat(a, b), K[first], K[i + 1])
    <3> HIDE DEF a, b, i
    <3> QED
      BY <2>2, <2>3, PartThenPart
  <2> QED
    BY <2>1, <2>4, <2>5
<1> HIDE DEF P
<1>4. 0 \in S /\ \A m \in 0 .. n - 1 : m \in S => m + 1 \in S
  BY <1>0, <1>2, <1>3
<1> HIDE DEF S
<1>5. 0 .. n \subseteq S
  BY <1>0, <1>4, Reach
<1>6. P(n)
  BY <1>0, <1>5 DEF S
<1> QED
  BY <1>0, <1>6 DEF P
-----------------------------------------------------------------------------
\* What a wave does in a phase: it reads R, not what it wrote itself, and leaves V.
Stage(s, R, V) ==
    /\ IsText(s)
    /\ \A i \in 1 .. Len(s) : /\ ~s[i].sync /\ s[i].reads \subseteq R
                              /\ CellsOf(s[i].writes) \subseteq CellsOf(V)
    /\ \A i \in 1 .. Len(s) : \A h \in s[i].reads : \A k \in 1 .. i - 1 : h[1] \notin CellsOf(s[k].writes)
    /\ \A h \in V : \E i \in 1 .. Len(s) :
          h \in s[i].writes /\ \A k \in 1 .. Len(s) : h[1] \in CellsOf(s[k].writes) => k <= i

\* The cells of two sets together.
LEMMA CellsOfUnion == \A A, B : CellsOf(A \cup B) = CellsOf(A) \cup CellsOf(B)
BY DEF CellsOf

\* The cell of one entry.
LEMMA CellsOfOne == \A c, x : CellsOf({<<c, x>>}) = {c}
BY DEF CellsOf

\* Nothing has no cells.
LEMMA CellsOfNone == CellsOf({}) = {}
BY DEF CellsOf

\* A wave may do nothing in a phase.
LEMMA StageNothing == ASSUME NEW R PROVE Stage(<<>>, R, {})
BY EmptyText DEF Stage

\* A statement is a text of one record.
LEMMA DoIs ==
    ASSUME NEW R, NEW V
    PROVE  IsText(Do(R, V)) /\ Len(Do(R, V)) = 1 /\ Do(R, V)[1] = [sync |-> FALSE, reads |-> R, writes |-> V]
<1> DEFINE x == [sync |-> FALSE, reads |-> R, writes |-> V]
<1>1. Do(R, V) = <<x>>
  BY DEF Do
<1>0. x.sync = FALSE
  OBVIOUS
<1> HIDE DEF x
<1> DEFINE s == <<x>>
<1>2. Len(s) = 1 /\ DOMAIN s = 1 .. 1 /\ s[1] = x
  OBVIOUS
<1>3. s \in Seq({x})
  OBVIOUS
<1> HIDE DEF s
<1>4. s \in [1 .. 1 -> {x}]
  BY <1>2, <1>3
<1>5. s = [i \in 1 .. 1 |-> s[i]]
  BY <1>4
<1>6. \A i \in 1 .. Len(s) : i = 1
  BY <1>2
<1>7. IsText(s)
  <2>1. Len(s) \in Nat /\ s = [i \in 1 .. Len(s) |-> s[i]]
    BY <1>2, <1>5
  <2>2. \A i \in 1 .. Len(s) : s[i].sync \in BOOLEAN
    BY <1>0, <1>2, <1>6
  <2> QED
    BY <2>1, <2>2 DEF IsText
<1> QED
  BY <1>1, <1>2, <1>7 DEF s, x

\* A statement is a stage.
LEMMA StageDo == ASSUME NEW R, NEW V PROVE Stage(Do(R, V), R, V)
<1> DEFINE s == Do(R, V)
<1>1. IsText(s) /\ Len(s) = 1 /\ s[1].sync = FALSE /\ s[1].reads = R /\ s[1].writes = V
  <2>1. IsText(s) /\ Len(s) = 1 /\ s[1] = [sync |-> FALSE, reads |-> R, writes |-> V]
    BY DoIs
  <2> HIDE DEF s
  <2> QED
    BY <2>1
<1>2. \A i \in 1 .. Len(s) : i = 1
  BY <1>1
<1>3. 1 \in 1 .. Len(s) /\ 1 <= 1
  BY <1>1
<1> HIDE DEF s
<1> QED
  BY <1>1, <1>2, <1>3 DEF Stage, s

\* One after the other.
Apiece(V, R2, Vn) == CellsOf(V) \cap CellsOf(R2) = {} /\ CellsOf(V) \cap CellsOf(Vn) = {}

\* Stages in a row are a stage when the second leaves the cells of the first alone.
LEMMA StageThen ==
    ASSUME NEW s, NEW R, NEW V, Stage(s, R, V), NEW s2, NEW R2, NEW Vn, Stage(s2, R2, Vn), Apiece(V, R2, Vn)
    PROVE  Stage(s \o s2, R \cup R2, V \cup Vn)
<1> DEFINE c == s \o s2
           n == Len(s)
           m == Len(s2)
<1>1. /\ IsText(c) /\ Len(c) = n + m /\ n \in Nat /\ m \in Nat
      /\ \A i \in 1 .. n : c[i] = s[i]
      /\ \A i \in 1 .. m : c[n + i] = s2[i]
  <2>1. IsText(s) /\ IsText(s2)
    BY DEF Stage
  <2>2. n \in Nat /\ m \in Nat
    BY <2>1 DEF IsText
  <2>3. /\ IsText(c) /\ Len(c) = n + m
        /\ \A i \in 1 .. n : c[i] = s[i]
        /\ \A i \in 1 .. m : c[n + i] = s2[i]
    BY ONLY <2>1, TextCat
  <2> QED
    BY <2>2, <2>3
<1> HIDE DEF c, n, m
<1>2. ASSUME NEW i \in 1 .. n + m
      PROVE  \/ i \in 1 .. n /\ c[i] = s[i]
             \/ \E j \in 1 .. m : i = n + j /\ c[i] = s2[j]
  <2>1. CASE i \in 1 .. n
    BY <2>1, <1>1
  <2>2. CASE i \notin 1 .. n
    <3>1. i - n \in 1 .. m /\ i = n + (i - n)
      BY <2>2, <1>1
    <3> QED
      BY <3>1, <1>1
  <2> QED
    BY <2>1, <2>2
<1>3. /\ \A i \in 1 .. n : /\ ~s[i].sync /\ s[i].reads \subseteq R /\ CellsOf(s[i].writes) \subseteq CellsOf(V)
      /\ \A i \in 1 .. m : /\ ~s2[i].sync /\ s2[i].reads \subseteq R2 /\ CellsOf(s2[i].writes) \subseteq CellsOf(Vn)
  BY DEF Stage, n, m
<1>4. \A i \in 1 .. n + m : /\ ~c[i].sync /\ c[i].reads \subseteq R \cup R2
                            /\ CellsOf(c[i].writes) \subseteq CellsOf(V \cup Vn)
  <2> SUFFICES ASSUME NEW i \in 1 .. n + m
               PROVE  /\ ~c[i].sync /\ c[i].reads \subseteq R \cup R2
                      /\ CellsOf(c[i].writes) \subseteq CellsOf(V \cup Vn)
    OBVIOUS
  <2>1. CellsOf(V \cup Vn) = CellsOf(V) \cup CellsOf(Vn)
    BY CellsOfUnion
  <2> QED
    BY <1>2, <1>3, <2>1
<1>5. ASSUME NEW i \in 1 .. n + m, NEW h \in c[i].reads, NEW k \in 1 .. i - 1
      PROVE  h[1] \notin CellsOf(c[k].writes)
  <2>1. k \in 1 .. n + m /\ k \in Nat /\ i \in Nat /\ k < i
    BY <1>1
  <2>2. CASE i \in 1 .. n /\ c[i] = s[i]
    <3>1. k \in 1 .. n
      BY <2>1, <2>2, <1>1
    <3>2. c[k] = s[k]
      BY <3>1, <1>1
    <3> QED
      BY <2>2, <3>1, <3>2 DEF Stage, n
  <2>3. CASE \E j \in 1 .. m : i = n + j /\ c[i] = s2[j]
    <3>1. PICK j \in 1 .. m : i = n + j /\ c[i] = s2[j]
      BY <2>3
    <3>2. CASE k \in 1 .. n /\ c[k] = s[k]
      <4>1. h[1] \in CellsOf(R2)
        BY <3>1, <1>3 DEF CellsOf
      <4>2. CellsOf(c[k].writes) \subseteq CellsOf(V)
        BY <3>2, <1>3
      <4> QED
        BY <4>1, <4>2 DEF Apiece
    <3>3. CASE \E l \in 1 .. m : k = n + l /\ c[k] = s2[l]
      <4>1. PICK l \in 1 .. m : k = n + l /\ c[k] = s2[l]
        BY <3>3
      <4>2. l \in 1 .. j - 1
        BY <4>1, <3>1, <2>1, <1>1
      <4> QED
        BY <3>1, <4>1, <4>2 DEF Stage, m
    <3> QED
      BY <2>1, <1>2, <3>2, <3>3
  <2> QED
    BY <1>2, <2>2, <2>3
<1>6. ASSUME NEW h \in V \cup Vn
      PROVE  \E i \in 1 .. n + m :
                h \in c[i].writes /\ \A k \in 1 .. n + m : h[1] \in CellsOf(c[k].writes) => k <= i
  <2>1. CASE h \in V
    <3>1. PICK i \in 1 .. n : h \in s[i].writes /\ \A k \in 1 .. n : h[1] \in CellsOf(s[k].writes) => k <= i
      BY <2>1 DEF Stage, n
    <3>2. i \in 1 .. n + m /\ h \in c[i].writes
      BY <3>1, <1>1
    <3>3. ASSUME NEW k \in 1 .. n + m, h[1] \in CellsOf(c[k].writes) PROVE k <= i
      <4>1. h[1] \in CellsOf(V)
        BY <2>1 DEF CellsOf
      <4>2. k \in 1 .. n /\ c[k] = s[k]
        BY <4>1, <3>3, <1>2, <1>3 DEF Apiece
      <4> QED
        BY <3>1, <3>3, <4>2
    <3> QED
      BY <3>2, <3>3
  <2>2. CASE h \in Vn
    <3>1. PICK j \in 1 .. m : h \in s2[j].writes /\ \A k \in 1 .. m : h[1] \in CellsOf(s2[k].writes) => k <= j
      BY <2>2 DEF Stage, m
    <3>2. n + j \in 1 .. n + m /\ h \in c[n + j].writes
      BY <3>1, <1>1
    <3>3. ASSUME NEW k \in 1 .. n + m, h[1] \in CellsOf(c[k].writes) PROVE k <= n + j
      <4>1. CASE k \in 1 .. n
        BY <4>1, <1>1
      <4>2. CASE \E l \in 1 .. m : k = n + l /\ c[k] = s2[l]
        <5>1. PICK l \in 1 .. m : k = n + l /\ c[k] = s2[l]
          BY <4>2
        <5>2. l <= j
          BY <3>1, <3>3, <5>1
        <5> QED
          BY <5>1, <5>2, <1>1
      <4> QED
        BY <1>2, <4>1, <4>2
    <3> QED
      BY <3>2, <3>3
  <2> QED
    BY <2>1, <2>2
<1> QED
  BY <1>1, <1>4, <1>5, <1>6 DEF Stage, c
-----------------------------------------------------------------------------
\* The waves of a phase that starts with K and leaves L: each keeps off the others' cells.
Stages(W, t, R, V) == DOMAIN t = W /\ \A w \in W : Stage(t[w], R[w], V[w])
Team(W, R, V, K, L) ==
    /\ \A w \in W : R[w] \subseteq K
    /\ \A v, w \in W : v # w => CellsOf(V[v]) \cap (CellsOf(R[w]) \cup CellsOf(V[w])) = {}
    /\ \A h \in L : \/ \E v \in W : h \in V[v]
                    \/ h \in K /\ \A u \in W : h[1] \notin CellsOf(V[u])

\* A team of stages is an orderly phase.
LEMMA StagesOrderly ==
    ASSUME NEW W, NEW t, NEW R, NEW V, NEW K, NEW L, Stages(W, t, R, V), Team(W, R, V, K, L)
    PROVE  Orderly(t, K, L)
<1>0. DOMAIN t = W
  BY DEF Stages
<1>1. \A w \in W : \A i \in 1 .. Len(t[w]) :
        /\ ~t[w][i].sync /\ t[w][i].reads \subseteq R[w] /\ CellsOf(t[w][i].writes) \subseteq CellsOf(V[w])
        /\ CellsOf(t[w][i].reads) \subseteq CellsOf(R[w])
  BY DEF Stages, Stage, CellsOf
<1>2. Quiet(t)
  BY <1>0, <1>1 DEF Quiet, IsCode, Stages, Stage
<1>3. Apart(t)
  <2> SUFFICES ASSUME NEW v \in W, NEW w \in W, v # w, NEW i \in 1 .. Len(t[v]), NEW j \in 1 .. Len(t[w])
               PROVE  ~Conflict(t[v][i], t[w][j])
    BY <1>0 DEF Apart
  <2>1. CellsOf(V[v]) \cap (CellsOf(R[w]) \cup CellsOf(V[w])) = {}
    BY DEF Team
  <2> QED
    BY <1>1, <2>1 DEF Conflict
<1>4. ReadsOld(t, K)
  BY <1>0, <1>1 DEF ReadsOld, Stages, Stage, Team
<1>5. ASSUME NEW h \in L PROVE Puts(t, h) \/ (h \in K /\ Untouched(t, h))
  <2>1. CASE \E v \in W : h \in V[v]
    <3>1. PICK v \in W : h \in V[v]
      BY <2>1
    <3>2. PICK j \in 1 .. Len(t[v]) :
             h \in t[v][j].writes /\ \A k \in 1 .. Len(t[v]) : h[1] \in CellsOf(t[v][k].writes) => k <= j
      BY <3>1 DEF Stages, Stage
    <3>3. ASSUME NEW u \in W, NEW k \in 1 .. Len(t[u]), h[1] \in CellsOf(t[u][k].writes) PROVE u = v /\ k <= j
      <4>1. h[1] \in CellsOf(V[v]) /\ h[1] \in CellsOf(V[u])
        BY <3>1, <3>3, <1>1 DEF CellsOf
      <4>2. u = v
        BY <4>1 DEF Team
      <4> QED
        BY <3>2, <3>3, <4>2
    <3> QED
      BY <1>0, <3>2, <3>3 DEF Puts
  <2>2. CASE h \in K /\ \A u \in W : h[1] \notin CellsOf(V[u])
    BY <2>2, <1>0, <1>1 DEF Untouched
  <2> QED
    BY <2>1, <2>2 DEF Team
<1> QED
  BY <1>2, <1>3, <1>4, <1>5 DEF Orderly

\* A team and a barrier are a part.
LEMMA TeamPart ==
    ASSUME NEW W, NEW t, NEW R, NEW V, NEW K, NEW L, Stages(W, t, R, V), Team(W, R, V, K, L)
    PROVE  Part(W, [w \in W |-> t[w] \o Sync], K, L)
<1>1. Orderly(t, K, L) /\ DOMAIN t = W
  BY StagesOrderly DEF Stages
<1> QED
  BY <1>1, PhaseIsPart

\* A team may be the end of a kernel.
LEMMA TeamEnding ==
    ASSUME NEW W, NEW t, NEW R, NEW V, NEW K, NEW L, Stages(W, t, R, V), Team(W, R, V, K, L)
    PROVE  Ending(W, t, K, L)
<1>1. Orderly(t, K, L) /\ DOMAIN t = W
  BY StagesOrderly DEF Stages
<1> QED
  BY <1>1, PhaseIsEnding
-----------------------------------------------------------------------------
\* The cells of a wave's share and of whole buffers.
LEMMA CellsOfOwn ==
    ASSUME NEW bufs, NEW slot, NEW x
    PROVE  /\ \A w : CellsOf(OwnOf(bufs, slot, w, x)) = {<<b, slot, w>> : b \in bufs}
           /\ \A W : CellsOf(AllOf(bufs, slot, W, x)) = {<<b, slot, w>> : b \in bufs, w \in W}
           /\ \A W : \A w \in W : OwnOf(bufs, slot, w, x) \subseteq AllOf(bufs, slot, W, x)
           /\ \A W : \A h \in AllOf(bufs, slot, W, x) : \E w \in W : h \in OwnOf(bufs, slot, w, x)
<1>0. \A c : <<c, x>>[1] = c
  OBVIOUS
<1>1. ASSUME NEW w PROVE CellsOf(OwnOf(bufs, slot, w, x)) = {<<b, slot, w>> : b \in bufs}
  <2> DEFINE S == OwnOf(bufs, slot, w, x)
             c(b) == <<b, slot, w>>
  <2>1. S = {<<c(b), x>> : b \in bufs}
    BY DEF OwnOf
  <2> HIDE DEF S, c
  <2>2. {h[1] : h \in S} = {c(b) : b \in bufs}
    BY <2>1, <1>0
  <2> QED
    BY <2>2 DEF CellsOf, S, c
<1>2. ASSUME NEW W PROVE CellsOf(AllOf(bufs, slot, W, x)) = {<<b, slot, w>> : b \in bufs, w \in W}
  <2> DEFINE S == AllOf(bufs, slot, W, x)
             c(b, w) == <<b, slot, w>>
  <2>1. S = {<<c(b, w), x>> : b \in bufs, w \in W}
    BY DEF AllOf
  <2> HIDE DEF S, c
  <2>2. {h[1] : h \in S} = {c(b, w) : b \in bufs, w \in W}
    <3>1. ASSUME NEW h \in S PROVE \E b \in bufs, w \in W : h[1] = c(b, w)
      <4>1. PICK b \in bufs, w \in W : h = <<c(b, w), x>>
        BY <2>1
      <4>2. h[1] = c(b, w)
        BY <4>1, <1>0
      <4> QED
        BY <4>2
    <3>2. ASSUME NEW b \in bufs, NEW w \in W PROVE \E h \in S : h[1] = c(b, w)
      <4>1. <<c(b, w), x>> \in S /\ <<c(b, w), x>>[1] = c(b, w)
        BY <2>1, <1>0
      <4> QED
        BY <4>1
    <3> QED
      BY <3>1, <3>2
  <2> QED
    BY <2>2 DEF CellsOf, S, c
<1>3. \A W : \A w \in W : OwnOf(bufs, slot, w, x) \subseteq AllOf(bufs, slot, W, x)
  BY DEF AllOf, OwnOf
<1>4. \A W : \A h \in AllOf(bufs, slot, W, x) : \E w \in W : h \in OwnOf(bufs, slot, w, x)
  BY DEF AllOf, OwnOf
<1> QED
  BY <1>1, <1>2, <1>3, <1>4

\* None of these lies in the slot.
Off(S, bufs, slot) == \A c \in CellsOf(S) : \A b \in bufs : \A w : c # <<b, slot, w>>

\* Each wave stages its share of the slot, whatever is read elsewhere.
LEMMA Staging ==
    ASSUME NEW W, NEW bufs, NEW slot, NEW x, NEW R, NEW K, NEW S, NEW L, S \subseteq K, Off(S, bufs, slot),
           \A w \in W : R[w] \subseteq K /\ Off(R[w], bufs, slot), L \subseteq S \cup AllOf(bufs, slot, W, x)
    PROVE  Team(W, R, [w \in W |-> OwnOf(bufs, slot, w, x)], K, L)
<1> DEFINE V == [w \in W |-> OwnOf(bufs, slot, w, x)]
<1>1. \A w \in W : CellsOf(V[w]) = {<<b, slot, w>> : b \in bufs}
  BY CellsOfOwn
<1>2. ASSUME NEW v \in W, NEW w \in W, v # w PROVE CellsOf(V[v]) \cap (CellsOf(R[w]) \cup CellsOf(V[w])) = {}
  <2>1. CellsOf(V[v]) \cap CellsOf(V[w]) = {}
    BY <1>1, <1>2
  <2>2. CellsOf(V[v]) \cap CellsOf(R[w]) = {}
    BY <1>1 DEF Off
  <2> QED
    BY <2>1, <2>2
<1>3. ASSUME NEW h \in L
      PROVE  (\E v \in W : h \in V[v]) \/ (h \in K /\ \A u \in W : h[1] \notin CellsOf(V[u]))
  <2>1. CASE h \in S
    <3>1. h[1] \in CellsOf(S)
      BY <2>1 DEF CellsOf
    <3> QED
      BY <2>1, <3>1, <1>1 DEF Off
  <2>2. CASE h \in AllOf(bufs, slot, W, x)
    BY <2>2, CellsOfOwn
  <2> QED
    BY <2>1, <2>2
<1> HIDE DEF V
<1> QED
  BY <1>2, <1>3 DEF Team, V

\* Everybody reads.
LEMMA Reading ==
    ASSUME NEW W, NEW R, NEW K, NEW L, L \subseteq K, \A w \in W : R[w] \subseteq K
    PROVE  Team(W, R, [w \in W |-> {}], K, L)
BY CellsOfNone DEF Team

\* Outputs of their own.
LEMMA CellsOfResult == ASSUME NEW P, NEW x PROVE CellsOf(Result(P, x)) = {<<"out", p>> : p \in P}
<1> DEFINE S == Result(P, x)
           c(p) == <<"out", p>>
<1>1. S = {<<c(p), x>> : p \in P}
  BY DEF Result
<1>2. \A d : <<d, x>>[1] = d
  OBVIOUS
<1> HIDE DEF S, c
<1>3. {h[1] : h \in S} = {c(p) : p \in P}
  BY <1>1, <1>2
<1> QED
  BY <1>3 DEF CellsOf, S, c

Inside(S) == \A c \in CellsOf(S) : \A p : c # <<"out", p>>

Reads(W, R, K) == \A w \in W : R[w] \subseteq K /\ Inside(R[w])
Distinct(W, P) == \A v, w \in W : v # w => P[v] \cap P[w] = {}
Outputs(W, P, x) == [w \in W |-> Result(P[w], x)]

\* Waves that store distinct outputs are a team.
LEMMA Storing ==
    ASSUME NEW W, NEW R, NEW K, NEW P, NEW x, Reads(W, R, K), Distinct(W, P)
    PROVE  Team(W, R, Outputs(W, P, x), K, {})
<1> DEFINE V == [w \in W |-> Result(P[w], x)]
<1>1. \A w \in W : CellsOf(V[w]) = {<<"out", p>> : p \in P[w]}
  BY CellsOfResult
<1>2. ASSUME NEW v \in W, NEW w \in W, v # w PROVE CellsOf(V[v]) \cap (CellsOf(R[w]) \cup CellsOf(V[w])) = {}
  <2>1. CellsOf(V[v]) \cap CellsOf(V[w]) = {}
    BY <1>1, <1>2 DEF Distinct
  <2>2. CellsOf(V[v]) \cap CellsOf(R[w]) = {}
    BY <1>1 DEF Inside, Reads
  <2> QED
    BY <2>1, <2>2
<1>3. V = Outputs(W, P, x)
  BY DEF Outputs
<1> HIDE DEF V
<1>4. Team(W, R, V, K, {})
  BY <1>2 DEF Team, Reads
<1> QED
  BY <1>3, <1>4
-----------------------------------------------------------------------------
\* Every wave runs its bodies.
Loops(c, W, first, end, B) ==
    /\ c = [w \in W |-> c[w]]
    /\ \A w \in W : \E f : Unrolled(f, first, end, B[w]) /\ c[w] = f[end]

\* LoopIsPart for code that is given as a function.
LEMMA LoopsArePart ==
    ASSUME NEW W, NEW first \in Nat, NEW end \in Nat, first <= end, NEW c, NEW B, NEW K,
           Loops(c, W, first, end, B), Rounds(W, first, end, B, K)
    PROVE  Part(W, c, K[first], K[end])
<1> DEFINE F == [w \in W |-> CHOOSE f : Unrolled(f, first, end, B[w]) /\ c[w] = f[end]]
<1>1. ASSUME NEW w \in W PROVE Unrolled(F[w], first, end, B[w]) /\ c[w] = F[w][end]
  <2>1. \E f : Unrolled(f, first, end, B[w]) /\ c[w] = f[end]
    BY DEF Loops
  <2> QED
    BY <2>1
<1> HIDE DEF F
<1>2. Unrolls(F, W, first, end, B)
  BY <1>1 DEF Unrolls
<1>3. Part(W, [w \in W |-> F[w][end]], K[first], K[end])
  BY <1>2, LoopIsPart
<1>4. c = [w \in W |-> F[w][end]]
  BY <1>1 DEF Loops
<1> QED
  BY <1>3, <1>4

\* Rounds that are parts are texts.
LEMMA RoundsAreTexts ==
    ASSUME NEW W, NEW first, NEW end, NEW B, NEW K, Rounds(W, first, end, B, K), NEW w \in W
    PROVE  Bodies(first, end, B[w])
<1> SUFFICES ASSUME NEW i \in first .. end - 1 PROVE IsText(B[w][i])
  BY DEF Bodies
<1> DEFINE c == [v \in W |-> B[v][i]]
<1>1. IsCode(c)
  BY DEF Rounds, Part
<1> QED
  BY <1>1 DEF IsCode

\* A barrier after a text is a text.
LEMMA Fence == ASSUME NEW a, IsText(a) PROVE IsText(a \o Sync)
BY SyncIs, TextCat

\* Two phases with a barrier each.
LEMMA TwoPhases ==
    ASSUME NEW W, NEW t, NEW s, NEW R, NEW V, NEW Q, NEW X, NEW K, NEW L, NEW M,
           Stages(W, t, R, V), Team(W, R, V, K, L), Stages(W, s, Q, X), Team(W, Q, X, L, M)
    PROVE  Part(W, [w \in W |-> t[w] \o Sync \o s[w] \o Sync], K, M)
<1> DEFINE a == [w \in W |-> t[w] \o Sync]
           b == [w \in W |-> s[w] \o Sync]
<1>1. Part(W, a, K, L)
  BY TeamPart
<1>2. Part(W, b, L, M)
  BY TeamPart
<1>3. Cat(a, b) = [w \in W |-> a[w] \o b[w]]
  BY DEF Cat
<1>4. ASSUME NEW w \in W PROVE a[w] \o b[w] = t[w] \o Sync \o s[w] \o Sync
  <2>1. IsText(t[w]) /\ IsText(s[w]) /\ IsText(Sync)
    BY SyncIs DEF Stages, Stage
  <2>2. a[w] = t[w] \o Sync /\ b[w] = s[w] \o Sync
    OBVIOUS
  <2>3. (t[w] \o Sync \o s[w]) \o Sync = (t[w] \o Sync) \o (s[w] \o Sync)
    <3>1. PICK x, y : x = t[w] \o Sync /\ y = s[w]
      OBVIOUS
    <3>2. IsText(x) /\ IsText(y) /\ IsText(Sync)
      BY <2>1, <3>1, Fence
    <3>3. (x \o y) \o Sync = x \o (y \o Sync)
      BY <3>2, TextAssoc
    <3> QED
      BY <3>1, <3>3
  <2> QED
    BY <2>2, <2>3
<1>5. Cat(a, b) = [w \in W |-> t[w] \o Sync \o s[w] \o Sync]
  BY <1>3, <1>4
<1> HIDE DEF a, b
<1>6. Part(W, Cat(a, b), K, M)
  BY <1>1, <1>2, PartThenPart
<1> QED
  BY <1>5, <1>6
-----------------------------------------------------------------------------
\* The single buffer.
SerialBody(bufs, w, W, sc, g) == Do(sc, Own(bufs, w, g)) \o Sync \o Do(All(bufs, W, g), {}) \o Sync

\* A round of the single buffer: what is staged is read before it is staged again.
LEMMA SerialRound ==
    ASSUME NEW W, NEW bufs, NEW S, NEW sc, sc \subseteq S, Off(S, bufs, 0), NEW g
    PROVE  Part(W, [w \in W |-> SerialBody(bufs, w, W, sc, g)], S, S)
<1> DEFINE t == [w \in W |-> Do(sc, Own(bufs, w, g))]
           s == [w \in W |-> Do(All(bufs, W, g), {})]
           R == [w \in W |-> sc]
           V == [w \in W |-> OwnOf(bufs, 0, w, g)]
           Q == [w \in W |-> AllOf(bufs, 0, W, g)]
           X == [w \in W |-> {}]
           L == S \cup AllOf(bufs, 0, W, g)
<1>1. Stages(W, t, R, V) /\ Stages(W, s, Q, X)
  BY StageDo DEF Stages, Own, All
<1>2. Team(W, R, V, S, L)
  <2>1. Off(sc, bufs, 0)
    BY DEF Off, CellsOf
  <2> QED
    BY <2>1, Staging
<1>3. Team(W, Q, X, L, S)
  BY Reading
<1>4. [w \in W |-> t[w] \o Sync \o s[w] \o Sync] = [w \in W |-> SerialBody(bufs, w, W, sc, g)]
  BY DEF SerialBody
<1> HIDE DEF t, s, R, V, Q, X, L
<1>5. Part(W, [w \in W |-> t[w] \o Sync \o s[w] \o Sync], S, S)
  BY <1>1, <1>2, <1>3, TwoPhases
<1> QED
  BY <1>4, <1>5

SerialBodies(bufs, w, W, sc, g0, g1) == [g \in g0 .. g1 - 1 |-> SerialBody(bufs, w, W, sc, g)]

\* Serial is the loop over its rounds.
LEMMA SerialUnrolls ==
    ASSUME NEW bufs, NEW W, NEW w, NEW g0 \in Nat, NEW g1 \in Nat, g0 <= g1, NEW sc,
           Bodies(g0, g1, SerialBodies(bufs, w, W, sc, g0, g1))
    PROVE  \E f : Unrolled(f, g0, g1, SerialBodies(bufs, w, W, sc, g0, g1)) /\ Serial(bufs, w, W, g0, g1, sc) = f[g1]
<1> DEFINE B == SerialBodies(bufs, w, W, sc, g0, g1)
           u == CHOOSE u : u = [i \in g0 .. g1 |-> IF i = g0 THEN <<>> ELSE u[i - 1] \o SerialBody(bufs, w, W, sc, i - 1)]
<1>1. Serial(bufs, w, W, g0, g1, sc) = u[g1]
  BY DEF Serial, Loop, SerialBody
<1>2. PICK f : Unrolled(f, g0, g1, B)
  BY UnrollExists
<1>3. \A i \in g0 .. g1 : i # g0 => B[i - 1] = SerialBody(bufs, w, W, sc, i - 1)
  BY DEF SerialBodies
<1> HIDE DEF B
<1>4. ASSUME NEW h
      PROVE  Unrolled(h, g0, g1, B) <=>
                h = [i \in g0 .. g1 |-> IF i = g0 THEN <<>> ELSE h[i - 1] \o SerialBody(bufs, w, W, sc, i - 1)]
  <2>1. [i \in g0 .. g1 |-> IF i = g0 THEN <<>> ELSE h[i - 1] \o SerialBody(bufs, w, W, sc, i - 1)]
          = [i \in g0 .. g1 |-> IF i = g0 THEN <<>> ELSE h[i - 1] \o B[i - 1]]
    BY <1>3
  <2> QED
    BY <2>1 DEF Unrolled
<1>5. u = [i \in g0 .. g1 |-> IF i = g0 THEN <<>> ELSE u[i - 1] \o SerialBody(bufs, w, W, sc, i - 1)]
  BY <1>2, <1>4
<1> HIDE DEF u
<1> QED
  BY <1>1, <1>4, <1>5 DEF B

\* The single buffer, however many K groups there are.
LEMMA SerialIsPart ==
    ASSUME NEW W, NEW bufs, NEW S, NEW sc, sc \subseteq S, Off(S, bufs, 0),
           NEW g0 \in Nat, NEW g1 \in Nat, g0 <= g1
    PROVE  Part(W, [w \in W |-> Serial(bufs, w, W, g0, g1, sc)], S, S)
<1> DEFINE B == [w \in W |-> SerialBodies(bufs, w, W, sc, g0, g1)]
           c == [w \in W |-> Serial(bufs, w, W, g0, g1, sc)]
           K == [i \in g0 .. g1 |-> S]
<1>1. Rounds(W, g0, g1, B, K)
  <2> SUFFICES ASSUME NEW i \in g0 .. g1 - 1 PROVE Part(W, [w \in W |-> B[w][i]], K[i], K[i + 1])
    BY DEF Rounds
  <2>1. [w \in W |-> B[w][i]] = [w \in W |-> SerialBody(bufs, w, W, sc, i)]
    BY DEF SerialBodies
  <2>2. i \in g0 .. g1 /\ i + 1 \in g0 .. g1
    OBVIOUS
  <2>3. K[i] = S /\ K[i + 1] = S
    BY <2>2
  <2>4. Part(W, [w \in W |-> SerialBody(bufs, w, W, sc, i)], S, S)
    BY SerialRound
  <2> HIDE DEF K, B
  <2> QED
    BY <2>1, <2>3, <2>4
<1>2. \A w \in W : Bodies(g0, g1, B[w])
  <2> HIDE DEF B, K
  <2> QED
    BY <1>1, RoundsAreTexts
<1>3. \A w \in W : \E f : Unrolled(f, g0, g1, B[w]) /\ c[w] = f[g1]
  <2> SUFFICES ASSUME NEW w \in W PROVE \E f : Unrolled(f, g0, g1, B[w]) /\ c[w] = f[g1]
    OBVIOUS
  <2>1. B[w] = SerialBodies(bufs, w, W, sc, g0, g1) /\ c[w] = Serial(bufs, w, W, g0, g1, sc)
    OBVIOUS
  <2> HIDE DEF B, c
  <2> QED
    BY <1>2, <2>1, SerialUnrolls
<1>4. Loops(c, W, g0, g1, B)
  BY <1>3 DEF Loops
<1>5. K[g0] = S /\ K[g1] = S
  OBVIOUS
<1> HIDE DEF B, c, K
<1>6. Part(W, c, K[g0], K[g1])
  BY <1>1, <1>4, LoopsArePart
<1> QED
  BY <1>5, <1>6 DEF c
-----------------------------------------------------------------------------
\* What lies in memory when round i of n starts.
Turn(S, bufs, W, n, i) == IF i < n THEN S \cup AllOf(bufs, i % 2, W, i) ELSE S
PongPhase(bufs, w, W, n, g) ==
    (IF g + 1 < n THEN Do({}, OwnOf(bufs, (g + 1) % 2, w, g + 1)) ELSE <<>>) \o Do(AllOf(bufs, g % 2, W, g), {})

\* The halves of a double buffer are apart.
LEMMA OtherSlot ==
    ASSUME NEW W, NEW bufs, NEW s, NEW r, s # r, NEW x
    PROVE  Off(AllOf(bufs, s, W, x), bufs, r)
<1> SUFFICES ASSUME NEW c \in CellsOf(AllOf(bufs, s, W, x)), NEW b \in bufs, NEW w PROVE c # <<b, r, w>>
  BY DEF Off
<1>1. CellsOf(AllOf(bufs, s, W, x)) = {<<d, s, v>> : d \in bufs, v \in W}
  BY CellsOfOwn
<1>2. PICK d \in bufs, v \in W : c = <<d, s, v>>
  BY <1>1
<1> QED
  BY <1>2

\* Two sets that stay off some buffers.
LEMMA OffUnion == ASSUME NEW S, NEW T, NEW bufs, NEW s, Off(S, bufs, s), Off(T, bufs, s) PROVE Off(S \cup T, bufs, s)
BY CellsOfUnion DEF Off

\* A round of the double buffer: one half is read while the other is staged.
LEMMA PongRound ==
    ASSUME NEW W, NEW bufs, NEW S, Off(S, bufs, 0), Off(S, bufs, 1), NEW n \in Nat, NEW g \in 0 .. n - 1
    PROVE  Part(W, [w \in W |-> PongPhase(bufs, w, W, n, g) \o Sync], Turn(S, bufs, W, n, g), Turn(S, bufs, W, n, g + 1))
<1> DEFINE A == AllOf(bufs, g % 2, W, g)
           R == [w \in W |-> A]
           t == [w \in W |-> PongPhase(bufs, w, W, n, g)]
           K == S \cup A
<1>1. Turn(S, bufs, W, n, g) = K /\ g \in Nat
  BY DEF Turn
<1>0. [w \in W |-> PongPhase(bufs, w, W, n, g) \o Sync] = [w \in W |-> t[w] \o Sync]
  OBVIOUS
<1>2. CASE g + 1 < n
  <2> DEFINE V == [w \in W |-> OwnOf(bufs, (g + 1) % 2, w, g + 1)]
             L == S \cup AllOf(bufs, (g + 1) % 2, W, g + 1)
  <2>1. (g + 1) % 2 \in {0, 1} /\ g % 2 # (g + 1) % 2
    BY <1>1
  <2>2. Off(S, bufs, (g + 1) % 2) /\ Off(A, bufs, (g + 1) % 2)
    BY <2>1, OtherSlot
  <2>3. ASSUME NEW w \in W PROVE Stage(t[w], R[w], V[w])
    <3>1. Stage(Do({}, V[w]), {}, V[w]) /\ Stage(Do(A, {}), A, {})
      BY StageDo
    <3>2. Apiece(V[w], A, {})
      <4>0. V[w] = OwnOf(bufs, (g + 1) % 2, w, g + 1)
        OBVIOUS
      <4> HIDE DEF V
      <4>1. CellsOf(V[w]) = {<<b, (g + 1) % 2, w>> : b \in bufs}
        BY <4>0, CellsOfOwn
      <4>2. CellsOf(V[w]) \cap CellsOf(A) = {}
        BY <4>1, <2>2 DEF Off
      <4> QED
        BY <4>2, CellsOfNone DEF Apiece
    <3>3. t[w] = Do({}, V[w]) \o Do(A, {})
      BY <1>2 DEF PongPhase
    <3> HIDE DEF A, V, t
    <3>4. Stage(Do({}, V[w]) \o Do(A, {}), {} \cup A, V[w] \cup {})
      BY <3>1, <3>2, StageThen
    <3>5. {} \cup A = A /\ V[w] \cup {} = V[w]
      OBVIOUS
    <3> QED
      BY <3>3, <3>4, <3>5
  <2>4. Team(W, R, V, K, L)
    <3>1. \A w \in W : R[w] \subseteq K /\ Off(R[w], bufs, (g + 1) % 2)
      BY <2>2
    <3>2. S \subseteq K /\ L \subseteq S \cup AllOf(bufs, (g + 1) % 2, W, g + 1)
      OBVIOUS
    <3> HIDE DEF K, L, R
    <3> QED
      BY <2>2, <3>1, <3>2, Staging
  <2>5. Turn(S, bufs, W, n, g + 1) = L
    BY <1>2 DEF Turn
  <2>6. Stages(W, t, R, V)
    BY <2>3 DEF Stages
  <2> HIDE DEF t, R, V, K, L
  <2> QED
    BY <1>0, <1>1, <2>4, <2>5, <2>6, TeamPart
<1>3. CASE ~(g + 1 < n)
  <2> DEFINE V == [w \in W |-> {}]
  <2>1. ASSUME NEW w \in W PROVE Stage(t[w], R[w], V[w])
    <3>1. Stage(Do(A, {}), A, {}) /\ IsText(Do(A, {}))
      BY StageDo, DoIs
    <3>2. t[w] = <<>> \o Do(A, {})
      BY <1>3 DEF PongPhase
    <3> HIDE DEF t, A
    <3>3. t[w] = Do(A, {})
      BY <3>1, <3>2, EmptyText
    <3> QED
      BY <3>1, <3>3
  <2>2. Team(W, R, V, K, S)
    <3>1. S \subseteq K /\ \A w \in W : R[w] \subseteq K
      OBVIOUS
    <3> HIDE DEF K, R
    <3> QED
      BY <3>1, Reading
  <2>3. Turn(S, bufs, W, n, g + 1) = S
    BY <1>3 DEF Turn
  <2>4. Stages(W, t, R, V)
    BY <2>1 DEF Stages
  <2> HIDE DEF t, R, V, K
  <2> QED
    <3>1. Part(W, [w \in W |-> t[w] \o Sync], K, S)
      BY ONLY <2>2, <2>4, TeamPart
    <3> QED
      BY <1>0, <1>1, <2>3, <3>1
<1> QED
  BY <1>2, <1>3

PongBodies(bufs, w, W, n) == [g \in 0 .. n - 1 |-> PongPhase(bufs, w, W, n, g) \o Sync]
PongStart(bufs, w) == Do({}, OwnOf(bufs, 0, w, 0)) \o Sync

\* PingPong is its first tile and the loop over its rounds.
LEMMA PongUnrolls ==
    ASSUME NEW bufs, NEW W, NEW w, NEW n \in Nat, Bodies(0, n, PongBodies(bufs, w, W, n))
    PROVE  \E f : Unrolled(f, 0, n, PongBodies(bufs, w, W, n)) /\ PingPong(bufs, w, W, n) = PongStart(bufs, w) \o f[n]
<1> DEFINE B == PongBodies(bufs, w, W, n)
           u == CHOOSE u : u = [i \in 0 .. n |-> IF i = 0 THEN <<>> ELSE u[i - 1] \o (PongPhase(bufs, w, W, n, i - 1) \o Sync)]
<1>1. PingPong(bufs, w, W, n) = PongStart(bufs, w) \o u[n]
  BY DEF PingPong, Loop, PongPhase, PongStart
<1>2. PICK f : Unrolled(f, 0, n, B)
  BY UnrollExists
<1>3. \A i \in 0 .. n : i # 0 => B[i - 1] = PongPhase(bufs, w, W, n, i - 1) \o Sync
  BY DEF PongBodies
<1> HIDE DEF B
<1>4. ASSUME NEW h
      PROVE  Unrolled(h, 0, n, B) <=>
                h = [i \in 0 .. n |-> IF i = 0 THEN <<>> ELSE h[i - 1] \o (PongPhase(bufs, w, W, n, i - 1) \o Sync)]
  <2>1. [i \in 0 .. n |-> IF i = 0 THEN <<>> ELSE h[i - 1] \o (PongPhase(bufs, w, W, n, i - 1) \o Sync)]
          = [i \in 0 .. n |-> IF i = 0 THEN <<>> ELSE h[i - 1] \o B[i - 1]]
    BY <1>3
  <2> QED
    BY <2>1 DEF Unrolled
<1>5. u = [i \in 0 .. n |-> IF i = 0 THEN <<>> ELSE u[i - 1] \o (PongPhase(bufs, w, W, n, i - 1) \o Sync)]
  BY <1>2, <1>4
<1> HIDE DEF u
<1> QED
  BY <1>1, <1>4, <1>5 DEF B

\* What comes before the first barrier of a double buffer: p, and the first tile.
Leads(W, p, R, S) == \A w \in W : Stage(p[w], R[w], {}) /\ R[w] \subseteq S

\* The first tile and its barrier.
LEMMA PongLead ==
    ASSUME NEW W, NEW bufs, NEW S, NEW p, NEW R, Leads(W, p, R, S), Off(S, bufs, 0), NEW L,
           L \subseteq S \cup AllOf(bufs, 0, W, 0)
    PROVE  Part(W, [w \in W |-> (p[w] \o Do({}, OwnOf(bufs, 0, w, 0))) \o Sync], S, L)
<1> DEFINE V == [w \in W |-> OwnOf(bufs, 0, w, 0)]
           t == [w \in W |-> p[w] \o Do({}, OwnOf(bufs, 0, w, 0))]
<1>1. ASSUME NEW w \in W PROVE Stage(t[w], R[w], V[w])
  <2>1. Stage(p[w], R[w], {}) /\ Stage(Do({}, V[w]), {}, V[w])
    BY StageDo DEF Leads
  <2>2. Apiece({}, {}, V[w])
    BY CellsOfNone DEF Apiece
  <2>3. t[w] = p[w] \o Do({}, V[w])
    OBVIOUS
  <2> HIDE DEF t, V
  <2>4. Stage(p[w] \o Do({}, V[w]), R[w] \cup {}, {} \cup V[w])
    BY <2>1, <2>2, StageThen
  <2>5. R[w] \cup {} = R[w] /\ {} \cup V[w] = V[w]
    OBVIOUS
  <2> QED
    BY <2>3, <2>4, <2>5
<1>2. Stages(W, t, R, V)
  BY <1>1 DEF Stages
<1>3. Team(W, R, V, S, L)
  <2>1. \A w \in W : R[w] \subseteq S /\ Off(R[w], bufs, 0)
    BY DEF Leads, Off, CellsOf
  <2> QED
    BY <2>1, Staging
<1>4. [w \in W |-> (p[w] \o Do({}, OwnOf(bufs, 0, w, 0))) \o Sync] = [w \in W |-> t[w] \o Sync]
  OBVIOUS
<1> HIDE DEF t, V
<1> QED
  BY <1>2, <1>3, <1>4, TeamPart

\* A lead, then a loop.
Led(W, bufs, n, B, text) ==
    \A w \in W : \E f : Unrolled(f, 0, n, B[w]) /\ text[w] = PongStart(bufs, w) \o f[n]

\* What the loop starts and ends with.
Turns(K, n, S, bufs, W) == K[0] \subseteq S \cup AllOf(bufs, 0, W, 0) /\ K[n] = S

LedLoop(W, bufs, n, S, p, R, B, K, text) ==
    /\ Off(S, bufs, 0) /\ Leads(W, p, R, S)
    /\ Rounds(W, 0, n, B, K) /\ Turns(K, n, S, bufs, W) /\ Led(W, bufs, n, B, text)

LedBy(W, p, text) == [w \in W |-> p[w] \o text[w]]

\* A lead, then a loop that takes over what it left.
LEMMA LedIsPart ==
    ASSUME NEW W, NEW bufs, NEW S, NEW n \in Nat, NEW p, NEW R, NEW B, NEW K, NEW text,
           LedLoop(W, bufs, n, S, p, R, B, K, text)
    PROVE  Part(W, LedBy(W, p, text), S, S)
<1> USE DEF LedLoop, LedBy
<1> DEFINE Is(w, f) == Unrolled(f, 0, n, B[w]) /\ text[w] = PongStart(bufs, w) \o f[n]
           F == [w \in W |-> CHOOSE f : Is(w, f)]
           c == [w \in W |-> F[w][n]]
           a == [w \in W |-> (p[w] \o Do({}, OwnOf(bufs, 0, w, 0))) \o Sync]
<1>2. ASSUME NEW w \in W PROVE Is(w, F[w])
  <2>1. \E f : Is(w, f)
    BY DEF Led
  <2> HIDE DEF Is
  <2> QED
    BY <2>1
<1>3. Loops(c, W, 0, n, B)
  <2> HIDE DEF F
  <2> QED
    BY <1>2 DEF Loops
<1>5. Part(W, c, K[0], K[n])
  <2>1. 0 \in Nat /\ 0 <= n
    OBVIOUS
  <2> HIDE DEF c
  <2> QED
    BY <1>3, <2>1, LoopsArePart
<1>6. Part(W, a, S, K[0])
  <2>1. K[0] \subseteq S \cup AllOf(bufs, 0, W, 0)
    BY DEF Turns
  <2> HIDE DEF a
  <2> QED
    BY <2>1, PongLead DEF a
<1>7. ASSUME NEW w \in W PROVE a[w] \o c[w] = p[w] \o text[w]
  <2>1. IsText(p[w]) /\ IsText(Do({}, OwnOf(bufs, 0, w, 0))) /\ IsText(Sync)
    BY DoIs, SyncIs DEF Leads, Stage
  <2>2. IsText(c[w])
    <3> HIDE DEF c
    <3> QED
      BY <1>5 DEF Part, IsCode
  <2>3. text[w] = (Do({}, OwnOf(bufs, 0, w, 0)) \o Sync) \o c[w]
    BY <1>2 DEF PongStart
  <2>4. a[w] = (p[w] \o Do({}, OwnOf(bufs, 0, w, 0))) \o Sync
    OBVIOUS
  <2> HIDE DEF a, c
  <2>5. Regroups(p[w], Do({}, OwnOf(bufs, 0, w, 0)), Sync, c[w])
    BY <2>1, <2>2, FourTexts
  <2> QED
    BY <2>3, <2>4, <2>5 DEF Regroups
<1>10. K[n] = S
  BY DEF Turns
<1>8. Cat(a, c) = [w \in W |-> p[w] \o text[w]]
  <2>1. DOMAIN a = W
    OBVIOUS
  <2> HIDE DEF a, c
  <2> QED
    BY <1>7, <2>1 DEF Cat
<1>9. Part(W, Cat(a, c), S, S)
  <2> HIDE DEF a, c
  <2> QED
    BY <1>5, <1>6, <1>10, PartThenPart
<1> HIDE DEF a, c
<1> QED
  BY <1>8, <1>9

\* The double buffer, however many K groups there are.
LEMMA PongIsPart ==
    ASSUME NEW W, NEW bufs, NEW S, Off(S, bufs, 0), Off(S, bufs, 1), NEW n \in Nat,
           NEW p, NEW R, Leads(W, p, R, S)
    PROVE  Part(W, [w \in W |-> p[w] \o PingPong(bufs, w, W, n)], S, S)
<1> DEFINE B == [w \in W |-> PongBodies(bufs, w, W, n)]
           K == [i \in 0 .. n |-> Turn(S, bufs, W, n, i)]
           text == [w \in W |-> PingPong(bufs, w, W, n)]
<1>1. Rounds(W, 0, n, B, K)
  <2> SUFFICES ASSUME NEW i \in 0 .. n - 1 PROVE Part(W, [w \in W |-> B[w][i]], K[i], K[i + 1])
    BY DEF Rounds
  <2>1. [w \in W |-> B[w][i]] = [w \in W |-> PongPhase(bufs, w, W, n, i) \o Sync]
    BY DEF PongBodies
  <2>2. i \in 0 .. n /\ i + 1 \in 0 .. n
    OBVIOUS
  <2>3. K[i] = Turn(S, bufs, W, n, i) /\ K[i + 1] = Turn(S, bufs, W, n, i + 1)
    BY <2>2
  <2>4. Part(W, [w \in W |-> PongPhase(bufs, w, W, n, i) \o Sync], Turn(S, bufs, W, n, i), Turn(S, bufs, W, n, i + 1))
    BY PongRound
  <2> HIDE DEF K, B
  <2> QED
    BY <2>1, <2>3, <2>4
<1>2. Led(W, bufs, n, B, text)
  <2> SUFFICES ASSUME NEW w \in W
               PROVE  \E f : Unrolled(f, 0, n, B[w]) /\ text[w] = PongStart(bufs, w) \o f[n]
    BY DEF Led
  <2>1. Bodies(0, n, B[w])
    <3> HIDE DEF B, K
    <3> QED
      BY <1>1, RoundsAreTexts
  <2>2. B[w] = PongBodies(bufs, w, W, n) /\ text[w] = PingPong(bufs, w, W, n)
    OBVIOUS
  <2> HIDE DEF B, text
  <2> QED
    BY <2>1, <2>2, PongUnrolls
<1>3. Turns(K, n, S, bufs, W)
  BY DEF Turns, Turn
<1>4. [w \in W |-> p[w] \o text[w]] = [w \in W |-> p[w] \o PingPong(bufs, w, W, n)]
  OBVIOUS
<1> HIDE DEF B, K, text
<1>5. Part(W, LedBy(W, p, text), S, S)
  <2>1. LedLoop(W, bufs, n, S, p, R, B, K, text)
    BY <1>1, <1>2, <1>3 DEF LedLoop
  <2> QED
    BY ONLY <2>1, n \in Nat, LedIsPart
<1> QED
  BY <1>4, <1>5 DEF LedBy
-----------------------------------------------------------------------------
\* The single buffer that is filled again after the compute.
LateTurn(S, bufs, W, n, i) == IF i < n THEN S \cup AllOf(bufs, 0, W, i) ELSE S
Refill(bufs, w, n, g) == IF g + 1 < n THEN Do({}, Own(bufs, w, g + 1)) \o Sync ELSE <<>>
LateBody(bufs, w, W, n, g) == Do(All(bufs, W, g), {}) \o Sync \o Refill(bufs, w, n, g)
LateBodies(bufs, w, W, n) == [g \in 0 .. n - 1 |-> LateBody(bufs, w, W, n, g)]

\* A round of the buffer that is filled after the compute.
LEMMA LateRound ==
    ASSUME NEW W, NEW bufs, NEW S, Off(S, bufs, 0), NEW n \in Nat, NEW g \in 0 .. n - 1
    PROVE  Part(W, [w \in W |-> LateBody(bufs, w, W, n, g)], LateTurn(S, bufs, W, n, g), LateTurn(S, bufs, W, n, g + 1))
<1> DEFINE A == AllOf(bufs, 0, W, g)
           R == [w \in W |-> A]
           O == [w \in W |-> {}]
           t == [w \in W |-> Do(A, {})]
           a == [w \in W |-> t[w] \o Sync]
           b == [w \in W |-> Refill(bufs, w, n, g)]
           K == S \cup A
           L == LateTurn(S, bufs, W, n, g + 1)
<1>1. LateTurn(S, bufs, W, n, g) = K
  BY DEF LateTurn
<1>2. Part(W, a, K, S)
  <2>1. Stages(W, t, R, O)
    BY StageDo DEF Stages
  <2>2. S \subseteq K /\ \A w \in W : R[w] \subseteq K
    OBVIOUS
  <2> HIDE DEF t, R, K
  <2>3. Team(W, R, O, K, S)
    BY <2>2, Reading
  <2> HIDE DEF O
  <2> QED
    BY <2>1, <2>3, TeamPart
<1>3. Part(W, b, S, L)
  <2>1. CASE g + 1 < n
    <3> DEFINE V == [w \in W |-> OwnOf(bufs, 0, w, g + 1)]
               s == [w \in W |-> Do({}, V[w])]
    <3>1. Stages(W, s, O, V)
      BY StageDo DEF Stages
    <3>2. L = S \cup AllOf(bufs, 0, W, g + 1)
      BY <2>1 DEF LateTurn
    <3>3. \A w \in W : O[w] \subseteq S /\ Off(O[w], bufs, 0)
      BY CellsOfNone DEF Off
    <3>4. b = [w \in W |-> s[w] \o Sync]
      BY <2>1 DEF Refill, Own
    <3> HIDE DEF O, L, s, b
    <3>5. Team(W, O, V, S, L)
      BY <3>2, <3>3, Staging
    <3> HIDE DEF V
    <3> QED
      BY <3>1, <3>4, <3>5, TeamPart
  <2>2. CASE ~(g + 1 < n)
    <3>1. b = [w \in W |-> <<>>] /\ L = S
      BY <2>2 DEF Refill, LateTurn
    <3> QED
      BY <3>1, NothingIsPart
  <2> QED
    BY <2>1, <2>2
<1>4. Cat(a, b) = [w \in W |-> LateBody(bufs, w, W, n, g)]
  BY DEF Cat, LateBody, All
<1>5. Part(W, Cat(a, b), K, L)
  <2> HIDE DEF a, b, K, L
  <2> QED
    BY <1>2, <1>3, PartThenPart
<1> HIDE DEF a, b, K
<1> QED
  BY <1>1, <1>4, <1>5

\* Late is its first tile and the loop over its rounds.
LEMMA LateUnrolls ==
    ASSUME NEW bufs, NEW W, NEW w, NEW n \in Nat, Bodies(0, n, LateBodies(bufs, w, W, n))
    PROVE  \E f : Unrolled(f, 0, n, LateBodies(bufs, w, W, n)) /\ Late(bufs, w, W, n) = PongStart(bufs, w) \o f[n]
<1> DEFINE B == LateBodies(bufs, w, W, n)
           u == CHOOSE u : u = [i \in 0 .. n |-> IF i = 0 THEN <<>> ELSE u[i - 1] \o LateBody(bufs, w, W, n, i - 1)]
<1>1. Late(bufs, w, W, n) = PongStart(bufs, w) \o u[n]
  BY DEF Late, Loop, LateBody, Refill, PongStart, Own
<1>2. PICK f : Unrolled(f, 0, n, B)
  BY UnrollExists
<1>3. \A i \in 0 .. n : i # 0 => B[i - 1] = LateBody(bufs, w, W, n, i - 1)
  BY DEF LateBodies
<1> HIDE DEF B
<1>4. ASSUME NEW h
      PROVE  Unrolled(h, 0, n, B) <=>
                h = [i \in 0 .. n |-> IF i = 0 THEN <<>> ELSE h[i - 1] \o LateBody(bufs, w, W, n, i - 1)]
  <2>1. [i \in 0 .. n |-> IF i = 0 THEN <<>> ELSE h[i - 1] \o LateBody(bufs, w, W, n, i - 1)]
          = [i \in 0 .. n |-> IF i = 0 THEN <<>> ELSE h[i - 1] \o B[i - 1]]
    BY <1>3
  <2> QED
    BY <2>1 DEF Unrolled
<1>5. u = [i \in 0 .. n |-> IF i = 0 THEN <<>> ELSE u[i - 1] \o LateBody(bufs, w, W, n, i - 1)]
  BY <1>2, <1>4
<1> HIDE DEF u
<1> QED
  BY <1>1, <1>4, <1>5 DEF B

\* The buffer that is filled after the compute, however many K groups there are.
LEMMA LateIsPart ==
    ASSUME NEW W, NEW bufs, NEW S, Off(S, bufs, 0), NEW n \in Nat, NEW p, NEW R, Leads(W, p, R, S)
    PROVE  Part(W, [w \in W |-> p[w] \o Late(bufs, w, W, n)], S, S)
<1> DEFINE B == [w \in W |-> LateBodies(bufs, w, W, n)]
           K == [i \in 0 .. n |-> LateTurn(S, bufs, W, n, i)]
           text == [w \in W |-> Late(bufs, w, W, n)]
<1>1. Rounds(W, 0, n, B, K)
  <2> SUFFICES ASSUME NEW i \in 0 .. n - 1 PROVE Part(W, [w \in W |-> B[w][i]], K[i], K[i + 1])
    BY DEF Rounds
  <2>1. [w \in W |-> B[w][i]] = [w \in W |-> LateBody(bufs, w, W, n, i)]
    BY DEF LateBodies
  <2>2. i \in 0 .. n /\ i + 1 \in 0 .. n
    OBVIOUS
  <2>3. K[i] = LateTurn(S, bufs, W, n, i) /\ K[i + 1] = LateTurn(S, bufs, W, n, i + 1)
    BY <2>2
  <2>4. Part(W, [w \in W |-> LateBody(bufs, w, W, n, i)], LateTurn(S, bufs, W, n, i), LateTurn(S, bufs, W, n, i + 1))
    BY LateRound
  <2> HIDE DEF K, B
  <2> QED
    BY <2>1, <2>3, <2>4
<1>2. Led(W, bufs, n, B, text)
  <2> SUFFICES ASSUME NEW w \in W
               PROVE  \E f : Unrolled(f, 0, n, B[w]) /\ text[w] = PongStart(bufs, w) \o f[n]
    BY DEF Led
  <2>1. Bodies(0, n, B[w])
    <3> HIDE DEF B, K
    <3> QED
      BY <1>1, RoundsAreTexts
  <2>2. B[w] = LateBodies(bufs, w, W, n) /\ text[w] = Late(bufs, w, W, n)
    OBVIOUS
  <2> HIDE DEF B, text
  <2> QED
    BY <2>1, <2>2, LateUnrolls
<1>3. Turns(K, n, S, bufs, W)
  BY DEF Turns, LateTurn
<1>4. [w \in W |-> p[w] \o text[w]] = [w \in W |-> p[w] \o Late(bufs, w, W, n)]
  OBVIOUS
<1> HIDE DEF B, K, text
<1>5. Part(W, LedBy(W, p, text), S, S)
  <2>1. LedLoop(W, bufs, n, S, p, R, B, K, text)
    BY <1>1, <1>2, <1>3 DEF LedLoop
  <2> QED
    BY ONLY <2>1, n \in Nat, LedIsPart
<1> QED
  BY <1>4, <1>5 DEF LedBy
-----------------------------------------------------------------------------
\* A loop within a phase.
Upto(V, first, m) == UNION {V[i] : i \in first .. m - 1}
Steps(B, R, V, first, end) ==
    /\ \A i \in first .. end - 1 : Stage(B[i], R[i], V[i])
    /\ \A i, j \in first .. end - 1 : i < j => Apiece(V[i], R[j], V[j])

\* One more member.
LEMMA UptoNext ==
    ASSUME NEW V, NEW first \in Nat, NEW i \in Nat, first <= i
    PROVE  Upto(V, first, first) = {} /\ Upto(V, first, i + 1) = Upto(V, first, i) \cup V[i]
<1>1. first .. first - 1 = {} /\ first .. (i + 1) - 1 = (first .. i - 1) \cup {i}
  OBVIOUS
<1> QED
  BY <1>1 DEF Upto

\* A cell of the union is a cell of a member.
LEMMA CellsOfUpto ==
    ASSUME NEW V, NEW first, NEW m, NEW c \in CellsOf(Upto(V, first, m))
    PROVE  \E i \in first .. m - 1 : c \in CellsOf(V[i])
<1>1. PICK h \in Upto(V, first, m) : c = h[1]
  BY DEF CellsOf
<1>2. PICK i \in first .. m - 1 : h \in V[i]
  BY DEF Upto
<1> QED
  BY <1>1, <1>2 DEF CellsOf

\* A loop of stages that leave each other's cells alone is a stage.
LEMMA StageLoop ==
    ASSUME NEW first \in Nat, NEW end \in Nat, first <= end, NEW B, NEW R, NEW V, Steps(B, R, V, first, end),
           NEW f, Unrolled(f, first, end, B)
    PROVE  Stage(f[end], Upto(R, first, end), Upto(V, first, end))
<1> DEFINE n == end - first
           P(m) == Stage(f[first + m], Upto(R, first, first + m), Upto(V, first, first + m))
           S == {m \in 0 .. n : P(m)}
<1>0. n \in Nat /\ first + n = end /\ first + 0 = first
  OBVIOUS
<1>1. Goes(f, first, end, B)
  BY UnrolledIs
<1>2. P(0)
  <2>1. f[first] = <<>> /\ Upto(R, first, first) = {} /\ Upto(V, first, first) = {}
    BY <1>1, UptoNext DEF Goes
  <2>2. Stage(<<>>, {}, {})
    BY StageNothing
  <2> QED
    BY <1>0, <2>1, <2>2
<1>3. ASSUME NEW m \in 0 .. n - 1, P(m) PROVE P(m + 1)
  <2> DEFINE i == first + m
             VI == Upto(V, first, i)
             RI == Upto(R, first, i)
  <2>1. i \in first .. end - 1 /\ first + (m + 1) = i + 1 /\ i \in Nat /\ first <= i
    OBVIOUS
  <2>2. Stage(f[i], RI, VI)
    BY <1>3
  <2> HIDE DEF i, VI, RI
  <2>3. f[i + 1] = f[i] \o B[i]
    BY <1>1, <2>1 DEF Goes
  <2>4. Stage(B[i], R[i], V[i])
    BY <2>1 DEF Steps
  <2>5. Apiece(VI, R[i], V[i])
    <3> SUFFICES ASSUME NEW c \in CellsOf(VI) PROVE c \notin CellsOf(R[i]) /\ c \notin CellsOf(V[i])
      BY DEF Apiece
    <3>1. PICK k \in first .. i - 1 : c \in CellsOf(V[k])
      BY CellsOfUpto DEF VI
    <3>2. k \in first .. end - 1 /\ k < i
      BY <2>1
    <3> QED
      BY <2>1, <3>1, <3>2 DEF Steps, Apiece
  <2>6. Stage(f[i] \o B[i], RI \cup R[i], VI \cup V[i])
    BY <2>2, <2>4, <2>5, StageThen
  <2>7. Upto(R, first, i + 1) = RI \cup R[i] /\ Upto(V, first, i + 1) = VI \cup V[i]
    BY <2>1, UptoNext DEF RI, VI
  <2> QED
    BY <2>1, <2>3, <2>6, <2>7
<1> HIDE DEF P
<1>4. 0 \in S /\ \A m \in 0 .. n - 1 : m \in S => m + 1 \in S
  BY <1>0, <1>2, <1>3
<1> HIDE DEF S
<1>5. 0 .. n \subseteq S
  BY <1>0, <1>4, Reach
<1>6. P(n)
  BY <1>0, <1>5 DEF S
<1> QED
  BY <1>0, <1>6 DEF P
-----------------------------------------------------------------------------
\* Groups gt .. gend - 1 side by side.
Fill(bufs, w, gt, gend) == Loop(gt, gend, LAMBDA g : Do({}, OwnOf(bufs, g - gt, w, g)))
Drain(bufs, W, gt, gend) == Loop(gt, gend, LAMBDA g : Do(AllOf(bufs, g - gt, W, g), {}))
Fills(bufs, w, gt, gend) == [g \in gt .. gend - 1 |-> OwnOf(bufs, g - gt, w, g)]
Drains(bufs, W, gt, gend) == [g \in gt .. gend - 1 |-> AllOf(bufs, g - gt, W, g)]
Nones(gt, gend) == [g \in gt .. gend - 1 |-> {}]

\* The groups are filled side by side.
LEMMA FillStage ==
    ASSUME NEW bufs, NEW w, NEW gt \in Nat, NEW gend \in Nat, gt <= gend
    PROVE  Stage(Fill(bufs, w, gt, gend), Upto(Nones(gt, gend), gt, gend), Upto(Fills(bufs, w, gt, gend), gt, gend))
<1> DEFINE V == Fills(bufs, w, gt, gend)
           R == Nones(gt, gend)
           B == [g \in gt .. gend - 1 |-> Do({}, OwnOf(bufs, g - gt, w, g))]
           u == CHOOSE u : u = [i \in gt .. gend |->
                    IF i = gt THEN <<>> ELSE u[i - 1] \o Do({}, OwnOf(bufs, i - 1 - gt, w, i - 1))]
<1>1. Fill(bufs, w, gt, gend) = u[gend]
  BY DEF Fill, Loop
<1>2. Steps(B, R, V, gt, gend)
  <2>1. ASSUME NEW i \in gt .. gend - 1 PROVE Stage(B[i], R[i], V[i])
    <3>1. B[i] = Do({}, OwnOf(bufs, i - gt, w, i)) /\ R[i] = {} /\ V[i] = OwnOf(bufs, i - gt, w, i)
      BY DEF Fills, Nones
    <3> HIDE DEF B, R, V
    <3> QED
      BY <3>1, StageDo
  <2>2. ASSUME NEW i \in gt .. gend - 1, NEW j \in gt .. gend - 1, i < j PROVE Apiece(V[i], R[j], V[j])
    <3>1. CellsOf(R[j]) = {}
      BY CellsOfNone DEF Nones
    <3>5. V[i] = OwnOf(bufs, i - gt, w, i) /\ V[j] = OwnOf(bufs, j - gt, w, j)
      BY DEF Fills
    <3>3. i - gt # j - gt
      BY <2>2
    <3> HIDE DEF B, R, V
    <3>6. ASSUME NEW x, NEW y PROVE CellsOf(OwnOf(bufs, x, w, y)) = {<<b, x, w>> : b \in bufs}
      BY ONLY CellsOfOwn, SMTT(30)
    <3>2. CellsOf(V[i]) = {<<b, i - gt, w>> : b \in bufs} /\ CellsOf(V[j]) = {<<b, j - gt, w>> : b \in bufs}
      BY <3>5, <3>6
    <3>4. CellsOf(V[i]) \cap CellsOf(V[j]) = {}
      BY <3>2, <3>3
    <3> QED
      BY <3>1, <3>4 DEF Apiece
  <2> HIDE DEF B, R, V
  <2> QED
    BY <2>1, <2>2 DEF Steps
<1>3. Bodies(gt, gend, B)
  BY DoIs DEF Bodies
<1>4. PICK f : Unrolled(f, gt, gend, B)
  <2> HIDE DEF B
  <2> QED
    BY <1>3, UnrollExists
<1>5. ASSUME NEW h
      PROVE  Unrolled(h, gt, gend, B) <=>
                h = [i \in gt .. gend |-> IF i = gt THEN <<>> ELSE h[i - 1] \o Do({}, OwnOf(bufs, i - 1 - gt, w, i - 1))]
  <2>1. \A i \in gt .. gend : i # gt => B[i - 1] = Do({}, OwnOf(bufs, i - 1 - gt, w, i - 1))
    OBVIOUS
  <2> HIDE DEF B
  <2>2. [i \in gt .. gend |-> IF i = gt THEN <<>> ELSE h[i - 1] \o Do({}, OwnOf(bufs, i - 1 - gt, w, i - 1))]
          = [i \in gt .. gend |-> IF i = gt THEN <<>> ELSE h[i - 1] \o B[i - 1]]
    BY <2>1
  <2> QED
    BY <2>2 DEF Unrolled
<1> HIDE DEF B, R, V
<1>6. u = [i \in gt .. gend |-> IF i = gt THEN <<>> ELSE u[i - 1] \o Do({}, OwnOf(bufs, i - 1 - gt, w, i - 1))]
  BY <1>4, <1>5
<1> HIDE DEF u
<1>7. Unrolled(u, gt, gend, B)
  BY <1>5, <1>6
<1>8. Stage(u[gend], Upto(R, gt, gend), Upto(V, gt, gend))
  BY <1>2, <1>7, StageLoop
<1> QED
  BY <1>1, <1>8 DEF R, V

\* They are read side by side.
LEMMA DrainStage ==
    ASSUME NEW bufs, NEW W, NEW gt \in Nat, NEW gend \in Nat, gt <= gend
    PROVE  Stage(Drain(bufs, W, gt, gend), Upto(Drains(bufs, W, gt, gend), gt, gend), Upto(Nones(gt, gend), gt, gend))
<1> DEFINE V == Nones(gt, gend)
           R == Drains(bufs, W, gt, gend)
           B == [g \in gt .. gend - 1 |-> Do(AllOf(bufs, g - gt, W, g), {})]
           u == CHOOSE u : u = [i \in gt .. gend |->
                    IF i = gt THEN <<>> ELSE u[i - 1] \o Do(AllOf(bufs, i - 1 - gt, W, i - 1), {})]
<1>1. Drain(bufs, W, gt, gend) = u[gend]
  BY DEF Drain, Loop
<1>2. Steps(B, R, V, gt, gend)
  <2>1. ASSUME NEW i \in gt .. gend - 1 PROVE Stage(B[i], R[i], V[i])
    <3>1. B[i] = Do(AllOf(bufs, i - gt, W, i), {}) /\ R[i] = AllOf(bufs, i - gt, W, i) /\ V[i] = {}
      BY DEF Drains, Nones
    <3> HIDE DEF B, R, V
    <3> QED
      BY <3>1, StageDo
  <2>2. ASSUME NEW i \in gt .. gend - 1, NEW j \in gt .. gend - 1, i < j PROVE Apiece(V[i], R[j], V[j])
    <3>1. CellsOf(V[i]) = {}
      BY CellsOfNone DEF Nones
    <3> QED
      BY <3>1 DEF Apiece
  <2> HIDE DEF B, R, V
  <2> QED
    BY <2>1, <2>2 DEF Steps
<1>3. Bodies(gt, gend, B)
  BY DoIs DEF Bodies
<1>4. PICK f : Unrolled(f, gt, gend, B)
  <2> HIDE DEF B
  <2> QED
    BY <1>3, UnrollExists
<1>5. ASSUME NEW h
      PROVE  Unrolled(h, gt, gend, B) <=>
                h = [i \in gt .. gend |-> IF i = gt THEN <<>> ELSE h[i - 1] \o Do(AllOf(bufs, i - 1 - gt, W, i - 1), {})]
  <2>1. \A i \in gt .. gend : i # gt => B[i - 1] = Do(AllOf(bufs, i - 1 - gt, W, i - 1), {})
    OBVIOUS
  <2> HIDE DEF B
  <2>2. [i \in gt .. gend |-> IF i = gt THEN <<>> ELSE h[i - 1] \o Do(AllOf(bufs, i - 1 - gt, W, i - 1), {})]
          = [i \in gt .. gend |-> IF i = gt THEN <<>> ELSE h[i - 1] \o B[i - 1]]
    BY <2>1
  <2> QED
    BY <2>2 DEF Unrolled
<1> HIDE DEF B, R, V
<1>6. u = [i \in gt .. gend |-> IF i = gt THEN <<>> ELSE u[i - 1] \o Do(AllOf(bufs, i - 1 - gt, W, i - 1), {})]
  BY <1>4, <1>5
<1> HIDE DEF u
<1>7. Unrolled(u, gt, gend, B)
  BY <1>5, <1>6
<1>8. Stage(u[gend], Upto(R, gt, gend), Upto(V, gt, gend))
  BY <1>2, <1>7, StageLoop
<1> QED
  BY <1>1, <1>8 DEF R, V

\* Nothing, often, is nothing.
LEMMA NoUpto == ASSUME NEW gt, NEW gend PROVE Upto(Nones(gt, gend), gt, gend) = {}
BY DEF Upto, Nones

\* Waves fill their own shares.
LEMMA FillTeam ==
    ASSUME NEW bufs, NEW W, NEW gt \in Nat, NEW gend \in Nat
    PROVE  Team(W, [w \in W |-> {}], [w \in W |-> Upto(Fills(bufs, w, gt, gend), gt, gend)], {},
                Upto(Drains(bufs, W, gt, gend), gt, gend))
<1> DEFINE V == [w \in W |-> Upto(Fills(bufs, w, gt, gend), gt, gend)]
           L == Upto(Drains(bufs, W, gt, gend), gt, gend)
<1>1. ASSUME NEW w \in W, NEW c \in CellsOf(V[w]) PROVE c[3] = w
  <2>1. c \in CellsOf(Upto(Fills(bufs, w, gt, gend), gt, gend))
    BY <1>1
  <2>2. PICK i \in gt .. gend - 1 : c \in CellsOf(Fills(bufs, w, gt, gend)[i])
    BY <2>1, CellsOfUpto
  <2>3. c \in CellsOf(OwnOf(bufs, i - gt, w, i))
    BY <2>2 DEF Fills
  <2>4. c \in {<<b, i - gt, w>> : b \in bufs}
    BY <2>3, CellsOfOwn
  <2> QED
    BY <2>4
<1>2. ASSUME NEW h \in L PROVE \E w \in W : h \in V[w]
  <2>1. PICK i \in gt .. gend - 1 : h \in AllOf(bufs, i - gt, W, i)
    BY DEF Upto, Drains
  <2>2. PICK w \in W : h \in OwnOf(bufs, i - gt, w, i)
    BY <2>1, CellsOfOwn
  <2>3. h \in Upto(Fills(bufs, w, gt, gend), gt, gend)
    BY <2>2 DEF Upto, Fills
  <2> QED
    BY <2>3
<1> HIDE DEF V, L
<1> QED
  <2>1. \A v, w \in W : v # w => CellsOf(V[v]) \cap CellsOf(V[w]) = {}
    BY <1>1
  <2>2. Team(W, [w \in W |-> {}], V, {}, L)
    BY <2>1, <1>2, CellsOfNone DEF Team
  <2> QED
    BY <2>2 DEF V, L

GroupBody(bufs, w, W, gt, gend) == Fill(bufs, w, gt, gend) \o Sync \o Drain(bufs, W, gt, gend) \o Sync

\* A round of v14: fill up to gtile groups, meet, read them, meet.
LEMMA GroupRound ==
    ASSUME NEW bufs, NEW W, NEW gt \in Nat, NEW gend \in Nat, gt <= gend
    PROVE  Part(W, [w \in W |-> GroupBody(bufs, w, W, gt, gend)], {}, {})
<1> DEFINE t == [w \in W |-> Fill(bufs, w, gt, gend)]
           s == [w \in W |-> Drain(bufs, W, gt, gend)]
           O == [w \in W |-> {}]
           V == [w \in W |-> Upto(Fills(bufs, w, gt, gend), gt, gend)]
           L == Upto(Drains(bufs, W, gt, gend), gt, gend)
           Q == [w \in W |-> L]
<1>1. Stages(W, t, O, V) /\ Stages(W, s, Q, O)
  <2>1. \A w \in W : Stage(Fill(bufs, w, gt, gend), {}, Upto(Fills(bufs, w, gt, gend), gt, gend))
    BY FillStage, NoUpto
  <2>2. Stage(Drain(bufs, W, gt, gend), L, {})
    BY DrainStage, NoUpto
  <2> QED
    BY <2>1, <2>2 DEF Stages
<1>2. Team(W, O, V, {}, L)
  BY FillTeam
<1>3. Team(W, Q, O, L, {})
  <2> HIDE DEF L
  <2> QED
    BY Reading
<1>4. [w \in W |-> t[w] \o Sync \o s[w] \o Sync] = [w \in W |-> GroupBody(bufs, w, W, gt, gend)]
  BY DEF GroupBody
<1> HIDE DEF t, s, O, V, L, Q
<1>5. Part(W, [w \in W |-> t[w] \o Sync \o s[w] \o Sync], {}, {})
  BY <1>1, <1>2, <1>3, TwoPhases
<1> QED
  BY <1>4, <1>5
-----------------------------------------------------------------------------
\* A strided loop starts every round below its end.
LEMMA StrideBelow ==
    ASSUME NEW d \in Nat, NEW step \in Nat \ {0}
    PROVE  /\ Ceil(d, step) \in Nat
           /\ \A i \in 0 .. Ceil(d, step) - 1 : i * step \in Nat /\ i * step < d
<1>1. PICK q \in Nat, r \in 0 .. step - 1 : d + step - 1 = step * q + r /\ q = (d + step - 1) \div step
  <2>1. d + step - 1 \in Nat
    OBVIOUS
  <2> QED
    BY <2>1, Division
<1>2. Ceil(d, step) = q
  BY <1>1 DEF Ceil
<1>3. ASSUME NEW i \in 0 .. q - 1 PROVE i * step \in Nat /\ i * step < d
  <2>1. PICK e \in Nat : q = i + 1 + e
    <3>1. q - (i + 1) \in Nat /\ q = i + 1 + (q - (i + 1))
      OBVIOUS
    <3> QED
      BY <3>1
  <2>2. step * q = step * i + step + step * e
    BY <2>1
  <2>3. PICK x \in Nat, y \in Nat, z \in Nat : x = step * i /\ y = step * e /\ z = step * q
    OBVIOUS
  <2>4. i * step = x
    BY <2>3
  <2> QED
    BY <2>2, <2>3, <2>4, <1>1
<1> QED
  BY <1>2, <1>3

GroupEnd(g0, g1, gtile, i) == Least(g0 + i * gtile + gtile, g1)
GroupBodies(bufs, w, W, g0, g1, gtile) ==
    [i \in 0 .. Ceil(g1 - g0, gtile) - 1 |->
        GroupBody(bufs, w, W, g0 + i * gtile, GroupEnd(g0, g1, gtile, i))]

\* Grouped is the loop over its rounds.
LEMMA GroupedUnrolls ==
    ASSUME NEW bufs, NEW W, NEW w, NEW g0 \in Nat, NEW g1 \in Nat, g0 <= g1, NEW gtile \in Nat \ {0},
           Bodies(0, Ceil(g1 - g0, gtile), GroupBodies(bufs, w, W, g0, g1, gtile))
    PROVE  \E f : Unrolled(f, 0, Ceil(g1 - g0, gtile), GroupBodies(bufs, w, W, g0, g1, gtile))
                /\ Grouped(bufs, w, W, g0, g1, gtile) = f[Ceil(g1 - g0, gtile)]
<1> DEFINE n == Ceil(g1 - g0, gtile)
           B == GroupBodies(bufs, w, W, g0, g1, gtile)
           One(i) == GroupBody(bufs, w, W, g0 + i * gtile, GroupEnd(g0, g1, gtile, i))
           u == CHOOSE u : u = [i \in 0 .. n |-> IF i = 0 THEN <<>> ELSE u[i - 1] \o One(i - 1)]
<1>0. n \in Nat
  BY StrideBelow
<1>1. Grouped(bufs, w, W, g0, g1, gtile) = u[n]
  BY DEF Grouped, Strides, Loop, GroupBody, Fill, Drain, GroupEnd
<1> HIDE DEF n
<1>2. PICK f : Unrolled(f, 0, n, B)
  BY <1>0, UnrollExists DEF n
<1>3. \A i \in 0 .. n : i # 0 => B[i - 1] = One(i - 1)
  <2> HIDE DEF One
  <2>1. B = [i \in 0 .. n - 1 |-> One(i)]
    BY DEF One, GroupBodies, n
  <2> QED
    BY <1>0, <2>1
<1> HIDE DEF B, One
<1>4. ASSUME NEW h
      PROVE  Unrolled(h, 0, n, B) <=>
                h = [i \in 0 .. n |-> IF i = 0 THEN <<>> ELSE h[i - 1] \o One(i - 1)]
  <2>1. [i \in 0 .. n |-> IF i = 0 THEN <<>> ELSE h[i - 1] \o One(i - 1)]
          = [i \in 0 .. n |-> IF i = 0 THEN <<>> ELSE h[i - 1] \o B[i - 1]]
    BY <1>3
  <2> QED
    BY <2>1 DEF Unrolled
<1>5. u = [i \in 0 .. n |-> IF i = 0 THEN <<>> ELSE u[i - 1] \o One(i - 1)]
  BY <1>2, <1>4
<1> HIDE DEF u
<1> QED
  BY <1>1, <1>4, <1>5 DEF B, n

\* Any number of groups, any gtile.
LEMMA GroupedIsPart ==
    ASSUME NEW W, NEW bufs, NEW g0 \in Nat, NEW g1 \in Nat, g0 <= g1, NEW gtile \in Nat \ {0}
    PROVE  Part(W, [w \in W |-> Grouped(bufs, w, W, g0, g1, gtile)], {}, {})
<1> DEFINE n == Ceil(g1 - g0, gtile)
           B == [w \in W |-> GroupBodies(bufs, w, W, g0, g1, gtile)]
           c == [w \in W |-> Grouped(bufs, w, W, g0, g1, gtile)]
           K == [i \in 0 .. n |-> {}]
<1>0. n \in Nat /\ \A i \in 0 .. n - 1 : i * gtile \in Nat /\ i * gtile < g1 - g0
  BY StrideBelow
<1> HIDE DEF n
<1>1. Rounds(W, 0, n, B, K)
  <2> SUFFICES ASSUME NEW i \in 0 .. n - 1 PROVE Part(W, [w \in W |-> B[w][i]], K[i], K[i + 1])
    BY DEF Rounds
  <2> DEFINE gt == g0 + i * gtile
             gend == GroupEnd(g0, g1, gtile, i)
  <2>1. [w \in W |-> B[w][i]] = [w \in W |-> GroupBody(bufs, w, W, gt, gend)]
    BY DEF GroupBodies, n
  <2>2. K[i] = {} /\ K[i + 1] = {}
    BY <1>0
  <2>3. gt \in Nat /\ gend \in Nat /\ gt <= gend
    <3>1. PICK x \in Nat : x = i * gtile /\ x < g1 - g0
      BY <1>0
    <3>2. gt = g0 + x /\ gend = IF g0 + x + gtile < g1 THEN g0 + x + gtile ELSE g1
      BY <3>1 DEF GroupEnd, Least
    <3> HIDE DEF gt, gend
    <3> QED
      BY <3>1, <3>2
  <2> HIDE DEF gt, gend, K, B
  <2>4. Part(W, [w \in W |-> GroupBody(bufs, w, W, gt, gend)], {}, {})
    BY <2>3, GroupRound
  <2> QED
    BY <2>1, <2>2, <2>4
<1>2. \A w \in W : Bodies(0, n, B[w])
  <2> HIDE DEF B, K
  <2> QED
    BY <1>1, RoundsAreTexts
<1>3. \A w \in W : \E f : Unrolled(f, 0, n, B[w]) /\ c[w] = f[n]
  <2> SUFFICES ASSUME NEW w \in W PROVE \E f : Unrolled(f, 0, n, B[w]) /\ c[w] = f[n]
    OBVIOUS
  <2>1. B[w] = GroupBodies(bufs, w, W, g0, g1, gtile) /\ c[w] = Grouped(bufs, w, W, g0, g1, gtile)
    OBVIOUS
  <2> HIDE DEF B, c
  <2> QED
    BY <1>2, <2>1, GroupedUnrolls DEF n
<1>4. Loops(c, W, 0, n, B)
  BY <1>3 DEF Loops
<1>5. K[0] = {} /\ K[n] = {}
  BY <1>0
<1> HIDE DEF B, c, K
<1>6. Part(W, c, K[0], K[n])
  BY <1>0, <1>1, <1>4, LoopsArePart
<1> QED
  BY <1>5, <1>6 DEF c
-----------------------------------------------------------------------------
\* An output behind a guard.
MayStore(yes, P, x) == IF yes THEN Do({}, Result(P, x)) ELSE <<>>
Kept(yes, P) == IF yes THEN P ELSE {}

\* A guarded store is a stage.
LEMMA MayStoreStage ==
    ASSUME NEW yes, yes \in BOOLEAN, NEW P, NEW x
    PROVE  Stage(MayStore(yes, P, x), {}, Result(Kept(yes, P), x))
<1>1. CASE yes
  BY <1>1, StageDo DEF MayStore, Kept
<1>2. CASE ~yes
  <2>1. Result({}, x) = {}
    BY DEF Result
  <2>2. MayStore(yes, P, x) = <<>> /\ Kept(yes, P) = {}
    BY <1>2 DEF MayStore, Kept
  <2> QED
    BY <2>1, <2>2, StageNothing
<1> QED
  BY <1>1, <1>2

KeptApart(W, yes, P) ==
    /\ \A w \in W : yes[w] \in BOOLEAN
    /\ \A v, w \in W : v # w => Kept(yes[v], P[v]) \cap Kept(yes[w], P[w]) = {}

Stored(W, yes, P, x) == [w \in W |-> MayStore(yes[w], P[w], x)]

\* All that a wave without input or barrier does.
LEMMA StoresEnd ==
    ASSUME NEW W, NEW yes, NEW P, KeptApart(W, yes, P), NEW x, NEW K
    PROVE  Ending(W, Stored(W, yes, P, x), K, {})
<1> DEFINE t == [w \in W |-> MayStore(yes[w], P[w], x)]
           O == [w \in W |-> {}]
           Q == [w \in W |-> Kept(yes[w], P[w])]
           V == Outputs(W, Q, x)
<1>1. Stages(W, t, O, V)
  BY MayStoreStage DEF Stages, KeptApart, Outputs
<1>2. Team(W, O, V, K, {})
  <2>1. Reads(W, O, K)
    BY CellsOfNone DEF Inside, Reads
  <2>2. Distinct(W, Q)
    BY DEF KeptApart, Distinct
  <2> HIDE DEF O, Q
  <2> QED
    BY <2>1, <2>2, Storing
<1> HIDE DEF t, O, V
<1> QED
  BY <1>1, <1>2, TeamEnding DEF t, Stored
-----------------------------------------------------------------------------
\* v11: everybody stages, the waves with a column compute.
GemvColumn(b, w) == b[1] * Gemv.waves + w
GemvRead(l, b, w, W, kc) == IF GemvColumn(b, w) < l.N THEN Do(All({"a"}, W, kc), {}) ELSE <<>>
GemvBody(l, b, w, W, kc) == Do({}, Own({"a"}, w, kc)) \o Sync \o GemvRead(l, b, w, W, kc) \o Sync
GemvLoop(l, b, w, W) == Strides(0, l.G, Gemv.chunk, LAMBDA kc : GemvBody(l, b, w, W, kc))

\* A round of v11: also the waves beyond N stage and meet.
LEMMA GemvRound ==
    ASSUME NEW W, NEW l, NEW b, NEW kc
    PROVE  Part(W, [w \in W |-> GemvBody(l, b, w, W, kc)], {}, {})
<1> DEFINE t == [w \in W |-> Do({}, OwnOf({"a"}, 0, w, kc))]
           s == [w \in W |-> GemvRead(l, b, w, W, kc)]
           O == [w \in W |-> {}]
           V == [w \in W |-> OwnOf({"a"}, 0, w, kc)]
           L == AllOf({"a"}, 0, W, kc)
           Q == [w \in W |-> L]
<1>1. Stages(W, t, O, V)
  BY StageDo DEF Stages
<1>2. Stages(W, s, Q, O)
  <2>1. ASSUME NEW w \in W PROVE Stage(GemvRead(l, b, w, W, kc), L, {})
    BY StageDo, StageNothing DEF GemvRead, All
  <2> HIDE DEF L
  <2> QED
    BY <2>1 DEF Stages
<1>3. Team(W, O, V, {}, L)
  <2>1. Off({}, {"a"}, 0)
    BY CellsOfNone DEF Off
  <2>2. \A w \in W : O[w] \subseteq {} /\ Off(O[w], {"a"}, 0)
    BY <2>1
  <2> HIDE DEF O
  <2> QED
    BY <2>1, <2>2, Staging
<1>4. Team(W, Q, O, L, {})
  <2> HIDE DEF L
  <2> QED
    BY Reading
<1>5. [w \in W |-> t[w] \o Sync \o s[w] \o Sync] = [w \in W |-> GemvBody(l, b, w, W, kc)]
  BY DEF GemvBody, Own
<1> HIDE DEF t, s, O, V, L, Q
<1>6. Part(W, [w \in W |-> t[w] \o Sync \o s[w] \o Sync], {}, {})
  BY <1>1, <1>2, <1>3, <1>4, TwoPhases
<1> QED
  BY <1>5, <1>6

GemvBodies(l, b, w, W) == [i \in 0 .. Ceil(l.G - 0, Gemv.chunk) - 1 |-> GemvBody(l, b, w, W, 0 + i * Gemv.chunk)]

\* The loop of v11 is the loop over its rounds.
LEMMA GemvUnrolls ==
    ASSUME NEW l, NEW b, NEW W, NEW w, NEW n \in Nat, n = Ceil(l.G - 0, Gemv.chunk),
           Bodies(0, n, GemvBodies(l, b, w, W))
    PROVE  \E f : Unrolled(f, 0, n, GemvBodies(l, b, w, W)) /\ GemvLoop(l, b, w, W) = f[n]
<1> DEFINE B == GemvBodies(l, b, w, W)
           One(i) == GemvBody(l, b, w, W, 0 + i * Gemv.chunk)
           u == CHOOSE u : u = [i \in 0 .. n |-> IF i = 0 THEN <<>> ELSE u[i - 1] \o One(i - 1)]
<1>1. GemvLoop(l, b, w, W) = u[n]
  BY DEF GemvLoop, Strides, Loop
<1>2. PICK f : Unrolled(f, 0, n, B)
  BY UnrollExists
<1>3. \A i \in 0 .. n : i # 0 => B[i - 1] = One(i - 1)
  <2> HIDE DEF One
  <2>1. B = [i \in 0 .. n - 1 |-> One(i)]
    BY DEF One, GemvBodies
  <2> QED
    BY <2>1
<1> HIDE DEF B, One
<1>4. ASSUME NEW h
      PROVE  Unrolled(h, 0, n, B) <=>
                h = [i \in 0 .. n |-> IF i = 0 THEN <<>> ELSE h[i - 1] \o One(i - 1)]
  <2>1. [i \in 0 .. n |-> IF i = 0 THEN <<>> ELSE h[i - 1] \o One(i - 1)]
          = [i \in 0 .. n |-> IF i = 0 THEN <<>> ELSE h[i - 1] \o B[i - 1]]
    BY <1>3
  <2> QED
    BY <2>1 DEF Unrolled
<1>5. u = [i \in 0 .. n |-> IF i = 0 THEN <<>> ELSE u[i - 1] \o One(i - 1)]
  BY <1>2, <1>4
<1> HIDE DEF u
<1> QED
  BY <1>1, <1>4, <1>5 DEF B

\* The loop of v11, however many chunks.
LEMMA GemvIsPart ==
    ASSUME NEW l, l.G \in Nat, NEW b, NEW W, Gemv.chunk \in Nat \ {0}
    PROVE  Part(W, [w \in W |-> GemvLoop(l, b, w, W)], {}, {})
<1> PICK n : n = Ceil(l.G - 0, Gemv.chunk)
  OBVIOUS
<1> DEFINE B == [w \in W |-> GemvBodies(l, b, w, W)]
           c == [w \in W |-> GemvLoop(l, b, w, W)]
           K == [i \in 0 .. n |-> {}]
<1>0. n \in Nat
  <2>1. l.G - 0 \in Nat
    OBVIOUS
  <2> QED
    BY <2>1, StrideBelow
<1>1. Rounds(W, 0, n, B, K)
  <2> SUFFICES ASSUME NEW i \in 0 .. n - 1 PROVE Part(W, [w \in W |-> B[w][i]], K[i], K[i + 1])
    BY DEF Rounds
  <2> DEFINE kc == 0 + i * Gemv.chunk
  <2>1. [w \in W |-> B[w][i]] = [w \in W |-> GemvBody(l, b, w, W, kc)]
    BY DEF GemvBodies
  <2>2. K[i] = {} /\ K[i + 1] = {}
    BY <1>0
  <2> HIDE DEF kc, K, B
  <2>4. Part(W, [w \in W |-> GemvBody(l, b, w, W, kc)], {}, {})
    BY GemvRound
  <2> QED
    BY <2>1, <2>2, <2>4
<1>2. \A w \in W : Bodies(0, n, B[w])
  <2> HIDE DEF B, K
  <2> QED
    BY <1>1, RoundsAreTexts
<1>3. \A w \in W : \E f : Unrolled(f, 0, n, B[w]) /\ c[w] = f[n]
  <2> SUFFICES ASSUME NEW w \in W PROVE \E f : Unrolled(f, 0, n, B[w]) /\ c[w] = f[n]
    OBVIOUS
  <2>1. B[w] = GemvBodies(l, b, w, W) /\ c[w] = GemvLoop(l, b, w, W)
    OBVIOUS
  <2> HIDE DEF B, c
  <2> QED
    BY <1>0, <1>2, <2>1, GemvUnrolls
<1>4. Loops(c, W, 0, n, B)
  BY <1>3 DEF Loops
<1>5. K[0] = {} /\ K[n] = {}
  BY <1>0
<1> HIDE DEF B, c, K
<1>6. Part(W, c, K[0], K[n])
  BY <1>0, <1>1, <1>4, LoopsArePart
<1> QED
  BY <1>5, <1>6 DEF c

GemvWaves == 0 .. Gemv.waves - 1

\* v11 for any launch.
LEMMA GemvEnds ==
    ASSUME NEW l, l.G \in Nat, l.N \in Nat, NEW b, b[1] \in Nat, Gemv.chunk \in Nat \ {0}, Gemv.waves \in Nat
    PROVE  Ending(GemvWaves, [w \in GemvWaves |-> V11(l, b, w)], {}, {})
<1> DEFINE W == GemvWaves
           a == [w \in W |-> GemvLoop(l, b, w, W)]
           yes == [w \in W |-> GemvColumn(b, w) < l.N]
           P == [w \in W |-> (0 .. l.M - 1) \X {GemvColumn(b, w)}]
           c == Stored(W, yes, P, 0 .. l.G - 1)
<1>1. Part(W, a, {}, {})
  BY GemvIsPart
<1>2. Ending(W, c, {}, {})
  <2>1. ASSUME NEW v \in W, NEW w \in W, v # w PROVE Kept(yes[v], P[v]) \cap Kept(yes[w], P[w]) = {}
    <3>1. GemvColumn(b, v) # GemvColumn(b, w)
      <4>1. PICK x \in Nat : x = b[1] * Gemv.waves
        OBVIOUS
      <4>2. v \in Nat /\ w \in Nat
        BY DEF GemvWaves
      <4> QED
        BY <2>1, <4>1, <4>2 DEF GemvColumn
    <3>2. P[v] \cap P[w] = {}
      BY <3>1
    <3> HIDE DEF P, yes
    <3> QED
      BY <3>2 DEF Kept
  <2>2. \A w \in W : yes[w] \in BOOLEAN
    OBVIOUS
  <2> HIDE DEF yes, P
  <2>3. KeptApart(W, yes, P)
    BY <2>1, <2>2 DEF KeptApart
  <2> QED
    BY <2>3, StoresEnd
<1>3. Cat(a, c) = [w \in W |-> V11(l, b, w)]
  <2>1. ASSUME NEW w \in W PROVE a[w] \o c[w] = V11(l, b, w)
    BY DEF V11, GemvLoop, GemvBody, GemvRead, GemvColumn, MayStore, Stored, GemvWaves
  <2>2. DOMAIN a = W
    OBVIOUS
  <2> HIDE DEF a, c
  <2> QED
    BY <2>1, <2>2 DEF Cat
<1> HIDE DEF a, c
<1>4. Ending(W, Cat(a, c), {}, {})
  BY <1>1, <1>2, PartThenEnding
<1> QED
  BY <1>3, <1>4
-----------------------------------------------------------------------------
\* A tile in whole fragments.
Shaped(k) == /\ Dim \in Nat \ {0} /\ Tile[k].wn \in Nat \ {0}
             /\ Tile[k].bm \in Nat /\ Tile[k].bn \in Nat
\* The first row and column of a block.
Placed(k, l, b) == BlockM(k, l, b) \in Nat /\ BlockN(k, l, b) \in Nat
Patch(k, l, b, w) == Rows(k, l, b, w) \X Columns(k, l, b, w)

\* No two waves of a block compute one output.
LEMMA PlacesApart ==
    ASSUME NEW k, Shaped(k), NEW l, NEW b, Placed(k, l, b), NEW v \in Nat, NEW w \in Nat, v # w
    PROVE  Patch(k, l, b, v) \cap Patch(k, l, b, w) = {}
<1> DEFINE wn == Tile[k].wn
           width == Tile[k].bn \div wn
<1>1. /\ v \div wn \in Nat /\ v % wn \in Nat /\ w \div wn \in Nat /\ w % wn \in Nat
      /\ v \div wn # w \div wn \/ v % wn # w % wn
      /\ width \in Nat
  <2>1. wn \in Nat \ {0} /\ Tile[k].bn \in Nat
    BY DEF Shaped
  <2>2. width \in Nat
    BY <2>1, Division
  <2> HIDE DEF width, wn
  <2> QED
    BY <2>1, <2>2, PlacesDiffer
<1>2. /\ Rows(k, l, b, v) \subseteq Span(BlockM(k, l, b), v \div wn, Dim)
      /\ Rows(k, l, b, w) \subseteq Span(BlockM(k, l, b), w \div wn, Dim)
  BY DEF Rows, Span
<1>3. /\ Columns(k, l, b, v) \subseteq Span(BlockN(k, l, b), v % wn, width)
      /\ Columns(k, l, b, w) \subseteq Span(BlockN(k, l, b), w % wn, width)
  BY DEF Columns, Span
<1> PICK qv, rv, qw, rw : qv = v \div wn /\ rv = v % wn /\ qw = w \div wn /\ rw = w % wn
  OBVIOUS
<1>4. qv # qw \/ rv # rw
  BY <1>1
<1> HIDE DEF width, wn
<1>5. CASE qv # qw
  <2>1. Rows(k, l, b, v) \cap Rows(k, l, b, w) = {}
    <3>1. Dim \in Nat /\ BlockM(k, l, b) \in Nat
      BY DEF Shaped, Placed
    <3>2. Span(BlockM(k, l, b), qv, Dim) \cap Span(BlockM(k, l, b), qw, Dim) = {}
      BY <1>1, <1>5, <3>1, SpansApart
    <3> QED
      BY <1>2, <3>2
  <2> QED
    BY <2>1 DEF Patch
<1>6. CASE rv # rw
  <2>1. Columns(k, l, b, v) \cap Columns(k, l, b, w) = {}
    <3>1. width \in Nat /\ BlockN(k, l, b) \in Nat
      BY <1>1 DEF Placed
    <3>2. Span(BlockN(k, l, b), rv, width) \cap Span(BlockN(k, l, b), rw, width) = {}
      BY <1>1, <1>6, <3>1, SpansApart
    <3> QED
      BY <1>3, <3>2
  <2> QED
    BY <2>1 DEF Patch
<1> QED
  BY <1>4, <1>5, <1>6

\* The waves store their own places and read what is known.
LEMMA EpilogueEnds ==
    ASSUME NEW k, Shaped(k), NEW l, NEW b, Placed(k, l, b), NEW W, W \subseteq Nat, NEW R, NEW K, Reads(W, R, K)
    PROVE  Ending(W, [w \in W |-> Epilogue(k, l, b, w, R[w])], K, {})
<1> DEFINE x == G0(k, l, b) .. G1(k, l, b) - 1
           P == [w \in W |-> Patch(k, l, b, w)]
           V == Outputs(W, P, x)
           t == [w \in W |-> Epilogue(k, l, b, w, R[w])]
<1>1. Stages(W, t, R, V)
  <2>1. \A w \in W : t[w] = Do(R[w], V[w])
    BY DEF Epilogue, Patch, Outputs
  <2>2. DOMAIN t = W
    OBVIOUS
  <2> HIDE DEF t, V
  <2> QED
    BY <2>1, <2>2, StageDo DEF Stages
<1>2. Team(W, R, V, K, {})
  <2>1. Distinct(W, P)
    BY PlacesApart DEF Distinct
  <2> HIDE DEF P, x
  <2> QED
    BY <2>1, Storing
<1> HIDE DEF V, t
<1> QED
  BY <1>1, <1>2, TeamEnding DEF t
-----------------------------------------------------------------------------
\* The scales of a block's rows.
ScalesOf(W) == AllOf({"act_scale"}, 0, W, "scale")

\* The prologue of the scales.
LEMMA ScalesPart == ASSUME NEW W PROVE Part(W, [w \in W |-> BlockActScales(w)], {}, ScalesOf(W))
<1> DEFINE O == [w \in W |-> {}]
           V == [w \in W |-> OwnOf({"act_scale"}, 0, w, "scale")]
           t == [w \in W |-> Do({}, V[w])]
<1>1. Stages(W, t, O, V)
  BY StageDo DEF Stages
<1>2. Team(W, O, V, {}, ScalesOf(W))
  <2>1. Off({}, {"act_scale"}, 0)
    BY CellsOfNone DEF Off
  <2>2. \A w \in W : O[w] \subseteq {} /\ Off(O[w], {"act_scale"}, 0)
    BY <2>1
  <2> HIDE DEF O
  <2> QED
    BY <2>1, <2>2, Staging DEF ScalesOf
<1>3. [w \in W |-> t[w] \o Sync] = [w \in W |-> BlockActScales(w)]
  BY DEF BlockActScales, Own
<1> HIDE DEF t, O, V
<1> QED
  BY <1>1, <1>2, <1>3, TeamPart

\* The scales stay off the buffers of the tiles.
LEMMA ScalesKeepOff ==
    ASSUME NEW W
    PROVE  /\ \A bufs, slot : "act_scale" \notin bufs => Off(ScalesOf(W), bufs, slot)
           /\ Inside(ScalesOf(W)) /\ ScalesOf(W) = ActScales(W)
<1>1. CellsOf(ScalesOf(W)) = {<<b, 0, w>> : b \in {"act_scale"}, w \in W}
  <2> DEFINE bufs == {"act_scale"}
             x == "scale"
  <2> PICK slot : slot = 0
    OBVIOUS
  <2>1. ScalesOf(W) = AllOf(bufs, slot, W, x)
    BY DEF ScalesOf
  <2> HIDE DEF bufs, x
  <2>2. CellsOf(AllOf(bufs, slot, W, x)) = {<<b, slot, w>> : b \in bufs, w \in W}
    BY CellsOfOwn
  <2> QED
    BY <2>1, <2>2 DEF bufs
<1>2. ASSUME NEW bufs, NEW slot, "act_scale" \notin bufs PROVE Off(ScalesOf(W), bufs, slot)
  BY <1>1, <1>2 DEF Off
<1>3. Inside(ScalesOf(W))
  BY <1>1 DEF Inside
<1> QED
  BY <1>2, <1>3 DEF ScalesOf, ActScales, All
-----------------------------------------------------------------------------
\* The conversion to fp16 for any launch.
LEMMA CvtEnds ==
    ASSUME NEW l, l.M \in Nat, l.N \in Nat, NEW b, b[1] \in Nat, ActWaves \in Nat, NEW W, W \subseteq Nat
    PROVE  Ending(W, [w \in W |-> Cvt(l, b, w)], {}, {})
<1> DEFINE n == l.N
           i(w) == b[1] * ActWaves + w
           yes == [w \in W |-> i(w) < l.M * n]
           P == [w \in W |-> {<<i(w) \div n, i(w) % n>>}]
<1>1. ASSUME NEW v \in W, NEW w \in W, v # w PROVE Kept(yes[v], P[v]) \cap Kept(yes[w], P[w]) = {}
  <2>1. CASE n = 0
    <3>1. \A u \in W : ~yes[u]
      <4>1. PICK z : z = l.M * n
        OBVIOUS
      <4>2. z = 0
        BY <2>1, <4>1
      <4>3. PICK x \in Nat : x = b[1] * ActWaves
        OBVIOUS
      <4>4. \A u \in W : yes[u] => x + u < z
        BY <4>1, <4>3
      <4> HIDE DEF yes
      <4>5. \A u \in W : ~(x + u < 0)
        OBVIOUS
      <4> QED
        BY <4>2, <4>4, <4>5
    <3> HIDE DEF yes, P
    <3> QED
      BY <3>1 DEF Kept
  <2>2. CASE n # 0
    <3>1. PICK x \in Nat : x = b[1] * ActWaves
      OBVIOUS
    <3>2. i(v) \in Nat /\ i(w) \in Nat /\ i(v) # i(w)
      BY <1>1, <3>1
    <3>3. n \in Nat \ {0}
      BY <2>2
    <3> PICK y, z : y = i(v) /\ z = i(w)
      OBVIOUS
    <3>4. P[v] = {<<y \div n, y % n>>} /\ P[w] = {<<z \div n, z % n>>}
      OBVIOUS
    <3> HIDE DEF n, i, P, yes
    <3>5. y \div n # z \div n \/ y % n # z % n
      BY <3>2, <3>3, PlacesDiffer
    <3>6. <<y \div n, y % n>> # <<z \div n, z % n>>
      BY <3>5
    <3> QED
      BY <3>4, <3>6 DEF Kept
  <2> QED
    BY <2>1, <2>2
<1>2. KeptApart(W, yes, P)
  <2>1. \A w \in W : yes[w] \in BOOLEAN
    OBVIOUS
  <2> HIDE DEF yes, P
  <2> QED
    BY <1>1, <2>1 DEF KeptApart
<1>3. [w \in W |-> Cvt(l, b, w)] = Stored(W, yes, P, {0})
  BY DEF Cvt, MayStore, Stored
<1> HIDE DEF yes, P
<1>4. Ending(W, Stored(W, yes, P, {0}), {}, {})
  BY <1>2, StoresEnd
<1> QED
  BY <1>3, <1>4

\* v0 for any launch.
LEMMA V0Ends ==
    ASSUME NEW l, l.M \in Nat, l.N \in Nat, NEW b, b[1] \in Nat, b[2] \in Nat, Square \in Nat \ {0}, NEW W, W \subseteq Nat
    PROVE  Ending(W, [w \in W |-> V0(l, b, w)], {}, {})
<1> DEFINE row(w) == b[2] * Square + (w \div Square)
           col(w) == b[1] * Square + (w % Square)
           yes == [w \in W |-> ~(row(w) >= l.M \/ col(w) >= l.N)]
           P == [w \in W |-> {<<row(w), col(w)>>}]
<1>1. ASSUME NEW v \in W, NEW w \in W, v # w PROVE Kept(yes[v], P[v]) \cap Kept(yes[w], P[w]) = {}
  <2>1. /\ v \div Square \in Nat /\ v % Square \in Nat /\ w \div Square \in Nat /\ w % Square \in Nat
        /\ v \div Square # w \div Square \/ v % Square # w % Square
    BY <1>1, PlacesDiffer
  <2> PICK qv, rv, qw, rw : qv = v \div Square /\ rv = v % Square /\ qw = w \div Square /\ rw = w % Square
    OBVIOUS
  <2>2. qv # qw \/ rv # rw
    BY <1>1, <2>1
  <2>3. PICK x \in Nat, y \in Nat : x = b[2] * Square /\ y = b[1] * Square
    OBVIOUS
  <2>4. P[v] = {<<x + qv, y + rv>>} /\ P[w] = {<<x + qw, y + rw>>}
    BY <2>3
  <2> HIDE DEF P, yes
  <2>5. <<x + qv, y + rv>> # <<x + qw, y + rw>>
    BY <2>1, <2>2
  <2> QED
    BY <2>4, <2>5 DEF Kept
<1>2. KeptApart(W, yes, P)
  <2>1. \A w \in W : yes[w] \in BOOLEAN
    OBVIOUS
  <2> HIDE DEF yes, P
  <2> QED
    BY <1>1, <2>1 DEF KeptApart
<1>3. [w \in W |-> V0(l, b, w)] = Stored(W, yes, P, 0 .. l.G - 1)
  BY DEF V0, MayStore, Stored
<1> HIDE DEF yes, P
<1>4. Ending(W, Stored(W, yes, P, 0 .. l.G - 1), {}, {})
  BY <1>2, StoresEnd
<1> QED
  BY <1>3, <1>4
-----------------------------------------------------------------------------
\* The quantisation of a row.
QuantWaves == 0 .. ActWaves - 1
Scale0 == {<<<<"warp_maxes", 0, 0>>, "scale">>}
QuantScale(w) == IF w = 0 THEN Do(All({"warp_maxes"}, QuantWaves, "max"), Scale0) ELSE <<>>
QuantPlace(l, b, w) == {b[1]} \X {c \in 0 .. l.N - 1 : c % ActWaves = w}

\* The quantisation of the activations for any launch.
LEMMA QuantEnds ==
    ASSUME NEW l, NEW b, ActWaves \in Nat \ {0}
    PROVE  Ending(QuantWaves, [w \in QuantWaves |-> ActQuant(l, b, w)], {}, {})
<1> DEFINE W == QuantWaves
           bufs == {"warp_maxes"}
           x == "max"
           L == AllOf(bufs, 0, W, x)
           O == [w \in W |-> {}]
           V == [w \in W |-> OwnOf(bufs, 0, w, x)]
           t == [w \in W |-> Do({}, V[w])]
           s == [w \in W |-> QuantScale(w)]
           Q == [w \in W |-> IF w = 0 THEN L ELSE {}]
           X == [w \in W |-> IF w = 0 THEN Scale0 ELSE {}]
           a == [w \in W |-> t[w] \o Sync \o s[w] \o Sync]
           R == [w \in W |-> Scale0]
           P == [w \in W |-> QuantPlace(l, b, w)]
           Y == Outputs(W, P, {0})
           c == [w \in W |-> Do(R[w], Y[w])]
<1>0. 0 \in W
  BY DEF QuantWaves
<1>1. Stages(W, t, O, V)
  BY StageDo DEF Stages
<1>2. Stages(W, s, Q, X)
  <2>1. ASSUME NEW w \in W PROVE Stage(s[w], Q[w], X[w])
    <3>1. CASE w = 0
      <4>1. s[w] = Do(L, Scale0) /\ Q[w] = L /\ X[w] = Scale0
        BY <3>1 DEF QuantScale, All
      <4> HIDE DEF s, Q, X, L
      <4> QED
        BY <4>1, StageDo
    <3>2. CASE w # 0
      <4>1. s[w] = <<>> /\ Q[w] = {} /\ X[w] = {}
        BY <3>2 DEF QuantScale
      <4> HIDE DEF s, Q, X, L
      <4> QED
        BY <4>1, StageNothing
    <3> QED
      BY <3>1, <3>2
  <2>2. DOMAIN s = W
    OBVIOUS
  <2> HIDE DEF s, Q, X
  <2> QED
    BY <2>1, <2>2 DEF Stages
<1>3. Team(W, O, V, {}, L)
  <2>1. Off({}, bufs, 0)
    BY CellsOfNone DEF Off
  <2>2. \A w \in W : O[w] \subseteq {} /\ Off(O[w], bufs, 0)
    BY <2>1
  <2> HIDE DEF O, bufs, x
  <2> QED
    BY <2>1, <2>2, Staging
<1>4. Team(W, Q, X, L, Scale0)
  <2>1. \A w \in W : Q[w] \subseteq L
    OBVIOUS
  <2>2. ASSUME NEW v \in W, NEW w \in W, v # w PROVE CellsOf(X[v]) \cap (CellsOf(Q[w]) \cup CellsOf(X[w])) = {}
    <3>1. v # 0 \/ w # 0
      BY <2>2
    <3>2. v # 0 => X[v] = {}
      OBVIOUS
    <3>3. w # 0 => X[w] = {} /\ Q[w] = {}
      OBVIOUS
    <3> HIDE DEF X, Q
    <3> QED
      BY <3>1, <3>2, <3>3, CellsOfNone
  <2>3. \A h \in Scale0 : h \in X[0]
    BY <1>0
  <2> HIDE DEF X, Q, L
  <2> QED
    BY <1>0, <2>1, <2>2, <2>3 DEF Team
<1>5. Part(W, a, {}, Scale0)
  <2> HIDE DEF t, s, O, V, Q, X, L
  <2> QED
    BY <1>1, <1>2, <1>3, <1>4, TwoPhases
<1>6. Stages(W, c, R, Y)
  <2>1. DOMAIN c = W /\ \A w \in W : c[w] = Do(R[w], Y[w])
    OBVIOUS
  <2> HIDE DEF c, R, Y
  <2> QED
    BY <2>1, StageDo DEF Stages
<1>7. Team(W, R, Y, Scale0, {})
  <2>1. CellsOf(Scale0) = {<<"warp_maxes", 0, 0>>}
    BY CellsOfOne DEF Scale0
  <2>2. Inside(Scale0)
    BY <2>1 DEF Inside
  <2>3. Reads(W, R, Scale0)
    BY <2>2 DEF Reads
  <2>4. Distinct(W, P)
    BY DEF QuantPlace, Distinct
  <2> HIDE DEF R, P
  <2> QED
    BY <2>3, <2>4, Storing
<1>8. Ending(W, c, Scale0, {})
  <2> HIDE DEF c, R, Y
  <2> QED
    BY <1>6, <1>7, TeamEnding
<1>9. Cat(a, c) = [w \in W |-> ActQuant(l, b, w)]
  <2>1. ASSUME NEW w \in W PROVE a[w] \o c[w] = ActQuant(l, b, w)
    BY DEF ActQuant, QuantWaves, QuantScale, QuantPlace, Outputs, Scale0, Own, All
  <2>2. DOMAIN a = W
    OBVIOUS
  <2> HIDE DEF a, c
  <2> QED
    BY <2>1, <2>2 DEF Cat
<1> HIDE DEF a, c
<1>10. Ending(W, Cat(a, c), {}, {})
  BY <1>5, <1>8, PartThenEnding
<1> QED
  BY <1>9, <1>10
-----------------------------------------------------------------------------
\* Three phases with a barrier each.
LEMMA ThreePhases ==
    ASSUME NEW W, NEW t, NEW s, NEW r, NEW R, NEW V, NEW Q, NEW X, NEW T, NEW Y, NEW K, NEW L, NEW M, NEW N,
           Stages(W, t, R, V), Team(W, R, V, K, L), Stages(W, s, Q, X), Team(W, Q, X, L, M),
           Stages(W, r, T, Y), Team(W, T, Y, M, N)
    PROVE  Part(W, [w \in W |-> t[w] \o Sync \o s[w] \o Sync \o r[w] \o Sync], K, N)
<1> DEFINE a == [w \in W |-> t[w] \o Sync \o s[w] \o Sync]
           b == [w \in W |-> r[w] \o Sync]
<1>1. Part(W, a, K, M)
  BY TwoPhases
<1>2. Part(W, b, M, N)
  BY TeamPart
<1>3. Cat(a, b) = [w \in W |-> a[w] \o b[w]]
  BY DEF Cat
<1>4. ASSUME NEW w \in W PROVE a[w] \o b[w] = t[w] \o Sync \o s[w] \o Sync \o r[w] \o Sync
  <2>1. IsText(a[w])
    <3> HIDE DEF a
    <3> QED
      BY <1>1 DEF Part, IsCode
  <2>2. IsText(r[w]) /\ IsText(Sync)
    BY SyncIs DEF Stages, Stage
  <2>3. a[w] = t[w] \o Sync \o s[w] \o Sync /\ b[w] = r[w] \o Sync
    OBVIOUS
  <2> HIDE DEF a, b
  <2>4. (a[w] \o r[w]) \o Sync = a[w] \o (r[w] \o Sync)
    <3>1. Assoc(a[w], r[w], Sync)
      BY <2>1, <2>2, TextsAssoc
    <3> QED
      BY <3>1 DEF Assoc
  <2> QED
    BY <2>3, <2>4
<1>5. Cat(a, b) = [w \in W |-> t[w] \o Sync \o s[w] \o Sync \o r[w] \o Sync]
  BY <1>3, <1>4
<1> HIDE DEF a, b
<1>6. Part(W, Cat(a, b), K, N)
  BY <1>1, <1>2, PartThenPart
<1> QED
  BY <1>5, <1>6
-----------------------------------------------------------------------------
\* v1: everything a wave touches is its own.
OneBufs == {"a_tile", "b_tile", "wscale"}
SumOf(w, g) == {<<<<"out_acc", 0, w>>, 0 .. g - 1>>}
AllSums(W, g) == AllOf({"out_acc"}, 0, W, 0 .. g - 1)
OneStart(w) == Do({}, SumOf(w, 0))
OneLoad(w, g) == Do({}, OwnOf(OneBufs, 0, w, g))
OneProduct(w, g) == Do(OwnOf({"a_tile", "b_tile"}, 0, w, g), OwnOf({"tmp"}, 0, w, g))
OneAdd(w, g) == Do(OwnOf({"tmp", "wscale"}, 0, w, g) \cup SumOf(w, g), SumOf(w, g + 1))
OneRest(w, g) == OneProduct(w, g) \o Sync \o OneAdd(w, g) \o Sync
OneBody(w, g) == OneLoad(w, g) \o Sync \o OneProduct(w, g) \o Sync \o OneAdd(w, g) \o Sync
OneFirst(w, g) == IF g = 0 THEN OneStart(w) \o OneLoad(w, g) ELSE OneLoad(w, g)
OneRound(w, g) == OneFirst(w, g) \o Sync \o OneProduct(w, g) \o Sync \o OneAdd(w, g) \o Sync
OneKept(W, g) == IF g = 0 THEN {} ELSE AllSums(W, g)
OneLeft(w, g) == (IF g = 0 THEN SumOf(w, 0) ELSE {}) \cup OwnOf(OneBufs, 0, w, g)

\* v1 in its pieces.
LEMMA V1Is ==
    ASSUME NEW l, NEW b, NEW w
    PROVE  V1(l, b, w) = OneStart(w) \o Loop(0, l.G, LAMBDA g : OneBody(w, g)) \o Epilogue("v1", l, b, w, SumOf(w, l.G))
BY DEF V1, SumOf, OneStart, OneBody, OneLoad, OneProduct, OneAdd, OneBufs, Own

\* The pieces of a round of v1 are stages.
LEMMA OneStages ==
    ASSUME NEW w, NEW g
    PROVE  /\ Stage(OneFirst(w, g), {}, OneLeft(w, g))
           /\ Stage(OneProduct(w, g), OwnOf({"a_tile", "b_tile"}, 0, w, g), OwnOf({"tmp"}, 0, w, g))
           /\ Stage(OneAdd(w, g), OwnOf({"tmp", "wscale"}, 0, w, g) \cup SumOf(w, g), SumOf(w, g + 1))
<1>1. Stage(OneFirst(w, g), {}, OneLeft(w, g))
  <2> DEFINE V == SumOf(w, 0)
             Vn == OwnOf(OneBufs, 0, w, g)
  <2>1. CASE g = 0
    <3>1. CellsOf(V) = {<<"out_acc", 0, w>>}
      BY CellsOfOne DEF SumOf
    <3>2. CellsOf(Vn) = {<<b, 0, w>> : b \in OneBufs}
      BY CellsOfOwn
    <3> HIDE DEF V, Vn
    <3>3. CellsOf(V) \cap CellsOf(Vn) = {}
      BY <3>1, <3>2 DEF OneBufs
    <3>4. Apiece(V, {}, Vn)
      BY <3>3, CellsOfNone DEF Apiece
    <3>5. Stage(Do({}, V), {}, V) /\ Stage(Do({}, Vn), {}, Vn)
      BY StageDo
    <3>6. Stage(Do({}, V) \o Do({}, Vn), {} \cup {}, V \cup Vn)
      BY <3>4, <3>5, StageThen
    <3>7. {} \cup {} = {}
      OBVIOUS
    <3>8. OneFirst(w, g) = Do({}, V) \o Do({}, Vn) /\ OneLeft(w, g) = V \cup Vn
      BY <2>1 DEF OneFirst, OneLeft, OneStart, OneLoad, V, Vn
    <3> QED
      BY <3>6, <3>7, <3>8
  <2>2. CASE g # 0
    <3>1. OneFirst(w, g) = Do({}, Vn) /\ OneLeft(w, g) = Vn
      BY <2>2 DEF OneFirst, OneLeft, OneLoad
    <3> HIDE DEF Vn
    <3> QED
      BY <3>1, StageDo
  <2> QED
    BY <2>1, <2>2
<1>2. Stage(OneProduct(w, g), OwnOf({"a_tile", "b_tile"}, 0, w, g), OwnOf({"tmp"}, 0, w, g))
  BY StageDo DEF OneProduct
<1>3. Stage(OneAdd(w, g), OwnOf({"tmp", "wscale"}, 0, w, g) \cup SumOf(w, g), SumOf(w, g + 1))
  BY StageDo DEF OneAdd
<1> QED
  BY <1>1, <1>2, <1>3
-----------------------------------------------------------------------------
\* Waves that touch their own shares only.
Private(W, R, V) == \A w \in W : \A c \in CellsOf(R[w]) \cup CellsOf(V[w]) : c[3] = w
Leaving(W, V, K, L) == \A h \in L : (\E v \in W : h \in V[v]) \/ (h \in K /\ \A u \in W : h[1] \notin CellsOf(V[u]))

\* Waves that keep to their own shares are a team.
LEMMA PrivateTeam ==
    ASSUME NEW W, NEW R, NEW V, NEW K, NEW L, Private(W, R, V), \A w \in W : R[w] \subseteq K, Leaving(W, V, K, L)
    PROVE  Team(W, R, V, K, L)
<1>1. \A v, w \in W : v # w => CellsOf(V[v]) \cap (CellsOf(R[w]) \cup CellsOf(V[w])) = {}
  BY DEF Private
<1> QED
  BY <1>1 DEF Team, Leaving

\* A share of some buffers.
Shares(bufs, w) == {<<b, 0, w>> : b \in bufs}

\* The cells of a wave's pieces are its shares.
LEMMA SharesOf ==
    ASSUME NEW w, NEW g
    PROVE  /\ \A bufs : CellsOf(OwnOf(bufs, 0, w, g)) = Shares(bufs, w)
           /\ CellsOf(SumOf(w, g)) = Shares({"out_acc"}, w)
           /\ \A bufs : \A c \in Shares(bufs, w) : c[3] = w
<1>1. \A bufs : CellsOf(OwnOf(bufs, 0, w, g)) = Shares(bufs, w)
  BY CellsOfOwn DEF Shares
<1>2. CellsOf(SumOf(w, g)) = {<<"out_acc", 0, w>>}
  BY CellsOfOne DEF SumOf
<1>3. Shares({"out_acc"}, w) = {<<"out_acc", 0, w>>}
  BY DEF Shares
<1>4. \A bufs : \A c \in Shares(bufs, w) : c[3] = w
  BY DEF Shares
<1> QED
  BY <1>1, <1>2, <1>3, <1>4

\* The sums of all waves.
LEMMA SumsAre ==
    ASSUME NEW W, NEW g
    PROVE  /\ \A h \in AllSums(W, g) : \E w \in W : h \in SumOf(w, g)
           /\ \A w \in W : SumOf(w, g) \subseteq AllSums(W, g)
BY DEF AllSums, SumOf, AllOf

\* A share names its wave.
LEMMA SharesKeep == \A bufs, w : \A c \in Shares(bufs, w) : c[3] = w
BY DEF Shares

Loaded(W, g) == AllSums(W, g) \cup AllOf(OneBufs, 0, W, g)
Multiplied(W, g) == Loaded(W, g) \cup AllOf({"tmp"}, 0, W, g)

\* v1 stages the tiles of a group.
LEMMA LoadTeam ==
    ASSUME NEW W, NEW g \in Nat
    PROVE  Team(W, [w \in W |-> {}], [w \in W |-> OneLeft(w, g)], OneKept(W, g), Loaded(W, g))
<1> DEFINE R == [w \in W |-> {}]
           V == [w \in W |-> OneLeft(w, g)]
<1>1. ASSUME NEW w \in W
      PROVE  /\ g = 0 => CellsOf(V[w]) = Shares({"out_acc"}, w) \cup Shares(OneBufs, w)
             /\ g # 0 => CellsOf(V[w]) = Shares(OneBufs, w)
  <2>1. CellsOf(SumOf(w, 0)) = Shares({"out_acc"}, w) /\ CellsOf(OwnOf(OneBufs, 0, w, g)) = Shares(OneBufs, w)
    BY SharesOf
  <2>2. g # 0 => V[w] = OwnOf(OneBufs, 0, w, g)
    BY DEF OneLeft
  <2>3. g = 0 => V[w] = SumOf(w, 0) \cup OwnOf(OneBufs, 0, w, g)
    BY DEF OneLeft
  <2> HIDE DEF V
  <2> QED
    BY <2>1, <2>2, <2>3, CellsOfUnion
<1>2. Private(W, R, V)
  <2>1. \A w \in W : CellsOf(R[w]) = {}
    BY CellsOfNone
  <2> HIDE DEF R, V
  <2> QED
    BY <1>1, <2>1, SharesKeep DEF Private
<1>3. \A w \in W : R[w] \subseteq OneKept(W, g)
  OBVIOUS
<1>4. Leaving(W, V, OneKept(W, g), Loaded(W, g))
  <2> SUFFICES ASSUME NEW h \in Loaded(W, g)
               PROVE  \/ \E v \in W : h \in V[v]
                      \/ h \in OneKept(W, g) /\ \A u \in W : h[1] \notin CellsOf(V[u])
    BY DEF Leaving
  <2>1. CASE h \in AllOf(OneBufs, 0, W, g)
    <3>1. PICK v \in W : h \in OwnOf(OneBufs, 0, v, g)
      BY <2>1, CellsOfOwn
    <3> QED
      BY <3>1 DEF OneLeft
  <2>2. CASE h \in AllSums(W, g)
    <3>1. PICK v \in W : h \in SumOf(v, g)
      BY <2>2, SumsAre
    <3>2. CASE g = 0
      BY <3>1, <3>2 DEF OneLeft
    <3>3. CASE g # 0
      <4>1. h[1] = <<"out_acc", 0, v>>
        BY <3>1 DEF SumOf
      <4>2. \A u \in W : CellsOf(V[u]) = Shares(OneBufs, u)
        BY <3>3, <1>1
      <4>3. \A u \in W : h[1] \notin Shares(OneBufs, u)
        BY <4>1 DEF Shares, OneBufs
      <4>4. h \in OneKept(W, g)
        BY <3>3, <2>2 DEF OneKept
      <4> HIDE DEF V
      <4> QED
        BY <4>2, <4>3, <4>4
    <3> QED
      BY <3>2, <3>3
  <2> QED
    BY <2>1, <2>2 DEF Loaded
<1> HIDE DEF R, V
<1>5. Team(W, R, V, OneKept(W, g), Loaded(W, g))
  BY <1>2, <1>3, <1>4, PrivateTeam
<1> QED
  BY <1>5 DEF R, V

\* v1 multiplies them.
LEMMA ProductTeam ==
    ASSUME NEW W, NEW g \in Nat
    PROVE  Team(W, [w \in W |-> OwnOf({"a_tile", "b_tile"}, 0, w, g)], [w \in W |-> OwnOf({"tmp"}, 0, w, g)],
                Loaded(W, g), Multiplied(W, g))
<1> DEFINE ab == {"a_tile", "b_tile"}
           R == [w \in W |-> OwnOf(ab, 0, w, g)]
           V == [w \in W |-> OwnOf({"tmp"}, 0, w, g)]
<1>1. \A w \in W : CellsOf(R[w]) = Shares(ab, w) /\ CellsOf(V[w]) = Shares({"tmp"}, w)
  BY SharesOf
<1>2. Private(W, R, V)
  <2> HIDE DEF R, V
  <2> QED
    BY <1>1, SharesKeep DEF Private
<1>3. \A w \in W : R[w] \subseteq Loaded(W, g)
  BY DEF Loaded, OwnOf, AllOf, OneBufs
<1>4. Leaving(W, V, Loaded(W, g), Multiplied(W, g))
  <2> SUFFICES ASSUME NEW h \in Multiplied(W, g)
               PROVE  \/ \E v \in W : h \in V[v]
                      \/ h \in Loaded(W, g) /\ \A u \in W : h[1] \notin CellsOf(V[u])
    BY DEF Leaving
  <2>1. CASE h \in AllOf({"tmp"}, 0, W, g)
    <3>1. PICK v \in W : h \in OwnOf({"tmp"}, 0, v, g)
      BY <2>1 DEF AllOf, OwnOf
    <3> QED
      BY <3>1
  <2>2. CASE h \in Loaded(W, g)
    <3>1. h[1][1] # "tmp"
      <4>1. CASE h \in AllSums(W, g)
        <5>1. PICK v \in W : h \in SumOf(v, g)
          BY <4>1, SumsAre
        <5> QED
          BY <5>1 DEF SumOf
      <4>2. CASE h \in AllOf(OneBufs, 0, W, g)
        BY <4>2 DEF AllOf, OneBufs
      <4> QED
        BY <2>2, <4>1, <4>2 DEF Loaded
    <3>2. \A u \in W : h[1] \notin Shares({"tmp"}, u)
      BY <3>1 DEF Shares
    <3> HIDE DEF V
    <3> QED
      BY <1>1, <2>2, <3>2
  <2> QED
    BY <2>1, <2>2 DEF Multiplied
<1> HIDE DEF R, V
<1>5. Team(W, R, V, Loaded(W, g), Multiplied(W, g))
  BY <1>2, <1>3, <1>4, PrivateTeam
<1> QED
  BY <1>5 DEF R, V

AddReads(w, g) == OwnOf({"tmp", "wscale"}, 0, w, g) \cup SumOf(w, g)

\* v1 adds the product to the sum.
LEMMA AddTeam ==
    ASSUME NEW W, NEW g \in Nat
    PROVE  Team(W, [w \in W |-> AddReads(w, g)], [w \in W |-> SumOf(w, g + 1)], Multiplied(W, g), OneKept(W, g + 1))
<1> DEFINE R == [w \in W |-> AddReads(w, g)]
           V == [w \in W |-> SumOf(w, g + 1)]
           two == {"tmp", "wscale"}
<1>1. ASSUME NEW w \in W
      PROVE  CellsOf(R[w]) = Shares(two, w) \cup Shares({"out_acc"}, w) /\ CellsOf(V[w]) = Shares({"out_acc"}, w)
  <2>1. R[w] = OwnOf(two, 0, w, g) \cup SumOf(w, g) /\ V[w] = SumOf(w, g + 1)
    BY DEF AddReads
  <2> HIDE DEF R, V, two
  <2> QED
    BY <2>1, SharesOf, CellsOfUnion
<1>2. Private(W, R, V)
  <2> HIDE DEF R, V
  <2> QED
    BY <1>1, SharesKeep DEF Private
<1>3. \A w \in W : R[w] \subseteq Multiplied(W, g)
  <2> SUFFICES ASSUME NEW w \in W PROVE AddReads(w, g) \subseteq Multiplied(W, g)
    OBVIOUS
  <2>1. SumOf(w, g) \subseteq Multiplied(W, g)
    BY SumsAre DEF Multiplied, Loaded
  <2>2. OwnOf(two, 0, w, g) \subseteq Multiplied(W, g)
    BY DEF Multiplied, Loaded, OwnOf, AllOf, OneBufs
  <2> QED
    BY <2>1, <2>2 DEF AddReads
<1>4. Leaving(W, V, Multiplied(W, g), OneKept(W, g + 1))
  <2>1. OneKept(W, g + 1) = AllSums(W, g + 1)
    BY DEF OneKept
  <2> QED
    BY <2>1, SumsAre DEF Leaving
<1> HIDE DEF R, V
<1>5. Team(W, R, V, Multiplied(W, g), OneKept(W, g + 1))
  BY <1>2, <1>3, <1>4, PrivateTeam
<1> QED
  BY <1>5 DEF R, V

\* A round of v1.
LEMMA OneRoundPart ==
    ASSUME NEW W, NEW g \in Nat
    PROVE  Part(W, [w \in W |-> OneRound(w, g)], OneKept(W, g), OneKept(W, g + 1))
<1> DEFINE t == [w \in W |-> OneFirst(w, g)]
           s == [w \in W |-> OneProduct(w, g)]
           r == [w \in W |-> OneAdd(w, g)]
           R == [w \in W |-> {}]
           V == [w \in W |-> OneLeft(w, g)]
           Q == [w \in W |-> OwnOf({"a_tile", "b_tile"}, 0, w, g)]
           X == [w \in W |-> OwnOf({"tmp"}, 0, w, g)]
           T == [w \in W |-> AddReads(w, g)]
           Y == [w \in W |-> SumOf(w, g + 1)]
<1>1. Stages(W, t, R, V) /\ Stages(W, s, Q, X) /\ Stages(W, r, T, Y)
  BY OneStages DEF Stages, AddReads
<1>2. Team(W, R, V, OneKept(W, g), Loaded(W, g))
  BY LoadTeam
<1>3. Team(W, Q, X, Loaded(W, g), Multiplied(W, g))
  BY ProductTeam
<1>4. Team(W, T, Y, Multiplied(W, g), OneKept(W, g + 1))
  BY AddTeam
<1>5. [w \in W |-> t[w] \o Sync \o s[w] \o Sync \o r[w] \o Sync] = [w \in W |-> OneRound(w, g)]
  BY DEF OneRound
<1> HIDE DEF t, s, r, R, V, Q, X, T, Y
<1>6. Part(W, [w \in W |-> t[w] \o Sync \o s[w] \o Sync \o r[w] \o Sync], OneKept(W, g), OneKept(W, g + 1))
  BY <1>1, <1>2, <1>3, <1>4, ThreePhases
<1> QED
  BY <1>5, <1>6
-----------------------------------------------------------------------------
\* The pieces of v1 are texts.
LEMMA OneTexts == ASSUME NEW w, NEW g
                  PROVE  IsText(OneStart(w)) /\ IsText(OneLoad(w, g)) /\ IsText(OneProduct(w, g)) /\ IsText(OneAdd(w, g))
BY DoIs DEF OneStart, OneLoad, OneProduct, OneAdd

\* The first round of v1 with the reset of the sum.
LEMMA OneHead == ASSUME NEW w PROVE IsText(OneBody(w, 0)) /\ OneRound(w, 0) = OneStart(w) \o OneBody(w, 0)
<1> DEFINE p == OneStart(w)
           a == OneLoad(w, 0)
           x == OneProduct(w, 0)
           y == OneAdd(w, 0)
<1>1. IsText(p) /\ IsText(a) /\ IsText(x) /\ IsText(y) /\ IsText(Sync)
  BY OneTexts, SyncIs
<1>2. OneBody(w, 0) = a \o Sync \o x \o Sync \o y \o Sync /\ OneRound(w, 0) = p \o a \o Sync \o x \o Sync \o y \o Sync
  BY DEF OneBody, OneRound, OneFirst
<1> HIDE DEF p, a, x, y
<1>3. Behind(p, a, p \o a)
  BY <1>1 DEF Behind
<1>4. Behind(p, a \o Sync, p \o a \o Sync)
  BY <1>1, <1>3, BehindAdd
<1>5. Behind(p, a \o Sync \o x, p \o a \o Sync \o x)
  BY <1>1, <1>4, BehindAdd
<1>6. Behind(p, a \o Sync \o x \o Sync, p \o a \o Sync \o x \o Sync)
  BY <1>1, <1>5, BehindAdd
<1>7. Behind(p, a \o Sync \o x \o Sync \o y, p \o a \o Sync \o x \o Sync \o y)
  BY <1>1, <1>6, BehindAdd
<1>8. Behind(p, a \o Sync \o x \o Sync \o y \o Sync, p \o a \o Sync \o x \o Sync \o y \o Sync)
  BY <1>1, <1>7, BehindAdd
<1> QED
  BY <1>2, <1>8 DEF Behind, p

OneBodies(w, n) == [g \in 0 .. n - 1 |-> OneBody(w, g)]
OneRounds(w, n) == [g \in 0 .. n - 1 |-> OneRound(w, g)]
OneLoop(w, n) == OneStart(w) \o Loop(0, n, LAMBDA g : OneBody(w, g))

\* The later rounds of v1.
LEMMA OneLater == ASSUME NEW w, NEW g, g # 0 PROVE OneRound(w, g) = OneBody(w, g)
BY DEF OneRound, OneBody, OneFirst

\* The loop of v1 with the reset of the sum is the loop over its rounds.
LEMMA OneUnrolls ==
    ASSUME NEW w, NEW n \in Nat \ {0}, Bodies(0, n, OneRounds(w, n))
    PROVE  \E f : Unrolled(f, 0, n, OneRounds(w, n)) /\ OneLoop(w, n) = f[n]
<1> DEFINE B == OneBodies(w, n)
           B2 == OneRounds(w, n)
           p == OneStart(w)
           u == CHOOSE u : u = [i \in 0 .. n |-> IF i = 0 THEN <<>> ELSE u[i - 1] \o OneBody(w, i - 1)]
<1>0. n \in Nat /\ 0 \in Nat /\ 0 <= n /\ 0 \in 0 .. n - 1 /\ \A i \in 1 .. n - 1 : i \in 0 .. n - 1 /\ i # 0
  OBVIOUS
<1>1. OneLoop(w, n) = p \o u[n]
  BY DEF OneLoop, Loop
<1>2. Prefixed(p, B, B2, n)
  <2>1. B2[0] = p \o B[0]
    BY <1>0, OneHead DEF OneRounds, OneBodies
  <2>2. \A i \in 1 .. n - 1 : B2[i] = B[i]
    BY <1>0, OneLater DEF OneRounds, OneBodies
  <2> QED
    BY <2>1, <2>2 DEF Prefixed
<1>3. Bodies(0, n, B)
  <2> SUFFICES ASSUME NEW i \in 0 .. n - 1 PROVE IsText(B[i])
    BY DEF Bodies
  <2>1. B[i] = OneBody(w, i)
    BY DEF OneBodies
  <2>2. CASE i = 0
    BY <2>1, <2>2, OneHead
  <2>3. CASE i # 0
    <3>1. IsText(OneRound(w, i))
      BY DEF Bodies, OneRounds
    <3> QED
      BY <2>1, <2>3, <3>1, OneLater
  <2> QED
    BY <2>2, <2>3
<1>4. PICK f : Unrolled(f, 0, n, B)
  <2> HIDE DEF B
  <2> QED
    BY <1>0, <1>3, UnrollExists
<1>5. PICK g : Unrolled(g, 0, n, B2)
  <2> HIDE DEF B2
  <2> QED
    BY <1>0, UnrollExists DEF B2
<1>6. \A i \in 0 .. n : i # 0 => B[i - 1] = OneBody(w, i - 1)
  BY DEF OneBodies
<1> HIDE DEF B, B2, p
<1>7. ASSUME NEW h
      PROVE  Unrolled(h, 0, n, B) <=>
                h = [i \in 0 .. n |-> IF i = 0 THEN <<>> ELSE h[i - 1] \o OneBody(w, i - 1)]
  <2>1. [i \in 0 .. n |-> IF i = 0 THEN <<>> ELSE h[i - 1] \o OneBody(w, i - 1)]
          = [i \in 0 .. n |-> IF i = 0 THEN <<>> ELSE h[i - 1] \o B[i - 1]]
    BY <1>6
  <2> QED
    BY <2>1 DEF Unrolled
<1>8. u = [i \in 0 .. n |-> IF i = 0 THEN <<>> ELSE u[i - 1] \o OneBody(w, i - 1)]
  BY <1>4, <1>7
<1> HIDE DEF u
<1>9. Unrolled(u, 0, n, B)
  BY <1>7, <1>8
<1>10. IsText(p)
  BY OneTexts DEF p
<1>11. p \o u[n] = g[n]
  BY <1>2, <1>3, <1>5, <1>9, <1>10, PrefixLoop
<1> QED
  BY <1>1, <1>5, <1>11 DEF B2

\* The loop of v1, however many K groups.
LEMMA OneLoopPart ==
    ASSUME NEW W, NEW n \in Nat \ {0}
    PROVE  Part(W, [w \in W |-> OneLoop(w, n)], {}, AllSums(W, n))
<1> DEFINE B == [w \in W |-> OneRounds(w, n)]
           c == [w \in W |-> OneLoop(w, n)]
           K == [i \in 0 .. n |-> OneKept(W, i)]
<1>0. n \in Nat /\ 0 \in Nat /\ 0 <= n
  OBVIOUS
<1>1. Rounds(W, 0, n, B, K)
  <2> SUFFICES ASSUME NEW i \in 0 .. n - 1 PROVE Part(W, [w \in W |-> B[w][i]], K[i], K[i + 1])
    BY DEF Rounds
  <2>1. [w \in W |-> B[w][i]] = [w \in W |-> OneRound(w, i)]
    BY DEF OneRounds
  <2>2. K[i] = OneKept(W, i) /\ K[i + 1] = OneKept(W, i + 1) /\ i \in Nat
    BY <1>0
  <2> HIDE DEF K, B
  <2>4. Part(W, [w \in W |-> OneRound(w, i)], OneKept(W, i), OneKept(W, i + 1))
    BY <2>2, OneRoundPart
  <2> QED
    BY <2>1, <2>2, <2>4
<1>2. \A w \in W : Bodies(0, n, B[w])
  <2> HIDE DEF B, K
  <2> QED
    BY <1>1, RoundsAreTexts
<1>3. \A w \in W : \E f : Unrolled(f, 0, n, B[w]) /\ c[w] = f[n]
  <2> SUFFICES ASSUME NEW w \in W PROVE \E f : Unrolled(f, 0, n, B[w]) /\ c[w] = f[n]
    OBVIOUS
  <2>1. B[w] = OneRounds(w, n) /\ c[w] = OneLoop(w, n)
    OBVIOUS
  <2> HIDE DEF B, c
  <2> QED
    BY <1>2, <2>1, OneUnrolls
<1>4. Loops(c, W, 0, n, B)
  BY <1>3 DEF Loops
<1>5. K[0] = {} /\ K[n] = AllSums(W, n)
  BY <1>0 DEF OneKept
<1> HIDE DEF B, c, K
<1>6. Part(W, c, K[0], K[n])
  BY <1>0, <1>1, <1>4, LoopsArePart
<1> QED
  BY <1>5, <1>6 DEF c

\* The sums are in local memory.
LEMMA SumsInside == ASSUME NEW w, NEW g PROVE Inside(SumOf(w, g))
<1>1. CellsOf(SumOf(w, g)) = {<<"out_acc", 0, w>>}
  BY CellsOfOne DEF SumOf
<1>2. \A p : <<"out_acc", 0, w>> # <<"out", p>>
  OBVIOUS
<1> QED
  BY <1>1, <1>2 DEF Inside

\* v1 for any launch with a K group.
LEMMA V1Ends ==
    ASSUME NEW l, l.G \in Nat \ {0}, NEW b, Shaped("v1"), Placed("v1", l, b), NEW W, W \subseteq Nat
    PROVE  Ending(W, [w \in W |-> V1(l, b, w)], {}, {})
<1> PICK n : n = l.G
  OBVIOUS
<1> DEFINE a == [w \in W |-> OneLoop(w, n)]
           R == [w \in W |-> SumOf(w, n)]
           c == [w \in W |-> Epilogue("v1", l, b, w, R[w])]
<1>1. Part(W, a, {}, AllSums(W, n))
  BY OneLoopPart
<1>2. Reads(W, R, AllSums(W, n))
  BY SumsAre, SumsInside DEF Reads
<1>3. Ending(W, c, AllSums(W, n), {})
  <2> HIDE DEF R
  <2> QED
    BY <1>2, EpilogueEnds
<1>4. Cat(a, c) = [w \in W |-> V1(l, b, w)]
  <2>1. ASSUME NEW w \in W PROVE a[w] \o c[w] = V1(l, b, w)
    BY V1Is DEF OneLoop
  <2>2. DOMAIN a = W
    OBVIOUS
  <2> HIDE DEF a, c
  <2> QED
    BY <2>1, <2>2 DEF Cat
<1> HIDE DEF a, c
<1>5. Ending(W, Cat(a, c), {}, {})
  BY <1>1, <1>3, PartThenEnding
<1> QED
  BY <1>4, <1>5
-----------------------------------------------------------------------------
\* Each wave writes, then reads what it wrote: no barrier is needed.
Pair(c, R, V, Q, X) ==
    /\ IsText(c) /\ Len(c) = 2
    /\ ~c[1].sync /\ c[1].reads = R /\ c[1].writes = V
    /\ ~c[2].sync /\ c[2].reads = Q /\ c[2].writes = X
TwoStatements(c, W, s, V) == DOMAIN c = W /\ \A w \in W : Pair(c[w], {}, s[w], s[w], V[w])
KeptApartFrom(W, s, V) ==
    \A v, w \in W : /\ CellsOf(s[v]) \cap CellsOf(V[w]) = {}
                    /\ v # w => CellsOf(s[v]) \cap CellsOf(s[w]) = {} /\ CellsOf(V[v]) \cap CellsOf(V[w]) = {}

\* A statement, field by field.
LEMMA DoIsOne ==
    ASSUME NEW R, NEW V
    PROVE  /\ IsText(Do(R, V)) /\ Len(Do(R, V)) = 1 /\ ~Do(R, V)[1].sync
           /\ Do(R, V)[1].reads = R /\ Do(R, V)[1].writes = V
<1> DEFINE x == Do(R, V)
<1>1. IsText(x) /\ Len(x) = 1 /\ x[1] = [sync |-> FALSE, reads |-> R, writes |-> V]
  BY DoIs
<1> HIDE DEF x
<1>2. ~x[1].sync /\ x[1].reads = R /\ x[1].writes = V
  BY <1>1
<1> QED
  BY <1>1, <1>2 DEF x

\* Two statements in a row.
LEMMA DoThenDo ==
    ASSUME NEW R, NEW V, NEW Q, NEW X
    PROVE  Pair(Do(R, V) \o Do(Q, X), R, V, Q, X)
<1> PICK y, z : y = Do(R, V) /\ z = Do(Q, X)
  OBVIOUS
<1>1. /\ IsText(y) /\ Len(y) = 1 /\ ~y[1].sync /\ y[1].reads = R /\ y[1].writes = V
      /\ IsText(z) /\ Len(z) = 1 /\ ~z[1].sync /\ z[1].reads = Q /\ z[1].writes = X
  BY DoIsOne
<1>2. /\ IsText(y \o z) /\ Len(y \o z) = Len(y) + Len(z)
      /\ \A i \in 1 .. Len(y) : (y \o z)[i] = y[i]
      /\ \A i \in 1 .. Len(z) : (y \o z)[Len(y) + i] = z[i]
  <2>1. IsText(y) /\ IsText(z)
    BY ONLY <1>1
  <2> QED
    BY ONLY <2>1, TextCat
<1>3. Len(y \o z) = 2 /\ (y \o z)[1] = y[1] /\ (y \o z)[2] = z[1]
  <2>1. 1 \in 1 .. Len(y) /\ 1 \in 1 .. Len(z) /\ Len(y) + 1 = 2 /\ Len(y) + Len(z) = 2
    BY <1>1
  <2> QED
    BY <1>2, <2>1
<1>4. Pair(y \o z, R, V, Q, X)
  BY <1>1, <1>2, <1>3 DEF Pair
<1> QED
  BY <1>4

\* Waves of two statements that keep to themselves may end a kernel.
LEMMA TwoEnds ==
    ASSUME NEW W, NEW c, NEW s, NEW V, TwoStatements(c, W, s, V), KeptApartFrom(W, s, V)
    PROVE  Ending(W, c, {}, {})
<1>0. DOMAIN c = W
  BY DEF TwoStatements, Pair
<1>1. ASSUME NEW w \in W, NEW i \in 1 .. Len(c[w]) PROVE i = 1 \/ i = 2
  <2>1. Len(c[w]) = 2
    BY DEF TwoStatements, Pair
  <2> QED
    BY <2>1
<1>2. Quiet(c)
  BY <1>0, <1>1 DEF TwoStatements, Pair, Quiet, IsCode
<1>3. Fenced(c, c)
  BY <1>2 DEF Fenced, Quiet
<1>4. BarriersAgree(c)
  BY <1>2, <1>3, FencedIs DEF BarriersAgree
<1>5. CellsOf({}) = {}
  BY CellsOfNone
<1>6. ASSUME NEW w \in W, NEW i \in 1 .. Len(c[w])
      PROVE  /\ CellsOf(c[w][i].reads) \subseteq CellsOf(s[w])
             /\ CellsOf(c[w][i].writes) \subseteq CellsOf(s[w]) \cup CellsOf(V[w])
  BY <1>1, <1>5 DEF TwoStatements, Pair
<1>7. RaceFree(c)
  <2> SUFFICES ASSUME NEW v \in W, NEW w \in W, v # w, NEW i \in 1 .. Len(c[v]), NEW j \in 1 .. Len(c[w])
               PROVE  ~Conflict(c[v][i], c[w][j])
    BY <1>0 DEF RaceFree
  <2>1. (CellsOf(s[v]) \cup CellsOf(V[v])) \cap (CellsOf(s[w]) \cup CellsOf(V[w])) = {}
    BY DEF KeptApartFrom
  <2> QED
    BY <1>6, <2>1 DEF Conflict
<1>8. ReadsFrom(c, {})
  <2> SUFFICES ASSUME NEW w \in W, NEW i \in 1 .. Len(c[w]), NEW h \in c[w][i].reads PROVE Fed(c, w, i, h)
    BY <1>0 DEF ReadsFrom
  <2>1. i = 2 /\ h \in s[w] /\ 1 \in 1 .. Len(c[w])
    BY <1>1 DEF TwoStatements, Pair
  <2>2. Wrote(c, w, 1, h)
    BY <2>1 DEF TwoStatements, Pair, Wrote
  <2>3. Earlier(c, w, 1, w, i)
    BY <2>1 DEF Earlier
  <2>4. ASSUME NEW u \in W, NEW k \in 1 .. Len(c[u]), WritesTo(c, u, k, h[1])
        PROVE  <<u, k>> \in {<<w, 1>>, <<w, i>>}
    <3>1. h[1] \in CellsOf(s[w])
      BY <2>1 DEF CellsOf
    <3>2. h[1] \in CellsOf(s[u]) \/ h[1] \in CellsOf(V[u])
      BY <2>4, <1>6 DEF WritesTo
    <3>3. u = w
      BY <3>1, <3>2 DEF KeptApartFrom
    <3> QED
      BY <1>1, <2>1, <3>3
  <2> QED
    BY <1>0, <2>1, <2>2, <2>3, <2>4 DEF Fed
<1>9. Leaves(c, {}, {})
  BY DEF Leaves
<1> QED
  BY <1>0, <1>2, <1>4, <1>7, <1>8, <1>9 DEF Ending, Sound, Quiet

\* No K groups: v1 stores the zeroes it started with.
LEMMA V1EndsAtOnce ==
    ASSUME NEW l, l.G = 0, NEW b, Shaped("v1"), Placed("v1", l, b), NEW W, W \subseteq Nat
    PROVE  Ending(W, [w \in W |-> V1(l, b, w)], {}, {})
<1> DEFINE x == G0("v1", l, b) .. G1("v1", l, b) - 1
           c == [w \in W |-> V1(l, b, w)]
           s == [w \in W |-> SumOf(w, 0)]
           P == [w \in W |-> Patch("v1", l, b, w)]
           V == [w \in W |-> Result(P[w], x)]
<1>1. ASSUME NEW w \in W PROVE c[w] = Do({}, s[w]) \o Do(s[w], V[w])
  <2> DEFINE u == CHOOSE u : u = [i \in 0 .. 0 |-> IF i = 0 THEN <<>> ELSE u[i - 1] \o OneBody(w, i - 1)]
  <2>1. Loop(0, 0, LAMBDA g : OneBody(w, g)) = u[0]
    BY DEF Loop
  <2>2. u = [i \in 0 .. 0 |-> IF i = 0 THEN <<>> ELSE u[i - 1] \o OneBody(w, i - 1)]
    <3> DEFINE e == [i \in 0 .. 0 |-> <<>>]
    <3>1. e = [i \in 0 .. 0 |-> IF i = 0 THEN <<>> ELSE e[i - 1] \o OneBody(w, i - 1)]
      BY \A i \in 0 .. 0 : i = 0
    <3> HIDE DEF e
    <3> QED
      BY <3>1
  <2> HIDE DEF u
  <2>3. u[0] = <<>>
    BY <2>2
  <2>4. IsText(OneStart(w))
    BY OneTexts
  <2>5. OneStart(w) \o <<>> = OneStart(w)
    BY <2>4, EmptyText
  <2>6. V1(l, b, w) = OneStart(w) \o Epilogue("v1", l, b, w, SumOf(w, 0))
    BY <2>1, <2>3, <2>5, V1Is
  <2> QED
    BY <2>6 DEF OneStart, Epilogue, Patch
<1>3. TwoStatements(c, W, s, V)
  <2>1. DOMAIN c = W
    OBVIOUS
  <2> HIDE DEF c, s, V
  <2>2. \A w \in W : Pair(c[w], {}, s[w], s[w], V[w])
    BY <1>1, DoThenDo
  <2> QED
    BY <2>1, <2>2 DEF TwoStatements
<1>4. KeptApartFrom(W, s, V)
  <2>1. \A w \in W : CellsOf(s[w]) = {<<"out_acc", 0, w>>}
    BY CellsOfOne DEF SumOf
  <2>2. \A w \in W : CellsOf(V[w]) = {<<"out", p>> : p \in P[w]}
    BY CellsOfResult
  <2>3. \A v, w \in W : v # w => P[v] \cap P[w] = {}
    BY PlacesApart
  <2> HIDE DEF s, V, P
  <2>4. \A w, p : <<"out_acc", 0, w>> # <<"out", p>>
    OBVIOUS
  <2>5. ASSUME NEW v \in W, NEW w \in W, v # w PROVE CellsOf(V[v]) \cap CellsOf(V[w]) = {}
    BY <2>2, <2>3, <2>5
  <2>6. ASSUME NEW v \in W, NEW w \in W PROVE CellsOf(s[v]) \cap CellsOf(V[w]) = {}
    BY <2>1, <2>2, <2>4
  <2>7. ASSUME NEW v \in W, NEW w \in W, v # w PROVE CellsOf(s[v]) \cap CellsOf(s[w]) = {}
    BY <2>1, <2>7
  <2> QED
    BY <2>5, <2>6, <2>7 DEF KeptApartFrom
<1> HIDE DEF c, s, V
<1> QED
  BY <1>3, <1>4, TwoEnds DEF c
-----------------------------------------------------------------------------
\* The loops that are led in are texts.
LEMMA PongText ==
    ASSUME NEW W, NEW bufs, NEW n \in Nat, NEW w \in W
    PROVE  IsText(PingPong(bufs, w, W, n))
<1>1. Bodies(0, n, PongBodies(bufs, w, W, n))
  <2> SUFFICES ASSUME NEW g \in 0 .. n - 1 PROVE IsText(PongPhase(bufs, w, W, n, g) \o Sync)
    BY DEF Bodies, PongBodies
  <2> DEFINE c == [v \in W |-> PongPhase(bufs, v, W, n, g) \o Sync]
  <2>1. Off({}, bufs, 0) /\ Off({}, bufs, 1)
    BY CellsOfNone DEF Off
  <2>2. Part(W, c, Turn({}, bufs, W, n, g), Turn({}, bufs, W, n, g + 1))
    BY <2>1, PongRound
  <2>3. IsCode(c) /\ DOMAIN c = W
    <3> HIDE DEF c
    <3> QED
      BY <2>2 DEF Part
  <2> QED
    BY <2>3 DEF IsCode
<1>2. PICK f : Unrolled(f, 0, n, PongBodies(bufs, w, W, n)) /\ PingPong(bufs, w, W, n) = PongStart(bufs, w) \o f[n]
  BY <1>1, PongUnrolls
<1>3. IsText(f[n])
  BY <1>1, <1>2, UnrolledText
<1>4. IsText(PongStart(bufs, w))
  BY DoIs, SyncIs, TextCat DEF PongStart
<1> QED
  BY <1>2, <1>3, <1>4, TextCat

\* So is Late.
LEMMA LateText ==
    ASSUME NEW W, NEW bufs, NEW n \in Nat, NEW w \in W
    PROVE  IsText(Late(bufs, w, W, n))
<1>1. Bodies(0, n, LateBodies(bufs, w, W, n))
  <2> SUFFICES ASSUME NEW g \in 0 .. n - 1 PROVE IsText(LateBody(bufs, w, W, n, g))
    BY DEF Bodies, LateBodies
  <2> DEFINE c == [v \in W |-> LateBody(bufs, v, W, n, g)]
  <2>1. Off({}, bufs, 0)
    BY CellsOfNone DEF Off
  <2>2. Part(W, c, LateTurn({}, bufs, W, n, g), LateTurn({}, bufs, W, n, g + 1))
    BY <2>1, LateRound
  <2>3. IsCode(c) /\ DOMAIN c = W
    <3> HIDE DEF c
    <3> QED
      BY <2>2 DEF Part
  <2> QED
    BY <2>3 DEF IsCode
<1>2. PICK f : Unrolled(f, 0, n, LateBodies(bufs, w, W, n)) /\ Late(bufs, w, W, n) = PongStart(bufs, w) \o f[n]
  BY <1>1, LateUnrolls
<1>3. IsText(f[n])
  BY <1>1, <1>2, UnrolledText
<1>4. IsText(PongStart(bufs, w))
  BY DoIs, SyncIs, TextCat DEF PongStart
<1> QED
  BY <1>2, <1>3, <1>4, TextCat
-----------------------------------------------------------------------------
\* A loop that keeps S, and the epilogue.
LEMMA StoreAfter ==
    ASSUME NEW k, Shaped(k), NEW l, NEW b, Placed(k, l, b), NEW W, W \subseteq Nat,
           NEW c, NEW K, NEW S, Part(W, c, K, S), Inside(S)
    PROVE  Ending(W, [w \in W |-> c[w] \o Epilogue(k, l, b, w, S)], K, {})
<1> DEFINE R == [w \in W |-> S]
           e == [w \in W |-> Epilogue(k, l, b, w, R[w])]
<1>1. Reads(W, R, S)
  BY DEF Reads
<1>2. Ending(W, e, S, {})
  <2> HIDE DEF R
  <2> QED
    BY <1>1, EpilogueEnds
<1>3. Cat(c, e) = [w \in W |-> c[w] \o Epilogue(k, l, b, w, S)]
  BY DEF Cat, Part
<1> HIDE DEF e
<1>4. Ending(W, Cat(c, e), K, {})
  BY <1>2, PartThenEnding
<1> QED
  BY <1>3, <1>4

\* Knowing nothing is no obstacle.
LEMMA NothingIsOff == (\A bufs, s : Off({}, bufs, s)) /\ Inside({})
BY CellsOfNone DEF Off, Inside

SerialCode(k, l, b, bufs, w, W, g0, g1) == Serial(bufs, w, W, g0, g1, {}) \o Epilogue(k, l, b, w, {})

\* A kernel with a single buffer.
LEMMA SerialEnds ==
    ASSUME NEW k, Shaped(k), NEW l, NEW b, Placed(k, l, b), NEW W, W \subseteq Nat, NEW bufs,
           NEW g0 \in Nat, NEW g1 \in Nat, g0 <= g1
    PROVE  Ending(W, [w \in W |-> SerialCode(k, l, b, bufs, w, W, g0, g1)], {}, {})
<1> DEFINE c == [w \in W |-> Serial(bufs, w, W, g0, g1, {})]
<1>1. Off({}, bufs, 0) /\ Inside({}) /\ {} \subseteq {}
  BY NothingIsOff
<1>2. Part(W, c, {}, {})
  BY <1>1, SerialIsPart
<1>3. [w \in W |-> c[w] \o Epilogue(k, l, b, w, {})] = [w \in W |-> SerialCode(k, l, b, bufs, w, W, g0, g1)]
  BY DEF SerialCode
<1> HIDE DEF c
<1>4. Ending(W, [w \in W |-> c[w] \o Epilogue(k, l, b, w, {})], {}, {})
  BY <1>1, <1>2, StoreAfter
<1> QED
  BY <1>3, <1>4

GroupedCode(k, l, b, bufs, w, W, g0, g1) == Grouped(bufs, w, W, g0, g1, Gtile) \o Epilogue(k, l, b, w, {})

\* A kernel with gtile groups between two barriers.
LEMMA GroupedEnds ==
    ASSUME NEW k, Shaped(k), NEW l, NEW b, Placed(k, l, b), NEW W, W \subseteq Nat, NEW bufs,
           NEW g0 \in Nat, NEW g1 \in Nat, g0 <= g1
    PROVE  Ending(W, [w \in W |-> GroupedCode(k, l, b, bufs, w, W, g0, g1)], {}, {})
<1> DEFINE c == [w \in W |-> Grouped(bufs, w, W, g0, g1, Gtile)]
<1>1. Inside({})
  BY NothingIsOff
<1>2. Part(W, c, {}, {})
  <2> PICK gtile : gtile = Gtile
    OBVIOUS
  <2>1. gtile \in Nat \ {0}
    BY TileAssumption
  <2>2. Part(W, [w \in W |-> Grouped(bufs, w, W, g0, g1, gtile)], {}, {})
    BY <2>1, GroupedIsPart
  <2> QED
    BY <2>2
<1>3. [w \in W |-> c[w] \o Epilogue(k, l, b, w, {})] = [w \in W |-> GroupedCode(k, l, b, bufs, w, W, g0, g1)]
  BY DEF GroupedCode
<1> HIDE DEF c
<1>4. Ending(W, [w \in W |-> c[w] \o Epilogue(k, l, b, w, {})], {}, {})
  BY <1>1, <1>2, StoreAfter
<1> QED
  BY <1>3, <1>4

PongCode(k, l, b, bufs, w, W, n) == PingPong(bufs, w, W, n) \o Epilogue(k, l, b, w, {})

\* A kernel with a double buffer.
LEMMA PongEnds ==
    ASSUME NEW k, Shaped(k), NEW l, NEW b, Placed(k, l, b), NEW W, W \subseteq Nat, NEW bufs, NEW n \in Nat
    PROVE  Ending(W, [w \in W |-> PongCode(k, l, b, bufs, w, W, n)], {}, {})
<1> DEFINE p == [w \in W |-> <<>>]
           R == [w \in W |-> {}]
           c == [w \in W |-> p[w] \o PingPong(bufs, w, W, n)]
<1>1. Off({}, bufs, 0) /\ Off({}, bufs, 1) /\ Inside({})
  BY NothingIsOff
<1>2. Leads(W, p, R, {})
  BY StageNothing DEF Leads
<1>3. Part(W, c, {}, {})
  <2> HIDE DEF p, R
  <2> QED
    BY <1>1, <1>2, PongIsPart
<1>4. \A w \in W : c[w] = PingPong(bufs, w, W, n)
  BY PongText, EmptyText
<1>5. [w \in W |-> c[w] \o Epilogue(k, l, b, w, {})] = [w \in W |-> PongCode(k, l, b, bufs, w, W, n)]
  BY <1>4 DEF PongCode
<1> HIDE DEF c
<1>6. Ending(W, [w \in W |-> c[w] \o Epilogue(k, l, b, w, {})], {}, {})
  BY <1>1, <1>3, StoreAfter
<1> QED
  BY <1>5, <1>6

\* The kernels that quantise their own rows.
LEMMA FusedSerialEnds ==
    ASSUME NEW k, Shaped(k), NEW l, l.G \in Nat, NEW b, Placed(k, l, b), TileWaves(k) \subseteq Nat
    PROVE  Ending(TileWaves(k), [w \in TileWaves(k) |-> FusedSerial(k, l, b, w)], {}, {})
<1> PICK W : W = TileWaves(k)
  OBVIOUS
<1> PICK S : S = ScalesOf(W)
  OBVIOUS
<1> PICK n : n = l.G
  OBVIOUS
<1> DEFINE a == [w \in W |-> BlockActScales(w)]
           c == [w \in W |-> Serial(AB, w, W, 0, n, S)]
           d == [w \in W |-> a[w] \o c[w]]
<1>1. S = ActScales(W) /\ Inside(S) /\ Off(S, AB, 0)
  BY ScalesKeepOff DEF AB
<1>2. Part(W, a, {}, S)
  BY ScalesPart
<1>3. Part(W, c, S, S)
  <2>1. S \subseteq S /\ 0 \in Nat /\ n \in Nat /\ 0 <= n
    OBVIOUS
  <2> QED
    BY <1>1, <2>1, SerialIsPart
<1>4. Cat(a, c) = d
  BY DEF Cat
<1>5. [w \in W |-> d[w] \o Epilogue(k, l, b, w, S)] = [w \in W |-> FusedSerial(k, l, b, w)]
  BY <1>1 DEF FusedSerial
<1> HIDE DEF a, c, d
<1>6. Part(W, d, {}, S)
  BY <1>2, <1>3, <1>4, PartThenPart
<1>7. Ending(W, [w \in W |-> d[w] \o Epilogue(k, l, b, w, S)], {}, {})
  BY <1>1, <1>6, StoreAfter
<1> QED
  BY <1>5, <1>7

ShuffleLoop(l, w, W) ==
    IF l.db THEN PingPong({"B_tile", "wsc"}, w, W, l.G) ELSE Late({"B_tile", "wsc"}, w, W, l.G)

\* The kernels with their activations in registers, double-buffered or not.
LEMMA FusedShuffleEnds ==
    ASSUME NEW k, Shaped(k), NEW l, l.G \in Nat, NEW b, Placed(k, l, b), TileWaves(k) \subseteq Nat
    PROVE  Ending(TileWaves(k), [w \in TileWaves(k) |-> FusedShuffle(k, l, b, w)], {}, {})
<1> PICK W : W = TileWaves(k)
  OBVIOUS
<1> PICK S : S = ScalesOf(W)
  OBVIOUS
<1> PICK bufs : bufs = {"B_tile", "wsc"}
  OBVIOUS
<1> DEFINE a == [w \in W |-> BlockActScales(w)]
           p == [w \in W |-> Do(S, {})]
           R == [w \in W |-> S]
           c == [w \in W |-> p[w] \o ShuffleLoop(l, w, W)]
           d == [w \in W |-> a[w] \o c[w]]
<1>1. S = ActScales(W) /\ Inside(S) /\ Off(S, bufs, 0) /\ Off(S, bufs, 1)
  BY ScalesKeepOff
<1>2. Part(W, a, {}, S)
  BY ScalesPart
<1>3. Leads(W, p, R, S)
  BY StageDo DEF Leads
<1>4. Part(W, c, S, S)
  <2>1. CASE l.db
    <3>1. c = [w \in W |-> p[w] \o PingPong(bufs, w, W, l.G)]
      BY <2>1 DEF ShuffleLoop
    <3> HIDE DEF p, R, c
    <3>2. Part(W, [w \in W |-> p[w] \o PingPong(bufs, w, W, l.G)], S, S)
      BY <1>1, <1>3, PongIsPart
    <3> QED
      BY <3>1, <3>2
  <2>2. CASE ~l.db
    <3>1. c = [w \in W |-> p[w] \o Late(bufs, w, W, l.G)]
      BY <2>2 DEF ShuffleLoop
    <3> HIDE DEF p, R, c
    <3>2. Part(W, [w \in W |-> p[w] \o Late(bufs, w, W, l.G)], S, S)
      BY <1>1, <1>3, LateIsPart
    <3> QED
      BY <3>1, <3>2
  <2> QED
    BY <2>1, <2>2
<1>5. Cat(a, c) = d
  BY DEF Cat
<1>6. ASSUME NEW w \in W PROVE IsText(ShuffleLoop(l, w, W))
  BY PongText, LateText DEF ShuffleLoop
<1>7. [w \in W |-> d[w] \o Epilogue(k, l, b, w, S)] = [w \in W |-> FusedShuffle(k, l, b, w)]
  <2> SUFFICES ASSUME NEW w \in W PROVE d[w] \o Epilogue(k, l, b, w, S) = FusedShuffle(k, l, b, w)
    OBVIOUS
  <2>1. IsText(BlockActScales(w)) /\ IsText(Do(S, {})) /\ IsText(ShuffleLoop(l, w, W))
    <3>1. IsCode(a)
      <4> HIDE DEF a
      <4> QED
        BY <1>2 DEF Part
    <3> QED
      BY <3>1, <1>6, DoIs DEF IsCode
  <2>2. Assoc(BlockActScales(w), Do(S, {}), ShuffleLoop(l, w, W))
    BY <2>1, TextsAssoc
  <2>3. d[w] = BlockActScales(w) \o (Do(S, {}) \o ShuffleLoop(l, w, W))
    OBVIOUS
  <2>4. d[w] = (BlockActScales(w) \o Do(S, {})) \o ShuffleLoop(l, w, W)
    BY <2>2, <2>3 DEF Assoc
  <2> HIDE DEF d
  <2> QED
    BY <1>1, <2>4 DEF FusedShuffle, ShuffleLoop
<1> HIDE DEF a, c, d
<1>8. Part(W, d, {}, S)
  BY <1>2, <1>4, <1>5, PartThenPart
<1>9. Ending(W, [w \in W |-> d[w] \o Epilogue(k, l, b, w, S)], {}, {})
  <2>1. Placed(k, l, b) /\ Shaped(k) /\ W \subseteq Nat
    OBVIOUS
  <2> QED
    BY ONLY <1>1, <1>8, <2>1, StoreAfter
<1> QED
  BY <1>7, <1>9
-----------------------------------------------------------------------------
\* A workgroup of a launch.
IsDense(g) == g[1] \in DenseKernels /\ IsLaunch(g[2]) /\ g[3] \in DenseBlocks(g[1], g[2])

\* A workgroup whose code follows the rules of every kernel.
Proper(W, c) == Ending(W, c, {}, {})

\* Every tile is in whole fragments, its waves are numbered.
LEMMA TilesShaped ==
    ASSUME NEW k \in TiledKernels
    PROVE  Shaped(k) /\ TileWaves(k) \subseteq Nat
<1> DEFINE bm == Tile[k].bm
           bn == Tile[k].bn
           wn == Tile[k].wn
<1>1. Dim \in Nat \ {0} /\ bm \in Nat \ {0} /\ bn \in Nat \ {0} /\ wn \in Nat \ {0}
  BY TileAssumption
<1>2. bm \div Dim \in Nat
  BY <1>1, Division
<1>3. PICK q \in Nat, n \in Nat : q = bm \div Dim /\ n = q * wn
  BY <1>1, <1>2
<1>4. TileWaves(k) = 0 .. n - 1
  BY <1>3 DEF TileWaves
<1> QED
  BY <1>1, <1>4 DEF Shaped

\* A block of a launch starts at some row, some column and some share of K.
LEMMA BlocksPlaced ==
    ASSUME NEW k \in TiledKernels, NEW l, IsLaunch(l), NEW b \in Blocks(k, l)
    PROVE  Placed(k, l, b) /\ b[3] \in 0 .. Split(k, l) - 1
<1> DEFINE nm == Ceil(l.M, Tile[k].bm)
           nn == Ceil(l.N, Tile[k].bn)
           xs == IF Swizzled(k, l) THEN nm ELSE nn
           ys == IF Swizzled(k, l) THEN nn ELSE nm
           s == Split(k, l)
<1>1. Tile[k].bm \in Nat \ {0} /\ Tile[k].bn \in Nat \ {0} /\ l.M \in Nat /\ l.N \in Nat
  BY TileAssumption DEF IsLaunch
<1>2. nm \in Nat /\ nn \in Nat
  BY <1>1, StrideBelow
<1>3. PICK x \in 0 .. xs - 1, y \in 0 .. ys - 1, z \in 0 .. s - 1 : b = <<x, y, z>>
  BY DEF Blocks
<1> HIDE DEF nm, nn, s
<1>4. b[1] \in Nat /\ b[2] \in Nat /\ b[3] \in 0 .. s - 1
  BY <1>2, <1>3
<1>5. BlockM(k, l, b) \in Nat /\ BlockN(k, l, b) \in Nat
  BY <1>1, <1>4 DEF BlockM, BlockN
<1> QED
  BY <1>4, <1>5 DEF Placed, s

\* The K groups of a block are numbers whatever the launch asks.
LEMMA SharesAreNat ==
    ASSUME NEW k \in TiledKernels, NEW l, IsLaunch(l), NEW b \in Blocks(k, l)
    PROVE  G0(k, l, b) \in Nat /\ G1(k, l, b) \in Nat
<1> PICK s : s = Split(k, l)
  OBVIOUS
<1>1. s \in Nat \ {0}
  <2>1. b[3] \in 0 .. s - 1
    BY BlocksPlaced
  <2>2. s \in Int
    BY DEF Split, Least, IsLaunch
  <2> QED
    BY <2>1, <2>2
<1>2. Gps(k, l) \in Nat
  BY <1>1, StrideBelow DEF Gps, IsLaunch
<1>3. b[3] \in Nat
  BY <1>1, BlocksPlaced
<1>4. G0(k, l, b) \in Nat
  BY <1>2, <1>3 DEF G0
<1> QED
  BY <1>2, <1>4 DEF G1, Least, IsLaunch
-----------------------------------------------------------------------------
\* A block with no share of K returns before its first barrier, with all its waves.
CodeOn(W, c) == c = [w \in W |-> c[w]]

\* A block with no share of K returns with all its waves, before its first barrier.
LEMMA SharedProper ==
    ASSUME NEW k, NEW l, NEW b, NEW W, NEW c, G0(k, l, b) < G1(k, l, b) => Proper(W, c), CodeOn(W, c),
           G0(k, l, b) \in Nat, G1(k, l, b) \in Nat
    PROVE  Proper(W, [w \in W |-> Shared(k, l, b, c[w])])
<1> DEFINE d == [w \in W |-> Shared(k, l, b, c[w])]
<1>1. CASE G0(k, l, b) >= G1(k, l, b)
  <2>1. d = [w \in W |-> <<>>]
    BY <1>1 DEF Shared
  <2> HIDE DEF d
  <2>2. Part(W, d, {}, {})
    BY <2>1, NothingIsPart
  <2> QED
    BY <2>2, PartIsEnding DEF d, Proper
<1>2. CASE G0(k, l, b) < G1(k, l, b)
  <2>1. d = [w \in W |-> c[w]]
    BY <1>2 DEF Shared
  <2>2. c = [w \in W |-> c[w]]
    BY DEF CodeOn
  <2> HIDE DEF d
  <2> QED
    BY <1>2, <2>1, <2>2 DEF d
<1> QED
  BY <1>1, <1>2

\* v13, v15, v16 and v17: no barrier and no local memory.
LEMMA RegDirectProper ==
    ASSUME NEW k \in SplitKernels, NEW l, IsLaunch(l), NEW b \in Blocks(k, l)
    PROVE  Proper(TileWaves(k), [w \in TileWaves(k) |-> RegDirect(k, l, b, w)])
<1> PICK W : W = TileWaves(k)
  OBVIOUS
<1> DEFINE R == [w \in W |-> {}]
           c == [w \in W |-> Epilogue(k, l, b, w, R[w])]
<1>1. k \in TiledKernels
  BY DEF TiledKernels
<1>2. Shaped(k) /\ W \subseteq Nat /\ Placed(k, l, b)
  BY <1>1, TilesShaped, BlocksPlaced
<1>3. Reads(W, R, {})
  BY NothingIsOff DEF Reads
<1>4. Ending(W, c, {}, {})
  <2> HIDE DEF R
  <2> QED
    BY <1>2, <1>3, EpilogueEnds
<1>5. [w \in W |-> Shared(k, l, b, c[w])] = [w \in W |-> RegDirect(k, l, b, w)]
  BY DEF RegDirect
<1>6. CodeOn(W, c)
  BY DEF CodeOn
<1> HIDE DEF c
<1>7. Proper(W, [w \in W |-> Shared(k, l, b, c[w])])
  BY <1>1, <1>4, <1>6, SharesAreNat, SharedProper DEF Proper
<1> QED
  BY <1>5, <1>7

\* v12, for any split of K.
LEMMA V12Proper ==
    ASSUME NEW l, IsLaunch(l), NEW b \in Blocks("v12", l)
    PROVE  Proper(TileWaves("v12"), [w \in TileWaves("v12") |-> V12(l, b, w)])
<1> PICK k : k = "v12"
  OBVIOUS
<1> PICK W, g0, g1 : W = TileWaves(k) /\ g0 = G0(k, l, b) /\ g1 = G1(k, l, b)
  OBVIOUS
<1> DEFINE c == [w \in W |-> SerialCode(k, l, b, AB, w, W, g0, g1)]
<1>1. k \in TiledKernels
  BY DEF TiledKernels, SplitKernels
<1>2. Shaped(k) /\ W \subseteq Nat /\ Placed(k, l, b) /\ g0 \in Nat /\ g1 \in Nat
  BY <1>1, TilesShaped, BlocksPlaced, SharesAreNat
<1>3. ASSUME g0 < g1 PROVE Proper(W, c)
  <2>1. g0 <= g1
    BY <1>2, <1>3
  <2>2. Ending(W, c, {}, {})
    BY ONLY <1>2, <2>1, SerialEnds
  <2> QED
    BY <2>2 DEF Proper
<1>4. [w \in W |-> Shared(k, l, b, c[w])] = [w \in W |-> V12(l, b, w)]
  BY DEF V12, SerialCode
<1>5. CodeOn(W, c)
  BY DEF CodeOn
<1> HIDE DEF c
<1>6. Proper(W, [w \in W |-> Shared(k, l, b, c[w])])
  BY <1>2, <1>3, <1>5, SharedProper
<1> QED
  BY <1>4, <1>6

\* v14, for any split of K.
LEMMA V14Proper ==
    ASSUME NEW l, IsLaunch(l), NEW b \in Blocks("v14", l)
    PROVE  Proper(TileWaves("v14"), [w \in TileWaves("v14") |-> V14(l, b, w)])
<1> PICK k : k = "v14"
  OBVIOUS
<1> PICK W, g0, g1 : W = TileWaves(k) /\ g0 = G0(k, l, b) /\ g1 = G1(k, l, b)
  OBVIOUS
<1> DEFINE c == [w \in W |-> GroupedCode(k, l, b, AB, w, W, g0, g1)]
<1>1. k \in TiledKernels
  BY DEF TiledKernels, SplitKernels
<1>2. Shaped(k) /\ W \subseteq Nat /\ Placed(k, l, b) /\ g0 \in Nat /\ g1 \in Nat
  BY <1>1, TilesShaped, BlocksPlaced, SharesAreNat
<1>3. ASSUME g0 < g1 PROVE Proper(W, c)
  <2>1. g0 <= g1
    BY <1>2, <1>3
  <2>2. Ending(W, c, {}, {})
    <3> PICK bufs : bufs = AB
      OBVIOUS
    <3>1. c = [w \in W |-> GroupedCode(k, l, b, bufs, w, W, g0, g1)]
      OBVIOUS
    <3> HIDE DEF c
    <3>2. Ending(W, [w \in W |-> GroupedCode(k, l, b, bufs, w, W, g0, g1)], {}, {})
      BY <1>2, <2>1, GroupedEnds
    <3> QED
      BY <3>1, <3>2
  <2> QED
    BY <2>2 DEF Proper
<1>4. [w \in W |-> Shared(k, l, b, c[w])] = [w \in W |-> V14(l, b, w)]
  BY DEF V14, GroupedCode
<1>5. CodeOn(W, c)
  BY DEF CodeOn
<1> HIDE DEF c
<1>6. Proper(W, [w \in W |-> Shared(k, l, b, c[w])])
  BY <1>2, <1>3, <1>5, SharedProper
<1> QED
  BY <1>4, <1>6
-----------------------------------------------------------------------------
\* The serial and the double-buffered kernels compute all K groups.
LEMMA SerialProper ==
    ASSUME NEW k \in TiledKernels, NEW l, IsLaunch(l), NEW b \in Blocks(k, l), NEW bufs
    PROVE  Proper(TileWaves(k), [w \in TileWaves(k) |-> SerialCode(k, l, b, bufs, w, TileWaves(k), 0, l.G)])
<1> PICK W, g0 : W = TileWaves(k) /\ g0 = 0
  OBVIOUS
<1>1. Shaped(k) /\ W \subseteq Nat /\ Placed(k, l, b)
  BY TilesShaped, BlocksPlaced
<1>2. l.G \in Nat /\ g0 \in Nat /\ g0 <= l.G
  BY DEF IsLaunch
<1>3. Ending(W, [w \in W |-> SerialCode(k, l, b, bufs, w, W, g0, l.G)], {}, {})
  BY <1>1, <1>2, SerialEnds
<1> QED
  BY <1>3 DEF Proper

\* The double-buffered kernels compute all K groups.
LEMMA PongProper ==
    ASSUME NEW k \in TiledKernels, NEW l, IsLaunch(l), NEW b \in Blocks(k, l), NEW n \in Nat
    PROVE  Proper(TileWaves(k), [w \in TileWaves(k) |-> PongCode(k, l, b, AB, w, TileWaves(k), n)])
<1>1. Shaped(k) /\ TileWaves(k) \subseteq Nat /\ Placed(k, l, b)
  BY TilesShaped, BlocksPlaced
<1> QED
  BY <1>1, PongEnds DEF Proper

\* The kernels with a tile of their own.
LEMMA TiledProper ==
    ASSUME NEW k \in TiledKernels, NEW l, IsLaunch(l), NEW b \in Blocks(k, l)
    PROVE  Proper(TileWaves(k), [w \in TileWaves(k) |-> DenseCode(k, l, b, w)])
<1>0. /\ Shaped(k) /\ TileWaves(k) \subseteq Nat /\ Placed(k, l, b)
      /\ l.G \in Nat /\ l.G * Chunks \in Nat
  BY TilesShaped, BlocksPlaced, TileAssumption DEF IsLaunch
<1>1. CASE k = "v1"
  <2>1. Ending(TileWaves(k), [w \in TileWaves(k) |-> V1(l, b, w)], {}, {})
    BY <1>0, <1>1, V1Ends, V1EndsAtOnce
  <2> QED
    BY <1>1, <2>1 DEF DenseCode, Proper
<1>2. CASE k \in {"v2", "v4", "v6", "v7"}
  <2> PICK bufs : bufs = IF k = "v7" THEN AB \cup {"wsc"} ELSE AB
    OBVIOUS
  <2>1. Proper(TileWaves(k), [w \in TileWaves(k) |-> SerialCode(k, l, b, bufs, w, TileWaves(k), 0, l.G)])
    BY SerialProper
  <2>2. \A w : DenseCode(k, l, b, w) = SerialCode(k, l, b, bufs, w, TileWaves(k), 0, l.G)
    BY <1>2 DEF DenseCode, V2, V4, V6, V7, SerialCode
  <2> QED
    BY <2>1, <2>2
<1>3. CASE k \in {"v5", "tiled"}
  <2>1. Ending(TileWaves(k), [w \in TileWaves(k) |-> FusedSerial(k, l, b, w)], {}, {})
    BY <1>0, FusedSerialEnds
  <2>2. \A w : DenseCode(k, l, b, w) = FusedSerial(k, l, b, w)
    BY <1>3 DEF DenseCode, V5, GemmTiled
  <2> QED
    BY <2>1, <2>2 DEF Proper
<1>4. CASE k \in {"v10", "ashuffle"}
  <2>1. Ending(TileWaves(k), [w \in TileWaves(k) |-> FusedShuffle(k, l, b, w)], {}, {})
    BY <1>0, FusedShuffleEnds
  <2>2. \A w : DenseCode(k, l, b, w) = FusedShuffle(k, l, b, w)
    BY <1>4 DEF DenseCode, V10, GemmTiledAshuffle
  <2> QED
    BY <2>1, <2>2 DEF Proper
<1>5. CASE k \in {"v8", "v9"}
  <2> PICK n \in Nat : n = IF k = "v8" THEN l.G ELSE l.G * Chunks
    BY <1>0
  <2>1. Proper(TileWaves(k), [w \in TileWaves(k) |-> PongCode(k, l, b, AB, w, TileWaves(k), n)])
    BY PongProper
  <2>2. \A w : DenseCode(k, l, b, w) = PongCode(k, l, b, AB, w, TileWaves(k), n)
    BY <1>5 DEF DenseCode, V8, V9, PongCode
  <2> QED
    BY <2>1, <2>2
<1>6. CASE k \in {"v12", "v14"}
  <2>1. /\ k = "v12" => Proper(TileWaves(k), [w \in TileWaves(k) |-> V12(l, b, w)])
        /\ k = "v14" => Proper(TileWaves(k), [w \in TileWaves(k) |-> V14(l, b, w)])
    BY V12Proper, V14Proper
  <2> QED
    BY <1>6, <2>1 DEF DenseCode
<1>7. CASE k \in {"v13", "v15", "v16", "v17"}
  <2>1. Proper(TileWaves(k), [w \in TileWaves(k) |-> RegDirect(k, l, b, w)])
    BY <1>7, RegDirectProper DEF SplitKernels
  <2>2. \A w : DenseCode(k, l, b, w) = RegDirect(k, l, b, w)
    BY <1>7 DEF DenseCode, V13, V15, V16, V17
  <2> QED
    BY <2>1, <2>2
<1> QED
  BY <1>1, <1>2, <1>3, <1>4, <1>5, <1>6, <1>7 DEF TiledKernels, SplitKernels
-----------------------------------------------------------------------------
\* Every dense kernel keeps the rules, for any launch.
LEMMA DenseProper ==
    ASSUME NEW g, IsDense(g)
    PROVE  Proper(DenseWaves(g[1]), [w \in DenseWaves(g[1]) |-> DenseCode(g[1], g[2], g[3], w)])
<1> PICK k, l, b : k = g[1] /\ l = g[2] /\ b = g[3]
  OBVIOUS
<1>0. IsLaunch(l) /\ k \in DenseKernels /\ b \in DenseBlocks(k, l)
  BY DEF IsDense
<1>1. /\ l.M \in Nat /\ l.N \in Nat /\ l.G \in Nat
      /\ ActWaves \in Nat \ {0} /\ Gemv.waves \in Nat \ {0} /\ Gemv.chunk \in Nat \ {0} /\ Square \in Nat \ {0}
  BY <1>0, TileAssumption DEF IsLaunch
<1>2. CASE k = "actquant"
  <2>1. Ending(QuantWaves, [w \in QuantWaves |-> ActQuant(l, b, w)], {}, {})
    BY <1>1, QuantEnds
  <2>2. DenseWaves(k) = QuantWaves /\ \A w : DenseCode(k, l, b, w) = ActQuant(l, b, w)
    BY <1>2 DEF DenseWaves, DenseCode, QuantWaves
  <2> QED
    BY <2>1, <2>2 DEF Proper
<1>3. CASE k = "v0"
  <2>1. Ceil(l.N, Square) \in Nat /\ Ceil(l.M, Square) \in Nat
    BY <1>1, StrideBelow
  <2>2. PICK x \in 0 .. Ceil(l.N, Square) - 1, y \in 0 .. Ceil(l.M, Square) - 1 : b = <<x, y>>
    BY <1>0, <1>3 DEF DenseBlocks
  <2>3. b[1] \in Nat /\ b[2] \in Nat
    BY <2>1, <2>2
  <2>4. DenseWaves(k) \subseteq Nat /\ \A w : DenseCode(k, l, b, w) = V0(l, b, w)
    BY <1>1, <1>3 DEF DenseWaves, DenseCode
  <2> PICK W : W = DenseWaves(k)
    OBVIOUS
  <2>5. Ending(W, [w \in W |-> V0(l, b, w)], {}, {})
    BY <1>1, <2>3, <2>4, V0Ends
  <2> QED
    BY <2>4, <2>5 DEF Proper
<1>4. CASE k = "v11"
  <2>1. Ceil(l.N, Gemv.waves) \in Nat
    BY <1>1, StrideBelow
  <2>2. PICK x \in 0 .. Ceil(l.N, Gemv.waves) - 1 : b = <<x>>
    BY <1>0, <1>4 DEF DenseBlocks
  <2>3. b[1] \in Nat
    BY <2>1, <2>2
  <2>4. Ending(GemvWaves, [w \in GemvWaves |-> V11(l, b, w)], {}, {})
    BY <1>1, <2>3, GemvEnds
  <2>5. DenseWaves(k) = GemvWaves /\ \A w : DenseCode(k, l, b, w) = V11(l, b, w)
    BY <1>4 DEF DenseWaves, DenseCode, GemvWaves
  <2> QED
    BY <2>4, <2>5 DEF Proper
<1>5. CASE k = "cvt"
  <2>1. Ceil(l.M * l.N, ActWaves) \in Nat
    <3>1. l.M * l.N \in Nat
      BY <1>1
    <3> QED
      BY <1>1, <3>1, StrideBelow
  <2>2. PICK x \in 0 .. Ceil(l.M * l.N, ActWaves) - 1 : b = <<x>>
    BY <1>0, <1>5 DEF DenseBlocks
  <2>3. b[1] \in Nat
    BY <2>1, <2>2
  <2>4. DenseWaves(k) \subseteq Nat /\ \A w : DenseCode(k, l, b, w) = Cvt(l, b, w)
    BY <1>1, <1>5 DEF DenseWaves, DenseCode
  <2> PICK W : W = DenseWaves(k)
    OBVIOUS
  <2>5. Ending(W, [w \in W |-> Cvt(l, b, w)], {}, {})
    BY <1>1, <2>3, <2>4, CvtEnds
  <2> QED
    BY <2>4, <2>5 DEF Proper
<1>6. CASE k \in TiledKernels
  <2>1. k \notin {"actquant", "v0", "v11", "cvt"}
    BY <1>6 DEF TiledKernels, SplitKernels
  <2>2. DenseWaves(k) = TileWaves(k) /\ b \in Blocks(k, l)
    BY <1>0, <2>1 DEF DenseWaves, DenseBlocks
  <2> QED
    BY <1>0, <1>6, <2>2, TiledProper
<1>7. k \in TiledKernels \/ k \in {"actquant", "v0", "v11", "cvt"}
  BY <1>0 DEF DenseKernels
<1> QED
  BY <1>2, <1>3, <1>4, <1>5, <1>6, <1>7

\* The dense kernels over any launch: any M, N and K groups, any split, any tile.
THEOREM DenseKernelsAreSafe ==
    ASSUME \A g \in Groups :
              IsDense(g) /\ CodeOf(g) = [w \in DenseWaves(g[1]) |-> DenseCode(g[1], g[2], g[3], w)]
    PROVE  Spec => []NoRace /\ []ReadsMeant /\ []NobodyStranded
<1>1. ASSUME NEW g \in Groups PROVE RaceFree(CodeOf(g)) /\ ReadsFollow(CodeOf(g)) /\ BarriersAgree(CodeOf(g))
  <2>1. Proper(DenseWaves(g[1]), CodeOf(g))
    BY DenseProper
  <2> PICK c : c = CodeOf(g)
    OBVIOUS
  <2>2. Sound(c, {}, {}) /\ BarriersAgree(c)
    BY <2>1 DEF Proper, Ending
  <2>3. RaceFree(c) /\ ReadsFollow(c)
    BY <2>2, SoundFollows
  <2> QED
    BY <2>2, <2>3
<1>2. Spec => []NoRace
  BY <1>1, PhasesDecideRaces
<1>3. Spec => []ReadsMeant
  BY <1>1, PhasesDecideReads
<1>4. Spec => []NobodyStranded
  BY <1>1, CountsDecideStranding
<1> QED
  BY <1>2, <1>3, <1>4
-----------------------------------------------------------------------------
\* What a text contributes to the output, one contribution at a time.
Contribution(c, i, h, p) == i \in 1 .. Len(c) /\ h \in c[i].writes /\ h[1][1] = "out" /\ p \in h[2]

\* What a text contributes, statement by statement.
LEMMA PartsAre ==
    ASSUME NEW c
    PROVE  \A x : x \in Parts(c) <=> \E i, h, p : Contribution(c, i, h, p) /\ x = <<h[1], p>>
<1> DEFINE out(i) == {h \in c[i].writes : h[1][1] = "out"}
           of(i) == UNION {{<<h[1], p>> : p \in h[2]} : h \in out(i)}
<1>1. Parts(c) = UNION {of(i) : i \in 1 .. Len(c)}
  BY DEF Parts
<1>2. \A i, x : x \in of(i) <=> \E h \in out(i) : \E p \in h[2] : x = <<h[1], p>>
  OBVIOUS
<1> HIDE DEF of
<1>3. \A x : x \in Parts(c) <=> \E i \in 1 .. Len(c) : x \in of(i)
  BY <1>1
<1> QED
  BY <1>2, <1>3 DEF Contribution

\* A text that contributes X.
Yields(t, X) == IsText(t) /\ Parts(t) = X

\* The empty text contributes nothing.
LEMMA NothingYields == Yields(<<>>, {})
<1>1. \A i : i \notin 1 .. Len(<<>>)
  OBVIOUS
<1>2. Parts(<<>>) = {}
  BY <1>1, PartsAre DEF Contribution
<1> QED
  BY <1>2, EmptyText DEF Yields

\* Texts in a row contribute what each does, if it differs.
LEMMA YieldsThen ==
    ASSUME NEW a, NEW b, NEW X, NEW Y, Yields(a, X), Yields(b, Y)
    PROVE  Yields(a \o b, X \cup Y)
<1> DEFINE c == a \o b
<1>1. /\ IsText(c) /\ Len(c) = Len(a) + Len(b) /\ Len(a) \in Nat /\ Len(b) \in Nat
      /\ \A i \in 1 .. Len(a) : c[i] = a[i]
      /\ \A i \in 1 .. Len(b) : c[Len(a) + i] = b[i]
  <2>1. IsText(a) /\ IsText(b)
    BY DEF Yields
  <2>2. Len(a) \in Nat /\ Len(b) \in Nat
    BY <2>1 DEF IsText
  <2> QED
    BY <2>1, <2>2, TextCat
<1> HIDE DEF c
<1>2. ASSUME NEW i, NEW h, NEW p, Contribution(c, i, h, p)
      PROVE  Contribution(a, i, h, p) \/ \E j : Contribution(b, j, h, p)
  <2>1. i \in 1 .. Len(c)
    BY <1>2 DEF Contribution
  <2>2. CASE i \in 1 .. Len(a)
    BY <1>1, <1>2, <2>2 DEF Contribution
  <2>3. CASE i \notin 1 .. Len(a)
    <3>1. i - Len(a) \in 1 .. Len(b) /\ i = Len(a) + (i - Len(a))
      BY <1>1, <2>1, <2>3
    <3>2. Contribution(b, i - Len(a), h, p)
      BY <1>1, <1>2, <3>1 DEF Contribution
    <3> QED
      BY <3>2
  <2> QED
    BY <2>2, <2>3
<1>3. ASSUME NEW i, NEW h, NEW p, Contribution(a, i, h, p) PROVE Contribution(c, i, h, p)
  <2>1. i \in 1 .. Len(c)
    BY <1>1, <1>3 DEF Contribution
  <2> QED
    BY <1>1, <1>3, <2>1 DEF Contribution
<1>4. ASSUME NEW i, NEW h, NEW p, Contribution(b, i, h, p) PROVE Contribution(c, Len(a) + i, h, p)
  <2>1. i \in 1 .. Len(b) /\ Len(a) + i \in 1 .. Len(c)
    BY <1>1, <1>4 DEF Contribution
  <2> QED
    BY <1>1, <1>4, <2>1 DEF Contribution
<1>5. \A x : x \in Parts(c) <=> x \in Parts(a) \/ x \in Parts(b)
  BY <1>2, <1>3, <1>4, PartsAre
<1>6. Parts(c) = X \cup Y
  BY <1>5 DEF Yields
<1> QED
  BY <1>1, <1>6 DEF Yields, c

\* A store contributes its places from its K groups.
LEMMA StoreYields == ASSUME NEW R, NEW P, NEW X PROVE Yields(Do(R, Result(P, X)), Contributions(P, X))
<1> DEFINE c == Do(R, Result(P, X))
<1>1. IsText(c) /\ Len(c) = 1 /\ c[1] = [sync |-> FALSE, reads |-> R, writes |-> Result(P, X)]
  BY DoIs
<1> HIDE DEF c
<1>2. \A i, h, p : Contribution(c, i, h, p) <=>
          i = 1 /\ h \in Result(P, X) /\ h[1][1] = "out" /\ p \in h[2]
  BY <1>1 DEF Contribution
<1>3. \A h : h \in Result(P, X) <=> \E q \in P : h = <<<<"out", q>>, X>>
  BY DEF Result
<1>4. \A y : y \in Parts(c) <=> \E q \in P : \E p \in X : y = <<<<"out", q>>, p>>
  <2> SUFFICES ASSUME NEW y PROVE y \in Parts(c) <=> \E q \in P : \E p \in X : y = <<<<"out", q>>, p>>
    OBVIOUS
  <2>1. ASSUME y \in Parts(c) PROVE \E q \in P : \E p \in X : y = <<<<"out", q>>, p>>
    <3>1. PICK i, h, p : Contribution(c, i, h, p) /\ y = <<h[1], p>>
      BY <2>1, PartsAre
    <3> QED
      BY <3>1, <1>2, <1>3
  <2>2. ASSUME NEW q \in P, NEW p \in X, y = <<<<"out", q>>, p>> PROVE y \in Parts(c)
    <3> DEFINE h == <<<<"out", q>>, X>>
    <3>1. Contribution(c, 1, h, p) /\ y = <<h[1], p>>
      BY <1>2, <1>3, <2>2
    <3> QED
      BY <3>1, PartsAre
  <2> QED
    BY <2>1, <2>2
<1>5. Parts(c) = Contributions(P, X)
  BY <1>4 DEF Contributions
<1> QED
  BY <1>1, <1>5 DEF Yields, c

\* A statement that keeps to the local memory, and a barrier, contribute nothing.
Local(V) == \A h \in V : h[1][1] # "out"

\* A statement in local memory contributes nothing.
LEMMA DoYields == ASSUME NEW R, NEW V, Local(V) PROVE Yields(Do(R, V), {})
<1> DEFINE c == Do(R, V)
<1>1. IsText(c) /\ Len(c) = 1 /\ c[1].writes = V
  BY DoIsOne
<1> HIDE DEF c
<1>2. \A i, h, p : ~Contribution(c, i, h, p)
  BY <1>1 DEF Contribution, Local
<1>3. Parts(c) = {}
  BY <1>2, PartsAre
<1> QED
  BY <1>1, <1>3 DEF Yields, c

\* Nor does a barrier.
LEMMA SyncYields == Yields(Sync, {})
<1>1. IsText(Sync) /\ Len(Sync) = 1 /\ Sync[1].writes = {}
  BY SyncIs DEF Sync
<1>2. \A i, h, p : ~Contribution(Sync, i, h, p)
  BY <1>1 DEF Contribution
<1>3. Parts(Sync) = {}
  BY <1>2, PartsAre
<1> QED
  BY <1>1, <1>3 DEF Yields

\* Texts that contribute nothing.
Mute(t) == Yields(t, {})

\* Nor do two such texts in a row.
LEMMA MuteThen == ASSUME NEW a, NEW b, Mute(a), Mute(b) PROVE Mute(a \o b)
BY YieldsThen DEF Mute

\* They may stand before a text that does.
LEMMA MuteThenYields == ASSUME NEW a, NEW b, NEW X, Mute(a), Yields(b, X) PROVE Yields(a \o b, X)
<1>1. Yields(a \o b, {} \cup X)
  BY YieldsThen DEF Mute
<1>2. {} \cup X = X
  OBVIOUS
<1> QED
  BY <1>1, <1>2

\* The texts to start from.
LEMMA MuteBasics == Mute(<<>>) /\ Mute(Sync) /\ \A R, V : Local(V) => Mute(Do(R, V))
BY NothingYields, SyncYields, DoYields DEF Mute

\* A loop whose rounds contribute nothing contributes nothing.
LEMMA MuteLoop ==
    ASSUME NEW first \in Nat, NEW end \in Nat, first <= end, NEW B, \A i \in first .. end - 1 : Mute(B[i]),
           NEW f, Unrolled(f, first, end, B)
    PROVE  Mute(f[end])
<1> DEFINE S == {m \in 0 .. end - first : Mute(f[first + m])}
<1>1. Goes(f, first, end, B)
  BY UnrolledIs
<1>2. 0 \in S
  BY <1>1, MuteBasics DEF Goes
<1>3. ASSUME NEW m \in 0 .. end - first - 1, m \in S PROVE m + 1 \in S
  <2>1. first + m \in first .. end - 1
    OBVIOUS
  <2>2. f[(first + m) + 1] = f[first + m] \o B[first + m] /\ Mute(f[first + m]) /\ Mute(B[first + m])
    BY <1>1, <1>3, <2>1 DEF Goes
  <2>3. Mute(f[(first + m) + 1])
    BY <2>2, MuteThen
  <2>4. (first + m) + 1 = first + (m + 1)
    OBVIOUS
  <2> QED
    BY <2>3, <2>4
<1> HIDE DEF S
<1>4. 0 .. end - first \subseteq S
  <2>1. PICK n \in Nat : n = end - first
    OBVIOUS
  <2> QED
    BY <2>1, <1>2, <1>3, Reach
<1>5. end - first \in S
  BY <1>4
<1>6. first + (end - first) = end
  OBVIOUS
<1> QED
  BY <1>5, <1>6 DEF S
-----------------------------------------------------------------------------
\* Buffers other than the output.
LEMMA BufsLocal ==
    ASSUME NEW bufs, "out" \notin bufs
    PROVE  /\ \A slot, w, x : Local(OwnOf(bufs, slot, w, x))
           /\ \A slot, W, x : Local(AllOf(bufs, slot, W, x))
           /\ Local({})
BY DEF Local, OwnOf, AllOf

\* MuteLoop for code that is given as a function.
LEMMA MuteLoops ==
    ASSUME NEW first \in Nat, NEW end \in Nat, first <= end, NEW B, \A i \in first .. end - 1 : Mute(B[i])
    PROVE  /\ Bodies(first, end, B)
           /\ \A f : Unrolled(f, first, end, B) => Mute(f[end])
BY MuteLoop DEF Bodies, Mute, Yields

\* The single buffer contributes nothing.
LEMMA SerialMute ==
    ASSUME NEW bufs, "out" \notin bufs, NEW W, NEW w, NEW g0 \in Nat, NEW g1 \in Nat, g0 <= g1, NEW sc
    PROVE  Mute(Serial(bufs, w, W, g0, g1, sc))
<1> DEFINE B == SerialBodies(bufs, w, W, sc, g0, g1)
<1>1. ASSUME NEW g PROVE Mute(SerialBody(bufs, w, W, sc, g))
  <2>1. /\ Mute(Do(sc, Own(bufs, w, g))) /\ Mute(Sync) /\ Mute(Do(All(bufs, W, g), {}))
    BY BufsLocal, MuteBasics DEF Own, All
  <2> QED
    BY <2>1, MuteThen DEF SerialBody
<1>2. \A g \in g0 .. g1 - 1 : Mute(B[g])
  BY <1>1 DEF SerialBodies
<1>3. Bodies(g0, g1, B) /\ \A f : Unrolled(f, g0, g1, B) => Mute(f[g1])
  <2> HIDE DEF B
  <2> QED
    BY <1>2, MuteLoops
<1>4. PICK f : Unrolled(f, g0, g1, B) /\ Serial(bufs, w, W, g0, g1, sc) = f[g1]
  BY <1>3, SerialUnrolls
<1> QED
  BY <1>3, <1>4

\* The double buffer contributes nothing.
LEMMA PongMute ==
    ASSUME NEW bufs, "out" \notin bufs, NEW W, NEW w, NEW n \in Nat
    PROVE  Mute(PingPong(bufs, w, W, n))
<1> DEFINE B == PongBodies(bufs, w, W, n)
<1>0. /\ \A s, v, x : Mute(Do({}, OwnOf(bufs, s, v, x)))
      /\ \A s, V, x : Mute(Do(AllOf(bufs, s, V, x), {}))
      /\ Mute(Sync) /\ Mute(<<>>)
  BY BufsLocal, MuteBasics
<1>1. ASSUME NEW g PROVE Mute(PongPhase(bufs, w, W, n, g) \o Sync)
  BY <1>0, MuteThen DEF PongPhase
<1>2. \A g \in 0 .. n - 1 : Mute(B[g])
  BY <1>1 DEF PongBodies
<1>3. Bodies(0, n, B) /\ \A f : Unrolled(f, 0, n, B) => Mute(f[n])
  <2> HIDE DEF B
  <2>1. 0 <= n
    OBVIOUS
  <2> QED
    BY <1>2, <2>1, MuteLoops
<1>4. PICK f : Unrolled(f, 0, n, B) /\ PingPong(bufs, w, W, n) = PongStart(bufs, w) \o f[n]
  BY <1>3, PongUnrolls
<1>5. Mute(PongStart(bufs, w))
  BY <1>0, MuteThen DEF PongStart
<1> QED
  BY <1>3, <1>4, <1>5, MuteThen

\* The buffer that is filled after the compute contributes nothing.
LEMMA LateMute ==
    ASSUME NEW bufs, "out" \notin bufs, NEW W, NEW w, NEW n \in Nat
    PROVE  Mute(Late(bufs, w, W, n))
<1> DEFINE B == LateBodies(bufs, w, W, n)
<1>0. /\ \A v, x : Mute(Do({}, OwnOf(bufs, 0, v, x))) /\ Mute(Do({}, Own(bufs, v, x)))
      /\ \A V, x : Mute(Do(All(bufs, V, x), {}))
      /\ Mute(Sync) /\ Mute(<<>>)
  BY BufsLocal, MuteBasics DEF Own, All
<1>1. ASSUME NEW g PROVE Mute(LateBody(bufs, w, W, n, g))
  <2>1. Mute(Refill(bufs, w, n, g))
    BY <1>0, MuteThen DEF Refill
  <2> QED
    BY <1>0, <2>1, MuteThen DEF LateBody
<1>2. \A g \in 0 .. n - 1 : Mute(B[g])
  BY <1>1 DEF LateBodies
<1>3. Bodies(0, n, B) /\ \A f : Unrolled(f, 0, n, B) => Mute(f[n])
  <2> HIDE DEF B
  <2>1. 0 <= n
    OBVIOUS
  <2> QED
    BY <1>2, <2>1, MuteLoops
<1>4. PICK f : Unrolled(f, 0, n, B) /\ Late(bufs, w, W, n) = PongStart(bufs, w) \o f[n]
  BY <1>3, LateUnrolls
<1>5. Mute(PongStart(bufs, w))
  BY <1>0, MuteThen DEF PongStart
<1> QED
  BY <1>3, <1>4, <1>5, MuteThen

\* A stage that writes no output.
LEMMA StageMute ==
    ASSUME NEW s, NEW R, NEW V, Stage(s, R, V), Local(V)
    PROVE  Mute(s)
<1>1. ASSUME NEW i, NEW h, NEW p PROVE ~Contribution(s, i, h, p)
  <2> SUFFICES ASSUME i \in 1 .. Len(s), h \in s[i].writes PROVE h[1][1] # "out"
    BY DEF Contribution
  <2>1. h[1] \in CellsOf(V)
    BY DEF Stage, CellsOf
  <2> QED
    BY <2>1 DEF CellsOf, Local
<1>2. Parts(s) = {}
  BY <1>1, PartsAre
<1> QED
  BY <1>2 DEF Mute, Yields, Stage

\* The loop of v14 contributes nothing.
LEMMA GroupedMute ==
    ASSUME NEW bufs, "out" \notin bufs, NEW W, NEW w, NEW g0 \in Nat, NEW g1 \in Nat, g0 <= g1, NEW gtile \in Nat \ {0}
    PROVE  Mute(Grouped(bufs, w, W, g0, g1, gtile))
<1> PICK n : n = Ceil(g1 - g0, gtile)
  OBVIOUS
<1> DEFINE B == GroupBodies(bufs, w, W, g0, g1, gtile)
<1>1. n \in Nat /\ \A i \in 0 .. n - 1 : i * gtile \in Nat /\ i * gtile < g1 - g0
  <2>1. g1 - g0 \in Nat
    OBVIOUS
  <2> QED
    BY <2>1, StrideBelow
<1>2. ASSUME NEW i \in 0 .. n - 1 PROVE Mute(B[i])
  <2>1. PICK gt \in Nat, gend \in Nat : gt = g0 + i * gtile /\ gend = GroupEnd(g0, g1, gtile, i) /\ gt <= gend
    BY <1>1 DEF GroupEnd, Least
  <2>2. B[i] = GroupBody(bufs, w, W, gt, gend)
    BY <2>1 DEF GroupBodies
  <2>3. Mute(Fill(bufs, w, gt, gend))
    <3>1. Local(Upto(Fills(bufs, w, gt, gend), gt, gend))
      <4> SUFFICES ASSUME NEW h \in Upto(Fills(bufs, w, gt, gend), gt, gend) PROVE h[1][1] # "out"
        BY DEF Local
      <4>1. PICK g \in gt .. gend - 1 : h \in Fills(bufs, w, gt, gend)[g]
        BY DEF Upto
      <4>2. h \in OwnOf(bufs, g - gt, w, g)
        BY <4>1 DEF Fills
      <4> QED
        BY <4>2, BufsLocal DEF Local
    <3> QED
      BY <2>1, <3>1, FillStage, StageMute
  <2>4. Mute(Drain(bufs, W, gt, gend))
    <3>1. Local(Upto(Nones(gt, gend), gt, gend))
      BY NoUpto DEF Local
    <3> QED
      BY <2>1, <3>1, DrainStage, StageMute
  <2> QED
    BY <2>2, <2>3, <2>4, MuteBasics, MuteThen DEF GroupBody
<1>3. Bodies(0, n, B) /\ \A f : Unrolled(f, 0, n, B) => Mute(f[n])
  <2> HIDE DEF B
  <2>1. 0 <= n
    BY <1>1
  <2> QED
    BY <1>1, <1>2, <2>1, MuteLoops
<1>4. PICK f : Unrolled(f, 0, n, B) /\ Grouped(bufs, w, W, g0, g1, gtile) = f[n]
  BY <1>3, GroupedUnrolls
<1> QED
  BY <1>3, <1>4

\* The loop of v11 contributes nothing.
LEMMA GemvMute ==
    ASSUME NEW l, l.G \in Nat, NEW b, NEW W, NEW w, Gemv.chunk \in Nat \ {0}
    PROVE  Mute(GemvLoop(l, b, w, W))
<1> PICK n : n = Ceil(l.G - 0, Gemv.chunk)
  OBVIOUS
<1> DEFINE B == GemvBodies(l, b, w, W)
<1>1. n \in Nat
  <2>1. l.G - 0 \in Nat
    OBVIOUS
  <2> QED
    BY <2>1, StrideBelow
<1>2. ASSUME NEW kc PROVE Mute(GemvBody(l, b, w, W, kc))
  <2> PICK bufs : bufs = {"a"}
    OBVIOUS
  <2>0. "out" \notin bufs
    OBVIOUS
  <2>1. Mute(Do({}, Own(bufs, w, kc))) /\ Mute(Do(All(bufs, W, kc), {}))
    BY <2>0, BufsLocal, MuteBasics DEF Own, All
  <2>2. Mute(GemvRead(l, b, w, W, kc))
    BY <2>1, MuteBasics DEF GemvRead
  <2> QED
    BY <2>1, <2>2, MuteBasics, MuteThen DEF GemvBody
<1>3. \A i \in 0 .. n - 1 : Mute(B[i])
  BY <1>2 DEF GemvBodies
<1>4. Bodies(0, n, B) /\ \A f : Unrolled(f, 0, n, B) => Mute(f[n])
  <2> HIDE DEF B
  <2>1. 0 <= n
    BY <1>1
  <2> QED
    BY <1>1, <1>3, <2>1, MuteLoops
<1>5. PICK f : Unrolled(f, 0, n, B) /\ GemvLoop(l, b, w, W) = f[n]
  BY <1>1, <1>4, GemvUnrolls
<1> QED
  BY <1>4, <1>5
-----------------------------------------------------------------------------
\* Ceil(n, s) pieces of s cover n.
LEMMA CeilCovers ==
    ASSUME NEW n \in Nat, NEW s \in Nat \ {0}
    PROVE  Ceil(n, s) \in Nat /\ n <= Ceil(n, s) * s
<1>1. n + s - 1 = s * ((n + s - 1) \div s) + ((n + s - 1) % s) /\ (n + s - 1) % s \in 0 .. s - 1
      /\ (n + s - 1) \div s \in Nat
  <2>1. n + s - 1 \in Nat
    OBVIOUS
  <2> QED
    BY <2>1, Division
<1>2. PICK q \in Nat, r \in 0 .. s - 1, m \in Nat : q = Ceil(n, s) /\ m = q * s /\ n + s - 1 = m + r
  <2>1. PICK q \in Nat, r \in 0 .. s - 1 : q = (n + s - 1) \div s /\ n + s - 1 = s * q + r
    BY <1>1
  <2>2. PICK m \in Nat : m = q * s
    OBVIOUS
  <2>3. s * q = m
    BY <2>2
  <2> QED
    BY <2>1, <2>2, <2>3 DEF Ceil
<1> QED
  BY <1>2

\* A place lies in one piece of length s, which one \div gives.
InPiece(n, s, x) ==
    /\ x \div s \in 0 .. Ceil(n, s) - 1 /\ x \in Span(0, x \div s, s)
    /\ x = (x \div s) * s + (x % s) /\ x % s \in 0 .. s - 1

\* A number lies in the piece its quotient names.
LEMMA PieceOf ==
    ASSUME NEW n \in Nat, NEW s \in Nat \ {0}, NEW x \in 0 .. n - 1
    PROVE  InPiece(n, s, x)
<1>1. PICK q \in Nat, r \in 0 .. s - 1, m \in Nat : q = x \div s /\ r = x % s /\ m = q * s /\ x = m + r
  <2>1. x = s * (x \div s) + (x % s) /\ x % s \in 0 .. s - 1 /\ x \div s \in Nat
    <3>1. x \in Nat
      OBVIOUS
    <3> QED
      BY <3>1, Division
  <2>2. PICK q \in Nat, r \in 0 .. s - 1 : q = x \div s /\ r = x % s /\ x = s * q + r
    BY <2>1
  <2>3. PICK m \in Nat : m = q * s
    OBVIOUS
  <2>4. s * q = m
    BY <2>3
  <2> QED
    BY <2>2, <2>3, <2>4
<1>2. PICK c \in Nat, e \in Nat : c = Ceil(n, s) /\ e = c * s /\ n <= e
  BY CeilCovers
<1>3. q < c
  <2> SUFFICES ASSUME ~(q < c) PROVE FALSE
    OBVIOUS
  <2>1. q = c \/ c < q
    OBVIOUS
  <2>2. c * s <= q * s
    BY <2>1, <1>1, <1>2, Scaled
  <2> QED
    BY <1>1, <1>2, <2>2
<1>4. x \in Span(0, q, s)
  BY <1>1 DEF Span
<1> QED
  BY <1>1, <1>2, <1>3, <1>4 DEF InPiece

InFragment(n, s, m, d, x) == \E q \in 0 .. Ceil(n, s) - 1, i \in 0 .. m - 1 : x \in Span(q * s, i, d)

\* A row of a tile lies in one fragment.
LEMMA FragmentOf ==
    ASSUME NEW n \in Nat, NEW s, NEW m, NEW d, Fragments(s, m, d), NEW x \in 0 .. n - 1
    PROVE  InFragment(n, s, m, d, x)
<1>0. s \in Nat \ {0} /\ m \in Nat \ {0} /\ d \in Nat \ {0} /\ s = m * d
  BY DEF Fragments
<1> PICK q, r : q = x \div s /\ r = x % s
  OBVIOUS
<1>1. q \in 0 .. Ceil(n, s) - 1 /\ r \in 0 .. s - 1 /\ x = q * s + r /\ q \in Nat
  <2>1. /\ x \div s \in 0 .. Ceil(n, s) - 1 /\ x = (x \div s) * s + (x % s) /\ x % s \in 0 .. s - 1
        /\ Ceil(n, s) \in Nat
    BY <1>0, PieceOf, CeilCovers DEF InPiece
  <2> QED
    BY <2>1
<1>2. PICK y \in Nat : y = q * s
  BY <1>0, <1>1
<1>3. PICK i \in Nat, z \in Nat, t \in 0 .. d - 1 : i = r \div d /\ z = i * d /\ r = z + t
  <2>1. r = d * (r \div d) + (r % d) /\ r % d \in 0 .. d - 1 /\ r \div d \in Nat
    <3>1. r \in Nat /\ d \in Nat \ {0}
      BY <1>0, <1>1
    <3> QED
      BY <3>1, Division
  <2>2. PICK i \in Nat, t \in 0 .. d - 1 : i = r \div d /\ r = d * i + t
    BY <2>1
  <2>3. PICK z \in Nat : z = i * d
    BY <1>0
  <2>4. d * i = z
    BY <1>0, <2>3
  <2> QED
    BY <2>2, <2>3, <2>4
<1>4. i \in 0 .. m - 1
  <2>1. r \in 0 .. m * d - 1
    BY <1>0
  <2> QED
    BY <1>0, <1>3, <2>1, WaveIs
<1>5. x \in Span(q * s, i, d)
  <2>1. x = y + z + t /\ i * d = z /\ q * s = y
    <3>1. q * s = y /\ x = q * s + r
      BY <1>1, <1>2
    <3>2. x = y + r
      BY <3>1
    <3>3. r = z + t /\ i * d = z
      BY <1>3
    <3>4. x = y + z + t
      BY <3>2, <3>3
    <3> QED
      BY <3>1, <3>3, <3>4
  <2>2. x \in y + z .. y + z + d - 1
    <3>1. x = y + z + t /\ d \in Nat
      BY <1>0, <2>1
    <3> QED
      BY <3>1
  <2> QED
    BY <2>1, <2>2 DEF Span
<1> QED
  BY <1>1, <1>4, <1>5 DEF InFragment
-----------------------------------------------------------------------------
TileYield(k, l, b, w) ==
    Contributions(Rows(k, l, b, w) \X Columns(k, l, b, w), G0(k, l, b) .. G1(k, l, b) - 1)
TileYields(k, l) == [b \in Blocks(k, l) |-> [w \in TileWaves(k) |-> TileYield(k, l, b, w)]]

\* Where and what a wave contributes.
In(k, l, b, w, r, c, g) ==
    r \in Rows(k, l, b, w) /\ c \in Columns(k, l, b, w) /\ g \in G0(k, l, b) .. G1(k, l, b) - 1

\* A contribution of a wave of a tile.
LEMMA TileYieldIs ==
    ASSUME NEW k, NEW l, NEW b, NEW w
    PROVE  \A x : x \in TileYield(k, l, b, w) <=> \E r, c, g : In(k, l, b, w, r, c, g) /\ x = OutAt(r, c, g)
<1> PICK R, C, X : R = Rows(k, l, b, w) /\ C = Columns(k, l, b, w) /\ X = G0(k, l, b) .. G1(k, l, b) - 1
  OBVIOUS
<1>1. TileYield(k, l, b, w) = Contributions(R \X C, X)
  BY DEF TileYield
<1>2. \A r, c, g : In(k, l, b, w, r, c, g) <=> r \in R /\ c \in C /\ g \in X
  BY DEF In
<1>3. Holds(Contributions(R \X C, X), R, C, X)
  BY ContributionIs
<1>4. Holds(TileYield(k, l, b, w), R, C, X)
  BY <1>1, <1>3
<1> QED
  BY <1>2, <1>4 DEF Holds

\* A wave computes whole fragments of its block's tile.
LEMMA TilesInFragments ==
    ASSUME NEW k \in TiledKernels
    PROVE  /\ Fragments(Tile[k].bm, Tile[k].bm \div Dim, Dim)
           /\ Fragments(Tile[k].bn, Tile[k].wn, Tile[k].bn \div Tile[k].wn)
<1> PICK bm, bn, wn, d : bm = Tile[k].bm /\ bn = Tile[k].bn /\ wn = Tile[k].wn /\ d = Dim
  OBVIOUS
<1>1. /\ bm \in Nat \ {0} /\ bn \in Nat \ {0} /\ wn \in Nat \ {0} /\ d \in Nat \ {0}
      /\ Divides(d, bm) /\ Divides(d * wn, bn)
  BY TileAssumption DEF Divides
<1> QED
  BY <1>1, RowFragments, ColumnFragments

\* Where a block lies in the output.
TileRow(k, l, b) == IF Swizzled(k, l) THEN b[1] ELSE b[2]
TileColumn(k, l, b) == IF Swizzled(k, l) THEN b[2] ELSE b[1]

\* Every place of the output has a block, and no other.
LEMMA BlockAt ==
    ASSUME NEW k \in TiledKernels, NEW l, IsLaunch(l)
    PROVE  /\ \A b \in Blocks(k, l) :
                 /\ TileRow(k, l, b) \in Nat /\ TileColumn(k, l, b) \in Nat /\ b[3] \in Nat
                 /\ b = <<b[1], b[2], b[3]>>
           /\ \A y \in 0 .. Ceil(l.M, Tile[k].bm) - 1, x \in 0 .. Ceil(l.N, Tile[k].bn) - 1,
                 z \in 0 .. Split(k, l) - 1 :
                 \E b \in Blocks(k, l) : TileRow(k, l, b) = y /\ TileColumn(k, l, b) = x /\ b[3] = z
<1> DEFINE nm == Ceil(l.M, Tile[k].bm)
           nn == Ceil(l.N, Tile[k].bn)
           s == Split(k, l)
           xs == IF Swizzled(k, l) THEN nm ELSE nn
           ys == IF Swizzled(k, l) THEN nn ELSE nm
<1>1. nm \in Nat /\ nn \in Nat
  <2>1. Tile[k].bm \in Nat \ {0} /\ Tile[k].bn \in Nat \ {0} /\ l.M \in Nat /\ l.N \in Nat
    BY TileAssumption DEF IsLaunch
  <2> QED
    BY <2>1, StrideBelow
<1>2. \A b : b \in Blocks(k, l) <=> \E x \in 0 .. xs - 1, y \in 0 .. ys - 1, z \in 0 .. s - 1 : b = <<x, y, z>>
  BY DEF Blocks
<1> HIDE DEF nm, nn, s
<1>3. ASSUME NEW b \in Blocks(k, l)
      PROVE  /\ TileRow(k, l, b) \in Nat /\ TileColumn(k, l, b) \in Nat /\ b[3] \in Nat
             /\ b = <<b[1], b[2], b[3]>>
  <2>1. PICK x \in 0 .. xs - 1, y \in 0 .. ys - 1, z \in 0 .. s - 1 : b = <<x, y, z>>
    BY <1>2
  <2>2. s \in Int
    BY DEF s, Split, Least, IsLaunch
  <2> QED
    BY <1>1, <2>1, <2>2 DEF TileRow, TileColumn
<1>4. ASSUME NEW y \in 0 .. nm - 1, NEW x \in 0 .. nn - 1, NEW z \in 0 .. s - 1
      PROVE  \E b \in Blocks(k, l) : TileRow(k, l, b) = y /\ TileColumn(k, l, b) = x /\ b[3] = z
  <2>1. CASE Swizzled(k, l)
    <3>1. <<y, x, z>> \in Blocks(k, l)
      BY <1>2, <2>1
    <3> QED
      BY <2>1, <3>1 DEF TileRow, TileColumn
  <2>2. CASE ~Swizzled(k, l)
    <3>1. <<x, y, z>> \in Blocks(k, l)
      BY <1>2, <2>2
    <3> QED
      BY <2>2, <3>1 DEF TileRow, TileColumn
  <2> QED
    BY <2>1, <2>2
<1> QED
  BY <1>3, <1>4 DEF nm, nn, s

\* The rows and columns of a wave.
LEMMA RowsAre ==
    ASSUME NEW k, NEW l, NEW b, NEW w
    PROVE  /\ \A r : r \in Rows(k, l, b, w) <=>
                 r \in Span(TileRow(k, l, b) * Tile[k].bm, w \div Tile[k].wn, Dim) /\ r < l.M
           /\ \A c : c \in Columns(k, l, b, w) <=>
                 /\ c \in Span(TileColumn(k, l, b) * Tile[k].bn, w % Tile[k].wn, Tile[k].bn \div Tile[k].wn)
                 /\ c < l.N
BY DEF Rows, Columns, Span, BlockM, BlockN, TileRow, TileColumn

\* The K groups of a block.
LEMMA SplitIs ==
    ASSUME NEW k \in TiledKernels, NEW l, IsLaunch(l)
    PROVE  /\ Split(k, l) \in Nat /\ (l.G # 0 => Split(k, l) # 0)
           /\ \A b \in Blocks(k, l) : Split(k, l) # 0
<1> PICK G, s, n : G = l.G /\ s = Split(k, l) /\ n = l.split
  OBVIOUS
<1>1. G \in Nat /\ n \in Int
  BY DEF IsLaunch
<1>2. s = 1 \/ (~(n < 1) /\ s = Least(n, G))
  BY DEF Split
<1>3. s \in Nat /\ (G # 0 => s # 0)
  <2>1. CASE s = 1
    BY <2>1
  <2>2. CASE ~(n < 1) /\ s = Least(n, G)
    <3>1. (n < G /\ s = n) \/ (~(n < G) /\ s = G)
      BY <2>2 DEF Least
    <3> QED
      BY <1>1, <2>2, <3>1
  <2> QED
    BY <1>2, <2>1, <2>2
<1>4. ASSUME NEW b \in Blocks(k, l) PROVE s # 0
  <2>1. b[3] \in 0 .. s - 1
    BY BlocksPlaced
  <2> QED
    BY <1>3, <2>1
<1> QED
  BY <1>3, <1>4

ShareOf(k, l, b, g) == g \in Span(0, b[3], Gps(k, l)) /\ g < l.G

\* Every K group is in one share.
LEMMA SharesAre ==
    ASSUME NEW k \in TiledKernels, NEW l, IsLaunch(l), Split(k, l) # 0
    PROVE  /\ Gps(k, l) \in Nat
           /\ \A b \in Blocks(k, l) : \A g : g \in G0(k, l, b) .. G1(k, l, b) - 1 <=> ShareOf(k, l, b, g)
           /\ \A g \in 0 .. l.G - 1 : \E z \in 0 .. Split(k, l) - 1 : g \in Span(0, z, Gps(k, l))
<1> PICK G, s, p : G = l.G /\ s = Split(k, l) /\ p = Gps(k, l)
  OBVIOUS
<1>1. G \in Nat /\ s \in Nat \ {0}
  <2>1. G \in Nat
    BY DEF IsLaunch
  <2>2. s \in Nat /\ s # 0
    BY SplitIs
  <2> QED
    BY <2>1, <2>2
<1>2. p \in Nat /\ G <= p * s
  <2>1. p = Ceil(G, s)
    BY DEF Gps
  <2> QED
    BY <1>1, <2>1, CeilCovers
<1>3. ASSUME NEW b \in Blocks(k, l), NEW g
      PROVE  g \in G0(k, l, b) .. G1(k, l, b) - 1 <=> g \in Span(0, b[3], p) /\ g < G
  <2>1. PICK x \in Nat : x = b[3] * p
    <3>1. b[3] \in Nat
      BY BlockAt
    <3> QED
      BY <1>2, <3>1
  <2>2. G0(k, l, b) = x /\ G1(k, l, b) = Least(x + p, G)
    BY <2>1 DEF G0, G1
  <2> PICK y : y = G1(k, l, b)
    OBVIOUS
  <2>3. y \in Nat /\ ((x + p < G /\ y = x + p) \/ (~(x + p < G) /\ y = G))
    <3>1. x + p < G => y = x + p
      BY <2>2 DEF Least
    <3>2. ~(x + p < G) => y = G
      BY <2>2 DEF Least
    <3> QED
      BY <1>1, <1>2, <2>1, <3>1, <3>2
  <2>4. Span(0, b[3], p) = x .. x + p - 1
    <3>1. Span(0, b[3], p) = 0 + x .. 0 + x + p - 1
      BY <2>1 DEF Span
    <3> QED
      BY <1>2, <2>1, <3>1
  <2>5. g \in x .. y - 1 <=> g \in x .. x + p - 1 /\ g < G
    <3>1. ASSUME g \in x .. y - 1 PROVE g \in x .. x + p - 1 /\ g < G
      BY <1>1, <1>2, <2>3, <3>1
    <3>2. ASSUME g \in x .. x + p - 1, g < G PROVE g \in x .. y - 1
      BY <1>1, <1>2, <2>3, <3>2
    <3> QED
      BY <3>1, <3>2
  <2> QED
    BY <2>2, <2>4, <2>5
<1>4. ASSUME NEW g \in 0 .. G - 1 PROVE \E z \in 0 .. s - 1 : g \in Span(0, z, p)
  <2>1. p # 0
    <3> SUFFICES ASSUME p = 0 PROVE FALSE
      OBVIOUS
    <3>1. G <= 0 * s
      BY <1>2
    <3> QED
      BY <1>1, <3>1
  <2> PICK z : z = g \div p
    OBVIOUS
  <2>2. z \in 0 .. Ceil(G, p) - 1 /\ g \in Span(0, z, p)
    BY <1>1, <1>2, <2>1, PieceOf DEF InPiece
  <2>3. z \in Nat /\ z < s
    <3>0. z \in Nat
      BY <1>1, <1>2, <2>1, <2>2, CeilCovers
    <3>1. SUFFICES ASSUME ~(z < s) PROVE FALSE
      BY <3>0
    <3>2. s = z \/ s < z
      BY <1>1, <3>0, <3>1
    <3>3. PICK a \in Nat, c \in Nat : a = s * p /\ c = z * p /\ a <= c
      <4>1. s = z => s * p \in Nat /\ s * p = z * p
        BY <1>1, <1>2
      <4>2. s < z => s * p + p <= z * p /\ s * p \in Nat /\ z * p \in Nat
        BY <1>1, <1>2, <3>0, Scaled
      <4> QED
        BY <1>2, <3>2, <4>1, <4>2
    <3>4. p * s = a
      BY <1>1, <1>2, <3>3
    <3>5. g >= c
      BY <2>2, <3>3 DEF Span
    <3> QED
      BY <1>1, <1>2, <3>3, <3>4, <3>5
  <2>4. z \in 0 .. s - 1
    BY <1>1, <2>3
  <2> QED
    BY <2>2, <2>4
<1> QED
  BY <1>2, <1>3, <1>4 DEF ShareOf
-----------------------------------------------------------------------------
\* The tiled kernels contribute every output once from every K group.
LEMMA TileOwner ==
    ASSUME NEW k \in TiledKernels, NEW l, IsLaunch(l),
           NEW r \in 0 .. l.M - 1, NEW c \in 0 .. l.N - 1, NEW g \in 0 .. l.G - 1
    PROVE  \E b \in Blocks(k, l), w \in TileWaves(k) : OutAt(r, c, g) \in TileYield(k, l, b, w)
<1> PICK bm, bn, wn, m, d : bm = Tile[k].bm /\ bn = Tile[k].bn /\ wn = Tile[k].wn /\ m = bm \div Dim /\ d = bn \div wn
  OBVIOUS
<1>1. Fragments(bm, m, Dim) /\ Fragments(bn, wn, d) /\ l.M \in Nat /\ l.N \in Nat
  BY TilesInFragments DEF IsLaunch
<1>10. InFragment(l.M, bm, m, Dim, r) /\ InFragment(l.N, bn, wn, d, c)
  BY <1>1, FragmentOf
<1>2. PICK y \in 0 .. Ceil(l.M, bm) - 1, i \in 0 .. m - 1 : r \in Span(y * bm, i, Dim)
  BY <1>10 DEF InFragment
<1>3. PICK x \in 0 .. Ceil(l.N, bn) - 1, j \in 0 .. wn - 1 : c \in Span(x * bn, j, d)
  BY <1>10 DEF InFragment
<1>0. Split(k, l) # 0
  <2>1. l.G # 0 /\ r \in Nat /\ c \in Nat /\ r < l.M /\ c < l.N
    BY DEF IsLaunch
  <2> QED
    BY <2>1, SplitIs
<1>4. PICK z \in 0 .. Split(k, l) - 1 : g \in Span(0, z, Gps(k, l))
  BY <1>0, SharesAre
<1>5. PICK b \in Blocks(k, l) : TileRow(k, l, b) = y /\ TileColumn(k, l, b) = x /\ b[3] = z
  BY BlockAt
<1>6. PICK w \in TileWaves(k) : w \div wn = i /\ w % wn = j
  <2>1. \E w \in 0 .. m * wn - 1 : w \div wn = i /\ w % wn = j
    <3>1. m \in Nat /\ wn \in Nat \ {0}
      BY <1>1 DEF Fragments
    <3>2. Numbered(m, wn, i, j)
      BY ONLY <3>1, WaveAt
    <3> QED
      BY <3>2 DEF Numbered
  <2> QED
    BY <2>1 DEF TileWaves
<1>7. r \in Rows(k, l, b, w) /\ c \in Columns(k, l, b, w)
  <2>1. r < l.M /\ c < l.N
    BY <1>1
  <2>2. r \in Rows(k, l, b, w)
    BY <1>2, <1>5, <1>6, <2>1, RowsAre
  <2>3. c \in Columns(k, l, b, w)
    BY <1>3, <1>5, <1>6, <2>1, RowsAre
  <2> QED
    BY <2>2, <2>3
<1>8. g \in G0(k, l, b) .. G1(k, l, b) - 1
  <2>1. g < l.G
    BY DEF IsLaunch
  <2>2. ShareOf(k, l, b, g)
    BY <1>4, <1>5, <2>1 DEF ShareOf
  <2> QED
    BY <1>0, <2>2, SharesAre
<1>9. OutAt(r, c, g) \in TileYield(k, l, b, w)
  BY <1>7, <1>8, TileYieldIs DEF In
<1> QED
  BY <1>9

\* It has no other.
LEMMA TileOwnsOne ==
    ASSUME NEW k \in TiledKernels, NEW l, IsLaunch(l), NEW b \in Blocks(k, l), NEW a \in Blocks(k, l),
           NEW v \in TileWaves(k), NEW w \in TileWaves(k), NEW x, x \in TileYield(k, l, a, v), x \in TileYield(k, l, b, w)
    PROVE  a = b /\ v = w
<1> PICK bm, bn, wn, m, d : bm = Tile[k].bm /\ bn = Tile[k].bn /\ wn = Tile[k].wn /\ m = bm \div Dim /\ d = bn \div wn
  OBVIOUS
<1>1. Fragments(bm, m, Dim) /\ Fragments(bn, wn, d)
  BY TilesInFragments
<1>2. PICK r, c, g : /\ r \in Rows(k, l, a, v) /\ c \in Columns(k, l, a, v) /\ g \in G0(k, l, a) .. G1(k, l, a) - 1
                     /\ x = OutAt(r, c, g)
  BY TileYieldIs DEF In
<1>3. r \in Rows(k, l, b, w) /\ c \in Columns(k, l, b, w) /\ g \in G0(k, l, b) .. G1(k, l, b) - 1
  <2>1. PICK r2, c2, g2 : /\ r2 \in Rows(k, l, b, w) /\ c2 \in Columns(k, l, b, w)
                          /\ g2 \in G0(k, l, b) .. G1(k, l, b) - 1 /\ x = OutAt(r2, c2, g2)
    BY TileYieldIs DEF In
  <2>2. r = r2 /\ c = c2 /\ g = g2
    <3>1. IsAt(x, r, c, g) /\ IsAt(x, r2, c2, g2)
      BY <1>2, <2>1 DEF IsAt
    <3> QED
      BY ONLY <3>1, AtIsOne
  <2> QED
    BY <2>1, <2>2
<1>4. ASSUME NEW u \in TileWaves(k)
      PROVE  u \div wn \in 0 .. m - 1 /\ u % wn \in 0 .. wn - 1 /\ u \in Nat
  <2>1. u \in 0 .. m * wn - 1 /\ m \in Nat /\ wn \in Nat \ {0}
    BY <1>1 DEF TileWaves, Fragments
  <2>2. m * wn \in Nat
    BY <2>1
  <2>3. u \in Nat
    BY <2>1, <2>2
  <2>4. u \div wn \in 0 .. m - 1 /\ u % wn \in 0 .. wn - 1
    BY <2>1, WaveIs
  <2> QED
    BY <2>3, <2>4
<1>5. TileRow(k, l, a) = TileRow(k, l, b) /\ v \div wn = w \div wn
  <2>1. r \in Span(TileRow(k, l, a) * bm, v \div wn, Dim) /\ r \in Span(TileRow(k, l, b) * bm, w \div wn, Dim)
    BY <1>2, <1>3, RowsAre
  <2> QED
    BY <1>1, <1>4, <2>1, BlockAt, FragmentsApart
<1>6. TileColumn(k, l, a) = TileColumn(k, l, b) /\ v % wn = w % wn
  <2>1. c \in Span(TileColumn(k, l, a) * bn, v % wn, d) /\ c \in Span(TileColumn(k, l, b) * bn, w % wn, d)
    BY <1>2, <1>3, RowsAre
  <2> QED
    BY <1>1, <1>4, <2>1, BlockAt, FragmentsApart
<1>7. a[3] = b[3]
  <2>1. g \in Span(0, a[3], Gps(k, l)) /\ g \in Span(0, b[3], Gps(k, l)) /\ Gps(k, l) \in Nat
    <3>1. Split(k, l) # 0
      BY SplitIs
    <3>2. ShareOf(k, l, a, g) /\ ShareOf(k, l, b, g) /\ Gps(k, l) \in Nat
      BY <1>2, <1>3, <3>1, SharesAre
    <3> QED
      BY <3>2 DEF ShareOf
  <2>2. a[3] \in Nat /\ b[3] \in Nat
    BY BlockAt
  <2> QED
    BY <2>1, <2>2, SpansApart
<1>8. a = b
  <2>1. a = <<a[1], a[2], a[3]>> /\ b = <<b[1], b[2], b[3]>>
    BY BlockAt
  <2>2. a[1] = b[1] /\ a[2] = b[2]
    BY <1>5, <1>6 DEF TileRow, TileColumn
  <2> QED
    BY <1>7, <2>1, <2>2
<1>9. v = w
  BY <1>1, <1>4, <1>5, <1>6, PlacesDiffer DEF Fragments
<1> QED
  BY <1>8, <1>9

\* The tiled kernels contribute every output once from every K group, for any launch and any split.
LEMMA TileOnce ==
    ASSUME NEW k \in TiledKernels, NEW l, IsLaunch(l)
    PROVE  Once(Blocks(k, l), TileWaves(k), TileYields(k, l), DenseWanted(k, l))
<1>1. \A b \in Blocks(k, l), w \in TileWaves(k) : TileYields(k, l)[b][w] = TileYield(k, l, b, w)
  BY DEF TileYields
<1>2. \A x : x \in DenseWanted(k, l) <=>
          \E r \in 0 .. l.M - 1, c \in 0 .. l.N - 1, g \in 0 .. l.G - 1 : x = OutAt(r, c, g)
  <2>1. k \notin {"actquant", "cvt"}
    BY DEF TiledKernels, SplitKernels
  <2> QED
    BY <2>1 DEF DenseWanted, OutAt
<1>3. ASSUME NEW b \in Blocks(k, l), NEW w \in TileWaves(k), NEW x \in TileYield(k, l, b, w)
      PROVE  x \in DenseWanted(k, l)
  <2>1. PICK r, c, g : /\ r \in Rows(k, l, b, w) /\ c \in Columns(k, l, b, w)
                       /\ g \in G0(k, l, b) .. G1(k, l, b) - 1 /\ x = OutAt(r, c, g)
    BY TileYieldIs DEF In
  <2>2. r \in Nat /\ r < l.M /\ c \in Nat /\ c < l.N
    <3>1. \A base \in Nat, q \in Nat, d \in Nat : Span(base, q, d) \subseteq Nat
      BY DEF Span
    <3>2. Placed(k, l, b) /\ Shaped(k) /\ w \in Nat
      BY BlocksPlaced, TilesShaped
    <3>3. Rows(k, l, b, w) \subseteq Nat /\ Columns(k, l, b, w) \subseteq Nat
      <4>1. TileRow(k, l, b) * Tile[k].bm \in Nat /\ TileColumn(k, l, b) * Tile[k].bn \in Nat
        BY <3>2 DEF Placed, BlockM, BlockN, TileRow, TileColumn
      <4>2. w \div Tile[k].wn \in Nat /\ w % Tile[k].wn \in Nat /\ Tile[k].bn \div Tile[k].wn \in Nat
        <5>1. Tile[k].wn \in Nat \ {0} /\ Tile[k].bn \in Nat
          BY <3>2 DEF Shaped
        <5>2. w % Tile[k].wn \in 0 .. Tile[k].wn - 1 /\ w \div Tile[k].wn \in Nat
          BY <3>2, <5>1, Division
        <5>3. Tile[k].bn \div Tile[k].wn \in Nat
          BY <5>1, Division
        <5> QED
          BY <5>1, <5>2, <5>3
      <4> QED
        BY <3>1, <3>2, <4>1, <4>2, RowsAre DEF Shaped
    <3> QED
      BY <2>1, <3>3, RowsAre
  <2>3. g \in Nat /\ g < l.G
    <3>1. g \in G0(k, l, b) .. G1(k, l, b) - 1 /\ G0(k, l, b) \in Nat /\ G1(k, l, b) \in Nat
      BY <2>1, SharesAreNat
    <3>2. Split(k, l) # 0
      BY SplitIs
    <3>3. ShareOf(k, l, b, g)
      BY <3>1, <3>2, SharesAre
    <3> QED
      BY <3>1, <3>3 DEF ShareOf
  <2> QED
    BY <1>2, <2>1, <2>2, <2>3 DEF IsLaunch
<1> QED
  BY <1>1, <1>2, <1>3, TileOwner, TileOwnsOne DEF Once
-----------------------------------------------------------------------------
\* The epilogue contributes the part of the tile that is inside the output.
LEMMA EpilogueYields ==
    ASSUME NEW k, NEW l, NEW b, NEW w, NEW R
    PROVE  Yields(Epilogue(k, l, b, w, R), TileYield(k, l, b, w))
BY StoreYields DEF Epilogue, TileYield

\* The buffers of a tile are local memory.
LEMMA TileBufsLocal ==
    \A bufs \in {AB, AB \cup {"wsc"}, {"B_tile", "wsc"}, {"act_scale"}, {"warp_maxes"}, {"tmp"}, OneBufs, {"out_acc"}} :
        "out" \notin bufs
BY DEF AB, OneBufs

\* The prologue of the scales contributes nothing.
LEMMA ScalesMute == ASSUME NEW w PROVE Mute(BlockActScales(w))
<1> PICK bufs : bufs = {"act_scale"}
  OBVIOUS
<1>1. "out" \notin bufs
  OBVIOUS
<1>2. Mute(Do({}, Own(bufs, w, "scale")))
  BY <1>1, BufsLocal, MuteBasics DEF Own
<1> QED
  BY <1>2, MuteBasics, MuteThen DEF BlockActScales

\* So do the single-buffered kernels with their activations in registers.
LEMMA FusedSerialYields ==
    ASSUME NEW k, NEW l, l.G \in Nat, NEW b, NEW w
    PROVE  Yields(FusedSerial(k, l, b, w), TileYield(k, l, b, w))
<1> PICK W, S, bufs, n : W = TileWaves(k) /\ S = ActScales(W) /\ bufs = AB /\ n = l.G
  OBVIOUS
<1>1. "out" \notin bufs
  BY TileBufsLocal
<1>2. Mute(Serial(bufs, w, W, 0, n, S))
  <2>1. 0 \in Nat /\ n \in Nat /\ 0 <= n
    OBVIOUS
  <2> QED
    BY <1>1, <2>1, SerialMute
<1>3. Mute(BlockActScales(w) \o Serial(bufs, w, W, 0, n, S))
  BY <1>2, ScalesMute, MuteThen
<1>4. Yields(BlockActScales(w) \o Serial(bufs, w, W, 0, n, S) \o Epilogue(k, l, b, w, S), TileYield(k, l, b, w))
  BY <1>3, EpilogueYields, MuteThenYields
<1> QED
  BY <1>4 DEF FusedSerial

\* So do the double-buffered ones.
LEMMA FusedShuffleYields ==
    ASSUME NEW k, NEW l, l.G \in Nat, NEW b, NEW w
    PROVE  Yields(FusedShuffle(k, l, b, w), TileYield(k, l, b, w))
<1> PICK W, S, bufs, n : W = TileWaves(k) /\ S = ActScales(W) /\ bufs = {"B_tile", "wsc"} /\ n = l.G
  OBVIOUS
<1> PICK t : t = IF l.db THEN PingPong(bufs, w, W, n) ELSE Late(bufs, w, W, n)
  OBVIOUS
<1>1. "out" \notin bufs
  BY TileBufsLocal
<1>2. Mute(t)
  <2>1. Mute(PingPong(bufs, w, W, n)) /\ Mute(Late(bufs, w, W, n))
    BY <1>1, PongMute, LateMute
  <2> QED
    BY <2>1
<1>3. Mute(Do(S, {}))
  BY BufsLocal, <1>1, MuteBasics
<1>4. Mute(BlockActScales(w) \o Do(S, {}) \o t)
  BY <1>2, <1>3, ScalesMute, MuteThen
<1>5. Yields(BlockActScales(w) \o Do(S, {}) \o t \o Epilogue(k, l, b, w, S), TileYield(k, l, b, w))
  BY <1>4, EpilogueYields, MuteThenYields
<1> QED
  BY <1>5 DEF FusedShuffle

\* v1 and the sum it carries.
LEMMA SumsLocal == ASSUME NEW w, NEW g PROVE Local(SumOf(w, g))
BY DEF Local, SumOf

\* The pieces of a round of v1 contribute nothing.
LEMMA OneMute == ASSUME NEW w, NEW g PROVE Mute(OneStart(w)) /\ Mute(OneRound(w, g))
<1>1. \A v : "out" \notin OneBufs /\ "out" \notin {"tmp"}
  BY DEF OneBufs
<1>2. Local(OwnOf(OneBufs, 0, w, g)) /\ Local(OwnOf({"tmp"}, 0, w, g)) /\ Local(SumOf(w, 0)) /\ Local(SumOf(w, g + 1))
  BY <1>1, BufsLocal, SumsLocal
<1>3. Mute(OneStart(w)) /\ Mute(OneLoad(w, g)) /\ Mute(OneProduct(w, g)) /\ Mute(OneAdd(w, g)) /\ Mute(Sync)
  BY <1>2, MuteBasics DEF OneStart, OneLoad, OneProduct, OneAdd
<1>4. Mute(OneFirst(w, g))
  BY <1>3, MuteThen DEF OneFirst
<1> QED
  BY <1>3, <1>4, MuteThen DEF OneRound

\* Nor does its loop.
LEMMA OneLoopMute == ASSUME NEW w, NEW n \in Nat PROVE Mute(OneLoop(w, n))
<1>1. CASE n = 0
  <2> DEFINE u == CHOOSE u : u = [i \in 0 .. 0 |-> IF i = 0 THEN <<>> ELSE u[i - 1] \o OneBody(w, i - 1)]
  <2>1. Loop(0, 0, LAMBDA g : OneBody(w, g)) = u[0]
    BY DEF Loop
  <2>2. u = [i \in 0 .. 0 |-> IF i = 0 THEN <<>> ELSE u[i - 1] \o OneBody(w, i - 1)]
    <3> DEFINE e == [i \in 0 .. 0 |-> <<>>]
    <3>1. e = [i \in 0 .. 0 |-> IF i = 0 THEN <<>> ELSE e[i - 1] \o OneBody(w, i - 1)]
      BY \A i \in 0 .. 0 : i = 0
    <3> HIDE DEF e
    <3> QED
      BY <3>1
  <2> HIDE DEF u
  <2>3. u[0] = <<>>
    BY <2>2
  <2>4. OneLoop(w, 0) = OneStart(w) \o <<>>
    BY <2>1, <2>3 DEF OneLoop
  <2>5. Mute(OneStart(w) \o <<>>)
    BY OneMute, MuteBasics, MuteThen
  <2> QED
    BY <1>1, <2>4, <2>5
<1>2. CASE n # 0
  <2> DEFINE B == OneRounds(w, n)
  <2>1. \A g \in 0 .. n - 1 : Mute(B[g])
    BY OneMute DEF OneRounds
  <2>2. Bodies(0, n, B) /\ \A f : Unrolled(f, 0, n, B) => Mute(f[n])
    <3> HIDE DEF B
    <3>1. 0 <= n
      OBVIOUS
    <3> QED
      BY <2>1, <3>1, MuteLoops
  <2>3. PICK f : Unrolled(f, 0, n, B) /\ OneLoop(w, n) = f[n]
    <3>1. n \in Nat \ {0}
      BY <1>2
    <3> QED
      BY <2>2, <3>1, OneUnrolls
  <2> QED
    BY <2>2, <2>3
<1> QED
  BY <1>1, <1>2

\* v1 contributes its part of the tile.
LEMMA V1Yields ==
    ASSUME NEW l, l.G \in Nat, NEW b, NEW w
    PROVE  Yields(V1(l, b, w), TileYield("v1", l, b, w))
<1> PICK n : n = l.G
  OBVIOUS
<1>1. V1(l, b, w) = OneLoop(w, n) \o Epilogue("v1", l, b, w, SumOf(w, n))
  BY V1Is DEF OneLoop
<1> QED
  BY <1>1, OneLoopMute, EpilogueYields, MuteThenYields
-----------------------------------------------------------------------------
\* The code of a block with no share of K contributes what its share is made of: nothing.
LEMMA SharedYields ==
    ASSUME NEW k, NEW l, NEW b, NEW w, G0(k, l, b) \in Nat, G1(k, l, b) \in Nat,
           NEW t, G0(k, l, b) < G1(k, l, b) => Yields(t, TileYield(k, l, b, w))
    PROVE  Yields(Shared(k, l, b, t), TileYield(k, l, b, w))
<1> PICK g0 \in Nat, g1 \in Nat : g0 = G0(k, l, b) /\ g1 = G1(k, l, b)
  OBVIOUS
<1>1. CASE g0 >= g1
  <2>1. Shared(k, l, b, t) = <<>>
    BY <1>1 DEF Shared
  <2>2. \A x : x \notin TileYield(k, l, b, w)
    <3>1. \A x : x \in TileYield(k, l, b, w) => \E g : g \in g0 .. g1 - 1
      BY TileYieldIs DEF In
    <3>2. \A g : g \notin g0 .. g1 - 1
      BY <1>1
    <3> QED
      BY <3>1, <3>2
  <2>3. TileYield(k, l, b, w) = {}
    BY <2>2
  <2> QED
    BY <2>1, <2>3, NothingYields
<1>2. CASE g0 < g1
  <2>1. Shared(k, l, b, t) = t
    BY <1>2 DEF Shared
  <2> QED
    BY <1>2, <2>1
<1> QED
  BY <1>1, <1>2

\* A kernel with a single buffer.
LEMMA SerialYields ==
    ASSUME NEW k, NEW l, NEW b, NEW w, NEW bufs, "out" \notin bufs, NEW W, NEW g0 \in Nat, NEW g1 \in Nat, g0 <= g1
    PROVE  Yields(SerialCode(k, l, b, bufs, w, W, g0, g1), TileYield(k, l, b, w))
<1>1. Mute(Serial(bufs, w, W, g0, g1, {}))
  BY SerialMute
<1> QED
  BY <1>1, EpilogueYields, MuteThenYields DEF SerialCode

\* A kernel with a double buffer.
LEMMA PongYields ==
    ASSUME NEW k, NEW l, NEW b, NEW w, NEW bufs, "out" \notin bufs, NEW W, NEW n \in Nat
    PROVE  Yields(PongCode(k, l, b, bufs, w, W, n), TileYield(k, l, b, w))
<1>1. Mute(PingPong(bufs, w, W, n))
  BY PongMute
<1> QED
  BY <1>1, EpilogueYields, MuteThenYields DEF PongCode

\* A kernel with gtile groups between two barriers.
LEMMA GroupedYields ==
    ASSUME NEW k, NEW l, NEW b, NEW w, NEW bufs, "out" \notin bufs, NEW W, NEW g0 \in Nat, NEW g1 \in Nat, g0 <= g1
    PROVE  Yields(GroupedCode(k, l, b, bufs, w, W, g0, g1), TileYield(k, l, b, w))
<1> PICK gtile : gtile = Gtile
  OBVIOUS
<1>1. gtile \in Nat \ {0}
  BY TileAssumption
<1>2. Mute(Grouped(bufs, w, W, g0, g1, gtile))
  BY <1>1, GroupedMute
<1> QED
  BY <1>2, EpilogueYields, MuteThenYields DEF GroupedCode

\* Every tiled kernel, whatever it stages, contributes its part of the tile.
LEMMA TiledYields ==
    ASSUME NEW k \in TiledKernels, NEW l, IsLaunch(l), NEW b \in Blocks(k, l), NEW w
    PROVE  Yields(DenseCode(k, l, b, w), TileYield(k, l, b, w))
<1> PICK W, g0, g1 : W = TileWaves(k) /\ g0 = G0(k, l, b) /\ g1 = G1(k, l, b)
  OBVIOUS
<1>0. l.G \in Nat /\ l.G * Chunks \in Nat /\ g0 \in Nat /\ g1 \in Nat
  BY TileAssumption, SharesAreNat DEF IsLaunch
<1>1. CASE k = "v1"
  BY <1>0, <1>1, V1Yields DEF DenseCode
<1>2. CASE k \in {"v2", "v4", "v6", "v7"}
  <2> PICK bufs : bufs = IF k = "v7" THEN AB \cup {"wsc"} ELSE AB
    OBVIOUS
  <2>1. "out" \notin bufs
    BY TileBufsLocal
  <2>2. PICK z \in Nat, n \in Nat : z = 0 /\ n = l.G /\ z <= n
    BY <1>0
  <2>3. Yields(SerialCode(k, l, b, bufs, w, W, z, n), TileYield(k, l, b, w))
    BY <2>1, <2>2, SerialYields
  <2>4. DenseCode(k, l, b, w) = SerialCode(k, l, b, bufs, w, W, z, n)
    BY <1>2, <2>2 DEF DenseCode, V2, V4, V6, V7, SerialCode
  <2> QED
    BY <2>3, <2>4
<1>3. CASE k \in {"v5", "tiled"}
  <2>1. DenseCode(k, l, b, w) = FusedSerial(k, l, b, w)
    BY <1>3 DEF DenseCode, V5, GemmTiled
  <2> QED
    BY <1>0, <2>1, FusedSerialYields
<1>4. CASE k \in {"v10", "ashuffle"}
  <2>1. DenseCode(k, l, b, w) = FusedShuffle(k, l, b, w)
    BY <1>4 DEF DenseCode, V10, GemmTiledAshuffle
  <2> QED
    BY <1>0, <2>1, FusedShuffleYields
<1>5. CASE k \in {"v8", "v9"}
  <2> PICK bufs : bufs = AB
    OBVIOUS
  <2> PICK n \in Nat : n = IF k = "v8" THEN l.G ELSE l.G * Chunks
    BY <1>0
  <2>1. "out" \notin bufs
    BY TileBufsLocal
  <2>2. Yields(PongCode(k, l, b, bufs, w, W, n), TileYield(k, l, b, w))
    BY <2>1, PongYields
  <2>3. DenseCode(k, l, b, w) = PongCode(k, l, b, bufs, w, W, n)
    BY <1>5 DEF DenseCode, V8, V9, PongCode
  <2> QED
    BY <2>2, <2>3
<1>6. CASE k = "v12"
  <2> PICK bufs, t : bufs = AB /\ t = SerialCode(k, l, b, bufs, w, W, g0, g1)
    OBVIOUS
  <2>1. ASSUME g0 < g1 PROVE Yields(t, TileYield(k, l, b, w))
    <3>1. "out" \notin bufs /\ g0 <= g1
      BY <1>0, <2>1, TileBufsLocal
    <3> QED
      BY <1>0, <3>1, SerialYields
  <2>2. Yields(Shared(k, l, b, t), TileYield(k, l, b, w))
    BY <1>0, <2>1, SharedYields
  <2>3. DenseCode(k, l, b, w) = Shared(k, l, b, t)
    BY <1>6 DEF DenseCode, V12, SerialCode
  <2> QED
    BY <2>2, <2>3
<1>7. CASE k = "v14"
  <2> PICK bufs, t : bufs = AB /\ t = GroupedCode(k, l, b, bufs, w, W, g0, g1)
    OBVIOUS
  <2>1. ASSUME g0 < g1 PROVE Yields(t, TileYield(k, l, b, w))
    <3>1. "out" \notin bufs /\ g0 <= g1
      BY <1>0, <2>1, TileBufsLocal
    <3> QED
      BY <1>0, <3>1, GroupedYields
  <2>2. Yields(Shared(k, l, b, t), TileYield(k, l, b, w))
    BY <1>0, <2>1, SharedYields
  <2>3. DenseCode(k, l, b, w) = Shared(k, l, b, t)
    BY <1>7 DEF DenseCode, V14, GroupedCode
  <2> QED
    BY <2>2, <2>3
<1>8. CASE k \in {"v13", "v15", "v16", "v17"}
  <2>1. Yields(Epilogue(k, l, b, w, {}), TileYield(k, l, b, w))
    BY EpilogueYields
  <2>2. Yields(RegDirect(k, l, b, w), TileYield(k, l, b, w))
    BY <1>0, <2>1, SharedYields DEF RegDirect
  <2>3. DenseCode(k, l, b, w) = RegDirect(k, l, b, w)
    BY <1>8 DEF DenseCode, V13, V15, V16, V17
  <2> QED
    BY <2>2, <2>3
<1> QED
  BY <1>1, <1>2, <1>3, <1>4, <1>5, <1>6, <1>7, <1>8 DEF TiledKernels, SplitKernels
-----------------------------------------------------------------------------
\* What the kernels without a tile contribute.
V0Row(b, w) == b[2] * Square + (w \div Square)
V0Column(b, w) == b[1] * Square + (w % Square)
V0Yield(l, b, w) ==
    IF V0Row(b, w) >= l.M \/ V0Column(b, w) >= l.N THEN {}
    ELSE Contributions({<<V0Row(b, w), V0Column(b, w)>>}, 0 .. l.G - 1)
V11Yield(l, b, w) ==
    IF GemvColumn(b, w) < l.N THEN Contributions((0 .. l.M - 1) \X {GemvColumn(b, w)}, 0 .. l.G - 1) ELSE {}
QuantYield(l, b, w) == Contributions(QuantPlace(l, b, w), {0})
CvtAt(b, w) == b[1] * ActWaves + w
CvtYield(l, b, w) ==
    IF CvtAt(b, w) < l.M * l.N THEN Contributions({<<CvtAt(b, w) \div l.N, CvtAt(b, w) % l.N>>}, {0}) ELSE {}

\* A thread of v0 contributes one output.
LEMMA V0Yields == ASSUME NEW l, NEW b, NEW w PROVE Yields(V0(l, b, w), V0Yield(l, b, w))
<1>1. CASE V0Row(b, w) >= l.M \/ V0Column(b, w) >= l.N
  BY <1>1, NothingYields DEF V0, V0Yield, V0Row, V0Column
<1>2. CASE ~(V0Row(b, w) >= l.M \/ V0Column(b, w) >= l.N)
  <2> PICK P, X : P = {<<V0Row(b, w), V0Column(b, w)>>} /\ X = 0 .. l.G - 1
    OBVIOUS
  <2>1. V0(l, b, w) = Do({}, Result(P, X)) /\ V0Yield(l, b, w) = Contributions(P, X)
    BY <1>2 DEF V0, V0Yield, V0Row, V0Column
  <2> QED
    BY <2>1, StoreYields
<1> QED
  BY <1>1, <1>2

\* A thread of the conversion contributes one element.
LEMMA CvtYields == ASSUME NEW l, NEW b, NEW w PROVE Yields(Cvt(l, b, w), CvtYield(l, b, w))
<1>1. CASE CvtAt(b, w) < l.M * l.N
  <2> PICK P, X : P = {<<CvtAt(b, w) \div l.N, CvtAt(b, w) % l.N>>} /\ X = {0}
    OBVIOUS
  <2>1. Cvt(l, b, w) = Do({}, Result(P, X)) /\ CvtYield(l, b, w) = Contributions(P, X)
    BY <1>1 DEF Cvt, CvtYield, CvtAt
  <2> QED
    BY <2>1, StoreYields
<1>2. CASE ~(CvtAt(b, w) < l.M * l.N)
  BY <1>2, NothingYields DEF Cvt, CvtYield, CvtAt
<1> QED
  BY <1>1, <1>2

\* A wave of v11 contributes its column.
LEMMA V11Yields ==
    ASSUME NEW l, l.G \in Nat, NEW b, NEW w PROVE Yields(V11(l, b, w), V11Yield(l, b, w))
<1> DEFINE W == GemvWaves
           P == (0 .. l.M - 1) \X {GemvColumn(b, w)}
           X == 0 .. l.G - 1
<1>1. V11(l, b, w) = GemvLoop(l, b, w, W) \o MayStore(GemvColumn(b, w) < l.N, P, X)
  BY DEF V11, GemvLoop, GemvBody, GemvRead, GemvColumn, MayStore, GemvWaves
<1>4. V11Yield(l, b, w) = IF GemvColumn(b, w) < l.N THEN Contributions(P, X) ELSE {}
  BY DEF V11Yield
<1> HIDE DEF W, P, X
<1>2. Mute(GemvLoop(l, b, w, W))
  <2>1. Gemv.chunk \in Nat \ {0}
    BY TileAssumption
  <2> QED
    BY <2>1, GemvMute
<1>3. Yields(MayStore(GemvColumn(b, w) < l.N, P, X), V11Yield(l, b, w))
  BY <1>4, StoreYields, NothingYields DEF MayStore
<1> QED
  BY <1>1, <1>2, <1>3, MuteThenYields

\* A wave of the quantisation contributes its columns of the row.
LEMMA QuantYields == ASSUME NEW l, NEW b, NEW w PROVE Yields(ActQuant(l, b, w), QuantYield(l, b, w))
<1> PICK bufs, P : bufs = {"warp_maxes"} /\ P = QuantPlace(l, b, w)
  OBVIOUS
<1>1. "out" \notin bufs
  OBVIOUS
<1>2. Mute(Do({}, Own(bufs, w, "max")))
  BY <1>1, BufsLocal, MuteBasics DEF Own
<1>3. Mute(QuantScale(w))
  <2>1. Local(Scale0)
    BY DEF Local, Scale0
  <2> QED
    BY <2>1, MuteBasics DEF QuantScale
<1>4. Mute(Do({}, Own(bufs, w, "max")) \o Sync \o QuantScale(w) \o Sync)
  BY <1>2, <1>3, MuteBasics, MuteThen
<1>5. Yields(Do(Scale0, Result(P, {0})), Contributions(P, {0}))
  BY StoreYields
<1>6. ActQuant(l, b, w) = Do({}, Own(bufs, w, "max")) \o Sync \o QuantScale(w) \o Sync \o Do(Scale0, Result(P, {0}))
  BY DEF ActQuant, QuantScale, Scale0, QuantPlace, QuantWaves
<1> QED
  BY <1>4, <1>5, <1>6, MuteThenYields DEF QuantYield
-----------------------------------------------------------------------------
\* A row for a block, a residue class of columns for a wave.
QuantPlaces(l) == [b \in DenseBlocks("actquant", l) |-> [w \in QuantWaves |-> QuantPlace(l, b, w)]]

\* Every activation is quantised by one wave.
LEMMA QuantOnce ==
    ASSUME NEW l, IsLaunch(l)
    PROVE  Once(DenseBlocks("actquant", l), QuantWaves, QuantPlaces(l), Matrix(l.M, l.N))
<1> PICK Bs, W, P, V, n : /\ Bs = DenseBlocks("actquant", l) /\ W = QuantWaves /\ P = QuantPlaces(l)
                          /\ V = Matrix(l.M, l.N) /\ n = ActWaves
  OBVIOUS
<1>1. n \in Nat \ {0} /\ l.M \in Nat /\ l.N \in Nat /\ W = 0 .. n - 1
  BY TileAssumption DEF IsLaunch, QuantWaves
<1>2. \A b : b \in Bs <=> \E r \in 0 .. l.M - 1 : b = <<r>>
  BY DEF DenseBlocks
<1>3. \A b \in Bs, w \in W : \A x : x \in P[b][w] <=> \E c \in 0 .. l.N - 1 : c % n = w /\ x = <<b[1], c>>
  BY DEF QuantPlaces, QuantPlace
<1>4. ASSUME NEW b \in Bs, NEW w \in W PROVE P[b][w] \subseteq V
  BY <1>2, <1>3, MatrixIs
<1>5. ASSUME NEW x \in V PROVE \E b \in Bs, w \in W : x \in P[b][w]
  <2>1. PICK r \in 0 .. l.M - 1, c \in 0 .. l.N - 1 : x = <<r, c>>
    BY MatrixIs
  <2>2. PICK w : w = c % n
    OBVIOUS
  <2>3. w \in W
    <3>1. c \in Nat
      OBVIOUS
    <3> QED
      BY <1>1, <2>2, <3>1, Division
  <2>4. PICK b \in Bs : b = <<r>>
    BY <1>2
  <2>5. x \in P[b][w]
    BY <1>3, <2>1, <2>2, <2>3, <2>4
  <2> QED
    BY <2>3, <2>5
<1>6. ASSUME NEW b \in Bs, NEW a \in Bs, NEW v \in W, NEW w \in W, NEW x, x \in P[b][v], x \in P[a][w]
      PROVE  b = a /\ v = w
  <2>1. PICK c : c % n = v /\ x = <<b[1], c>>
    BY <1>3, <1>6
  <2>2. PICK d : d % n = w /\ x = <<a[1], d>>
    BY <1>3, <1>6
  <2>3. b[1] = a[1] /\ c = d
    BY <2>1, <2>2
  <2>4. b = <<b[1]>> /\ a = <<a[1]>>
    BY <1>2
  <2> QED
    BY <2>1, <2>2, <2>3, <2>4
<1>7. Once(Bs, W, P, V)
  BY <1>4, <1>5, <1>6 DEF Once
<1> QED
  BY <1>7

\* A column for a wave.
GemvPlace(l, b, w) == IF GemvColumn(b, w) < l.N THEN (0 .. l.M - 1) \X {GemvColumn(b, w)} ELSE {}
GemvPlaces(l) == [b \in DenseBlocks("v11", l) |-> [w \in GemvWaves |-> GemvPlace(l, b, w)]]

\* Every output of v11 is one wave's.
LEMMA GemvOnce ==
    ASSUME NEW l, IsLaunch(l)
    PROVE  Once(DenseBlocks("v11", l), GemvWaves, GemvPlaces(l), Matrix(l.M, l.N))
<1> PICK Bs, W, P, V, n, m : /\ Bs = DenseBlocks("v11", l) /\ W = GemvWaves /\ P = GemvPlaces(l)
                             /\ V = Matrix(l.M, l.N) /\ n = Gemv.waves /\ m = Ceil(l.N, n)
  OBVIOUS
<1>1. n \in Nat \ {0} /\ l.M \in Nat /\ l.N \in Nat /\ W = 0 .. n - 1
  BY TileAssumption DEF IsLaunch, GemvWaves
<1>2. \A b : b \in Bs <=> \E y \in 0 .. m - 1 : b = <<y>>
  BY DEF DenseBlocks
<1>3. \A b \in Bs, w \in W : \A x :
          x \in P[b][w] <=> b[1] * n + w < l.N /\ \E r \in 0 .. l.M - 1 : x = <<r, b[1] * n + w>>
  BY DEF GemvPlaces, GemvPlace, GemvColumn
<1>4. m \in Nat
  BY <1>1, CeilCovers
<1>5. ASSUME NEW b \in Bs, NEW w \in W PROVE b = <<b[1]>> /\ b[1] \in Nat /\ w \in Nat /\ b[1] * n + w \in Nat
  <2>1. b = <<b[1]>> /\ b[1] \in Nat /\ w \in Nat
    BY <1>1, <1>2, <1>4
  <2>2. b[1] * n \in Nat
    BY <1>1, <2>1
  <2> QED
    BY <2>1, <2>2
<1>6. ASSUME NEW b \in Bs, NEW w \in W PROVE P[b][w] \subseteq V
  <2> SUFFICES ASSUME NEW x \in P[b][w] PROVE x \in V
    OBVIOUS
  <2> PICK c : c = b[1] * n + w
    OBVIOUS
  <2>1. PICK r \in 0 .. l.M - 1 : x = <<r, c>> /\ c < l.N
    BY <1>3
  <2>2. c \in 0 .. l.N - 1
    BY <1>1, <1>5, <2>1
  <2> QED
    BY <2>1, <2>2, MatrixIs
<1>7. ASSUME NEW x \in V PROVE \E b \in Bs, w \in W : x \in P[b][w]
  <2>1. PICK r \in 0 .. l.M - 1, c \in 0 .. l.N - 1 : x = <<r, c>>
    BY MatrixIs
  <2>2. PICK y, w : y = c \div n /\ w = c % n
    OBVIOUS
  <2>3. y \in 0 .. m - 1 /\ w \in W /\ y * n + w = c
    <3>1. InPiece(l.N, n, c)
      BY <1>1, PieceOf
    <3> QED
      BY <1>1, <2>2, <3>1 DEF InPiece
  <2>4. PICK b \in Bs : b = <<y>>
    BY <1>2, <2>3
  <2>5. b[1] * n + w = c /\ c < l.N
    BY <1>1, <2>3, <2>4
  <2>6. x \in P[b][w]
    BY <1>3, <2>1, <2>3, <2>5
  <2> QED
    BY <2>3, <2>6
<1>8. ASSUME NEW b \in Bs, NEW a \in Bs, NEW v \in W, NEW w \in W, NEW x, x \in P[b][v], x \in P[a][w]
      PROVE  b = a /\ v = w
  <2> PICK c, d : c = b[1] * n + v /\ d = a[1] * n + w
    OBVIOUS
  <2>1. PICK r : x = <<r, c>>
    BY <1>3, <1>8
  <2>2. PICK t : x = <<t, d>>
    BY <1>3, <1>8
  <2>3. SameOnLine(n, b[1], v, a[1], w)
    BY <2>1, <2>2 DEF SameOnLine
  <2>4. b[1] = a[1] /\ v = w
    BY <1>1, <1>5, <2>3, LineOnce
  <2> QED
    BY <1>5, <2>4
<1>9. Once(Bs, W, P, V)
  BY <1>6, <1>7, <1>8 DEF Once
<1> QED
  BY <1>9
-----------------------------------------------------------------------------
\* A square of threads for a block.
V0Place(l, b, w) ==
    IF V0Row(b, w) >= l.M \/ V0Column(b, w) >= l.N THEN {} ELSE {<<V0Row(b, w), V0Column(b, w)>>}
V0Places(l) == [b \in DenseBlocks("v0", l) |-> [w \in DenseWaves("v0") |-> V0Place(l, b, w)]]

\* Every output of v0 is one thread's.
LEMMA V0Once ==
    ASSUME NEW l, IsLaunch(l)
    PROVE  Once(DenseBlocks("v0", l), DenseWaves("v0"), V0Places(l), Matrix(l.M, l.N))
<1> PICK Bs, W, P, V, s, my, mx : /\ Bs = DenseBlocks("v0", l) /\ W = DenseWaves("v0") /\ P = V0Places(l)
                                  /\ V = Matrix(l.M, l.N) /\ s = Square /\ my = Ceil(l.M, s) /\ mx = Ceil(l.N, s)
  OBVIOUS
<1>1. s \in Nat \ {0} /\ l.M \in Nat /\ l.N \in Nat /\ W = 0 .. s * s - 1
  BY TileAssumption DEF IsLaunch, DenseWaves
<1>2. \A b : b \in Bs <=> \E x \in 0 .. mx - 1, y \in 0 .. my - 1 : b = <<x, y>>
  BY DEF DenseBlocks
<1>3. \A b \in Bs, w \in W : \A x :
          x \in P[b][w] <=> /\ ~(b[2] * s + (w \div s) >= l.M) /\ ~(b[1] * s + (w % s) >= l.N)
                            /\ x = <<b[2] * s + (w \div s), b[1] * s + (w % s)>>
  BY DEF V0Places, V0Place, V0Row, V0Column
<1>4. my \in Nat /\ mx \in Nat
  BY <1>1, CeilCovers
<1>5. ASSUME NEW b \in Bs PROVE b = <<b[1], b[2]>> /\ b[1] \in Nat /\ b[2] \in Nat
  BY <1>2, <1>4
<1>6. ASSUME NEW w \in W PROVE w \in Nat /\ w \div s \in 0 .. s - 1 /\ w % s \in 0 .. s - 1
  <2>1. s * s \in Nat
    BY <1>1
  <2>2. w \in 0 .. s * s - 1
    BY <1>1
  <2>3. w \in Nat
    BY <2>1, <2>2
  <2> QED
    BY <1>1, <2>2, <2>3, WaveIs
<1>7. ASSUME NEW b \in Bs, NEW w \in W PROVE P[b][w] \subseteq V
  <2> SUFFICES ASSUME NEW x \in P[b][w] PROVE x \in V
    OBVIOUS
  <2> PICK i, j : i = w \div s /\ j = w % s
    OBVIOUS
  <2>1. i \in Nat /\ j \in Nat
    <3>1. i \in 0 .. s - 1 /\ j \in 0 .. s - 1
      BY <1>6
    <3> QED
      BY <1>1, <3>1
  <2>2. PICK y \in Nat, z \in Nat : y = b[2] * s /\ z = b[1] * s
    BY <1>1, <1>5
  <2>3. x = <<y + i, z + j>> /\ ~(y + i >= l.M) /\ ~(z + j >= l.N)
    BY <1>3, <2>2
  <2>4. y + i \in 0 .. l.M - 1 /\ z + j \in 0 .. l.N - 1
    BY <1>1, <2>1, <2>3
  <2> QED
    BY <2>3, <2>4, MatrixIs
<1>8. ASSUME NEW x \in V PROVE \E b \in Bs, w \in W : x \in P[b][w]
  <2>1. PICK r \in 0 .. l.M - 1, c \in 0 .. l.N - 1 : x = <<r, c>>
    BY MatrixIs
  <2>2. PICK y, i, z, j : y = r \div s /\ i = r % s /\ z = c \div s /\ j = c % s
    OBVIOUS
  <2>3. y \in 0 .. my - 1 /\ i \in 0 .. s - 1 /\ y * s + i = r
    <3>1. InPiece(l.M, s, r)
      BY <1>1, PieceOf
    <3> QED
      BY <2>2, <3>1 DEF InPiece
  <2>4. z \in 0 .. mx - 1 /\ j \in 0 .. s - 1 /\ z * s + j = c
    <3>1. InPiece(l.N, s, c)
      BY <1>1, PieceOf
    <3> QED
      BY <2>2, <3>1 DEF InPiece
  <2>5. PICK b \in Bs : b = <<z, y>>
    BY <1>2, <2>3, <2>4
  <2>6. PICK w \in W : w \div s = i /\ w % s = j
    <3>1. s \in Nat
      BY <1>1
    <3>2. Numbered(s, s, i, j)
      BY ONLY <1>1, <2>3, <2>4, <3>1, WaveAt
    <3> QED
      BY <1>1, <3>2 DEF Numbered
  <2>7. b[2] * s + (w \div s) = r /\ b[1] * s + (w % s) = c
    BY <2>3, <2>4, <2>5, <2>6
  <2>8. ~(r >= l.M) /\ ~(c >= l.N)
    BY <1>1
  <2>9. x \in P[b][w]
    BY <1>3, <2>1, <2>7, <2>8
  <2> QED
    BY <2>9
<1>9. ASSUME NEW b \in Bs, NEW a \in Bs, NEW v \in W, NEW w \in W, NEW x, x \in P[b][v], x \in P[a][w]
      PROVE  b = a /\ v = w
  <2>1. x = <<b[2] * s + (v \div s), b[1] * s + (v % s)>>
    BY <1>3, <1>9
  <2>2. x = <<a[2] * s + (w \div s), a[1] * s + (w % s)>>
    BY <1>3, <1>9
  <2>3. b[2] * s + (v \div s) = a[2] * s + (w \div s) /\ b[1] * s + (v % s) = a[1] * s + (w % s)
    BY <2>1, <2>2
  <2> PICK i, j, m, n : i = v \div s /\ j = v % s /\ m = w \div s /\ n = w % s
    OBVIOUS
  <2>4. i \in 0 .. s - 1 /\ j \in 0 .. s - 1 /\ m \in 0 .. s - 1 /\ n \in 0 .. s - 1
    BY <1>6
  <2>5. b[1] \in Nat /\ b[2] \in Nat /\ a[1] \in Nat /\ a[2] \in Nat
    BY <1>5
  <2>6. SameOnLine(s, b[2], i, a[2], m) /\ SameOnLine(s, b[1], j, a[1], n)
    BY <2>3 DEF SameOnLine
  <2>7. b[2] = a[2] /\ i = m
    BY ONLY <1>1, <2>4, <2>5, <2>6, LineOnce
  <2>8. b[1] = a[1] /\ j = n
    BY ONLY <1>1, <2>4, <2>5, <2>6, LineOnce
  <2>9. v = w
    BY <1>1, <1>6, <2>7, <2>8, PlacesDiffer
  <2> QED
    BY <1>5, <2>7, <2>8, <2>9
<1>10. Once(Bs, W, P, V)
  BY <1>7, <1>8, <1>9 DEF Once
<1> QED
  BY <1>10

\* An element for a thread.
CvtPlace(l, b, w) == IF CvtAt(b, w) < l.M * l.N THEN {<<CvtAt(b, w) \div l.N, CvtAt(b, w) % l.N>>} ELSE {}
CvtPlaces(l) == [b \in DenseBlocks("cvt", l) |-> [w \in QuantWaves |-> CvtPlace(l, b, w)]]

\* Every element is converted by one thread.
LEMMA CvtOnce ==
    ASSUME NEW l, IsLaunch(l)
    PROVE  Once(DenseBlocks("cvt", l), QuantWaves, CvtPlaces(l), Matrix(l.M, l.N))
<1> PICK Bs, W, P, V, s, M, N, e, m : /\ Bs = DenseBlocks("cvt", l) /\ W = QuantWaves /\ P = CvtPlaces(l)
                                      /\ V = Matrix(l.M, l.N) /\ s = ActWaves /\ M = l.M /\ N = l.N
                                      /\ e = l.M * l.N /\ m = Ceil(e, s)
  OBVIOUS
<1>1. s \in Nat \ {0} /\ M \in Nat /\ N \in Nat /\ W = 0 .. s - 1 /\ e = M * N
  BY TileAssumption DEF IsLaunch, QuantWaves
<1>2. e \in Nat
  BY <1>1
<1>3. \A b : b \in Bs <=> \E y \in 0 .. m - 1 : b = <<y>>
  BY DEF DenseBlocks
<1>4. \A b \in Bs, w \in W : \A x :
          x \in P[b][w] <=> b[1] * s + w < e /\ x = <<(b[1] * s + w) \div N, (b[1] * s + w) % N>>
  BY DEF CvtPlaces, CvtPlace, CvtAt
<1>5. m \in Nat
  BY <1>1, <1>2, CeilCovers
<1>6. ASSUME NEW b \in Bs, NEW w \in W PROVE b = <<b[1]>> /\ b[1] \in Nat /\ w \in Nat /\ b[1] * s + w \in Nat
  <2>1. b = <<b[1]>> /\ b[1] \in Nat /\ w \in Nat
    BY <1>1, <1>3, <1>5
  <2>2. b[1] * s \in Nat
    BY <1>1, <2>1
  <2> QED
    BY <2>1, <2>2
<1>7. ASSUME NEW i \in Nat, i < e PROVE N # 0
  <2> SUFFICES ASSUME N = 0 PROVE FALSE
    OBVIOUS
  <2>1. e = 0
    BY <1>1
  <2> QED
    BY <1>7, <2>1
<1>8. ASSUME NEW b \in Bs, NEW w \in W PROVE P[b][w] \subseteq V
  <2> SUFFICES ASSUME NEW x \in P[b][w] PROVE x \in V
    OBVIOUS
  <2>1. PICK i \in Nat : i = b[1] * s + w
    BY <1>6
  <2>2. i < e /\ x = <<i \div N, i % N>>
    BY <1>4, <2>1
  <2>3. N \in Nat \ {0} /\ i \in 0 .. e - 1
    BY <1>1, <1>2, <1>7, <2>2
  <2>4. i \div N \in 0 .. M - 1 /\ i % N \in 0 .. N - 1
    <3>1. i \in 0 .. M * N - 1
      BY <1>1, <2>3
    <3> QED
      BY ONLY <1>1, <2>3, <3>1, WaveIs
  <2> QED
    BY <2>2, <2>4, MatrixIs
<1>9. ASSUME NEW x \in V PROVE \E b \in Bs, w \in W : x \in P[b][w]
  <2>1. PICK r \in 0 .. M - 1, c \in 0 .. N - 1 : x = <<r, c>>
    BY MatrixIs
  <2>2. PICK i \in 0 .. e - 1 : i \div N = r /\ i % N = c
    <3>1. N \in Nat \ {0}
      BY <1>1
    <3>2. Numbered(M, N, r, c)
      BY ONLY <1>1, <2>1, <3>1, WaveAt
    <3> QED
      BY <1>1, <3>2 DEF Numbered
  <2>7. PICK y, w : y = i \div s /\ w = i % s
    OBVIOUS
  <2>3. y \in 0 .. m - 1 /\ w \in W /\ y * s + w = i
    <3>1. InPiece(e, s, i)
      BY <1>1, <1>2, PieceOf
    <3> QED
      BY <1>1, <2>7, <3>1 DEF InPiece
  <2>4. PICK b \in Bs : b = <<y>>
    BY <1>3, <2>3
  <2>5. b[1] * s + w = i /\ i < e
    BY <1>2, <2>3, <2>4
  <2>6. x \in P[b][w]
    BY <1>4, <2>1, <2>2, <2>3, <2>5
  <2> QED
    BY <2>3, <2>6
<1>10. ASSUME NEW b \in Bs, NEW a \in Bs, NEW v \in W, NEW w \in W, NEW x, x \in P[b][v], x \in P[a][w]
       PROVE  b = a /\ v = w
  <2>1. PICK i \in Nat, j \in Nat : i = b[1] * s + v /\ j = a[1] * s + w
    BY <1>6
  <2>2. i < e /\ x = <<i \div N, i % N>> /\ x = <<j \div N, j % N>>
    BY <1>4, <1>10, <2>1
  <2>3. N \in Nat \ {0} /\ i \div N = j \div N /\ i % N = j % N
    BY <1>1, <1>7, <2>2
  <2>4. i = j
    BY <2>3, PlacesDiffer
  <2>5. /\ SameOnLine(s, b[1], v, a[1], w)
        /\ b[1] \in Nat /\ a[1] \in Nat /\ v \in 0 .. s - 1 /\ w \in 0 .. s - 1
    BY <1>1, <1>6, <2>1, <2>4 DEF SameOnLine
  <2>6. b[1] = a[1] /\ v = w
    BY ONLY <1>1, <2>5, LineOnce
  <2> QED
    BY <1>6, <2>6
<1>11. Once(Bs, W, P, V)
  BY <1>8, <1>9, <1>10 DEF Once
<1> QED
  BY <1>11
-----------------------------------------------------------------------------
\* The workgroups of a launch, and what each of their waves contributes.
LaunchOf(k, l) == {g \in Groups : g[1] = k /\ g[2] = l}
Gives(g, w, x) == w \in DOMAIN CodeOf(g) /\ x \in Parts(CodeOf(g)[w])

\* Everything wanted of a launch comes from one wave of one of its workgroups, and nothing else comes.
OwnedOnce(k, l) ==
    /\ \A g \in LaunchOf(k, l) : \A w, x : Gives(g, w, x) => x \in Wanted(k, l)
    /\ \A x \in Wanted(k, l) : \E g \in LaunchOf(k, l) : \E w : Gives(g, w, x)
    /\ \A g, h \in LaunchOf(k, l) : \A v, w, x : Gives(g, v, x) /\ Gives(h, w, x) => g = h /\ v = w

\* A tagged part names its workgroup, its wave and a contribution.
LEMMA TaggedIs ==
    ASSUME NEW g
    PROVE  \A t : t \in TaggedParts(g) <=> \E w, x : Gives(g, w, x) /\ t = <<g, w, x>>
<1> PICK c : c = CodeOf(g)
  OBVIOUS
<1> DEFINE of(w) == {<<g, w, p>> : p \in Parts(c[w])}
<1>1. TaggedParts(g) = UNION {of(w) : w \in DOMAIN c}
  BY DEF TaggedParts
<1>2. \A w, t : t \in of(w) <=> \E x : x \in Parts(c[w]) /\ t = <<g, w, x>>
  OBVIOUS
<1> HIDE DEF of
<1>3. \A t : t \in TaggedParts(g) <=> \E w \in DOMAIN c : t \in of(w)
  BY <1>1
<1> QED
  BY <1>2, <1>3 DEF Gives

TaggedOf(k, l) == UNION {TaggedParts(g) : g \in LaunchOf(k, l)}
\* If every contribution is one wave's, counting finds each once.
LEMMA OwnedIsCounted ==
    ASSUME NEW k, NEW l, IsFiniteSet(Wanted(k, l)), OwnedOnce(k, l)
    PROVE  CountedOnce(TaggedOf(k, l), Wanted(k, l))
<1> PICK L, V, tagged : L = LaunchOf(k, l) /\ V = Wanted(k, l) /\ tagged = TaggedOf(k, l)
  OBVIOUS
<1>1. \A t : t \in tagged <=> \E g \in L : t \in TaggedParts(g)
  BY DEF TaggedOf
<1>2. \A t : t \in tagged <=> \E g \in L : \E w, x : Gives(g, w, x) /\ t = <<g, w, x>>
  BY <1>1, TaggedIs
<1>3. \A t \in tagged : t[3] \in V
  BY <1>2 DEF OwnedOnce
<1>4. \A x \in V : \E t \in tagged : t[3] = x
  <2> SUFFICES ASSUME NEW x \in V PROVE \E t \in tagged : t[3] = x
    OBVIOUS
  <2>1. PICK g \in L : \E w : Gives(g, w, x)
    BY DEF OwnedOnce
  <2>2. PICK w : Gives(g, w, x)
    BY <2>1
  <2>3. <<g, w, x>> \in tagged
    BY <1>2, <2>2
  <2> QED
    BY <2>3
<1>5. \A s, t \in tagged : s[3] = t[3] => s = t
  <2> SUFFICES ASSUME NEW s \in tagged, NEW t \in tagged, s[3] = t[3] PROVE s = t
    OBVIOUS
  <2>1. PICK g, v, x : g \in L /\ Gives(g, v, x) /\ s = <<g, v, x>>
    BY <1>2
  <2>2. PICK h, w, y : h \in L /\ Gives(h, w, y) /\ t = <<h, w, y>>
    BY <1>2
  <2>3. x = y
    BY <2>1, <2>2
  <2>4. g = h /\ v = w
    BY <2>1, <2>2, <2>3 DEF OwnedOnce
  <2> QED
    BY <2>1, <2>2, <2>3, <2>4
<1>6. {t[3] : t \in tagged} = V
  BY <1>3, <1>4
<1> DEFINE f == [x \in V |-> CHOOSE t \in tagged : t[3] = x]
<1>7. \A x \in V : f[x] \in tagged /\ f[x][3] = x
  BY <1>4
<1>8. f \in [V -> tagged]
  BY <1>7
<1> HIDE DEF f
<1>9. \A x, y \in V : f[x] = f[y] => x = y
  BY <1>7
<1>10. \A t \in tagged : \E x \in V : f[x] = t
  BY <1>3, <1>5, <1>7
<1>11. Cardinality(tagged) = Cardinality(V)
  <2>1. IsFiniteSet(V)
    OBVIOUS
  <2> QED
    BY <1>8, <1>9, <1>10, <2>1, SameSize
<1> QED
  BY <1>6, <1>11 DEF CountedOnce

\* Whether a launch contributes every output once can be read off which wave owns what.
THEOREM OwnersDecideOutputs ==
    ASSUME \A g \in Groups : IsFiniteSet(Wanted(g[1], g[2])) /\ OwnedOnce(g[1], g[2])
    PROVE  Spec => []OutputsOnce
<1>1. TypeOK => OutputsOnce
  <2> SUFFICES ASSUME TypeOK PROVE OutputsOnce
    OBVIOUS
  <2> PICK k, l : k = group[1] /\ l = group[2]
    OBVIOUS
  <2>1. IsFiniteSet(Wanted(k, l)) /\ OwnedOnce(k, l)
    BY DEF TypeOK
  <2>2. Launch = LaunchOf(k, l)
    BY DEF Launch, LaunchOf
  <2>3. CountedOnce(TaggedOf(k, l), Wanted(k, l))
    BY <2>1, OwnedIsCounted
  <2> QED
    BY <2>2, <2>3 DEF OutputsOnce, CountedOnce, TaggedOf
<1> QED
  BY <1>1, TypeCorrect, PTL
-----------------------------------------------------------------------------
PartsWanted(k, l) == IF k \in {"actquant", "cvt"} THEN {0} ELSE 0 .. l.G - 1

\* What is wanted of a dense kernel.
LEMMA DenseWantedIs ==
    ASSUME NEW k, NEW l
    PROVE  DenseWanted(k, l) = Contributions(Matrix(l.M, l.N), PartsWanted(k, l))
BY DEF DenseWanted, Contributions, Matrix, PartsWanted

\* It is finite.
LEMMA DenseWantedFinite ==
    ASSUME NEW k, NEW l, IsLaunch(l)
    PROVE  IsFiniteSet(DenseWanted(k, l))
<1>1. IsFiniteSet(0 .. l.M - 1) /\ IsFiniteSet(0 .. l.N - 1) /\ IsFiniteSet(0 .. l.G - 1) /\ IsFiniteSet({0})
  <2>1. l.M \in Nat /\ l.N \in Nat /\ l.G \in Nat
    BY DEF IsLaunch
  <2>2. 0 \in Int /\ l.M - 1 \in Int /\ l.N - 1 \in Int /\ l.G - 1 \in Int
    BY <2>1
  <2> QED
    BY <2>2, FS_Interval, FS_Singleton
<1>2. IsFiniteSet(Matrix(l.M, l.N))
  BY <1>1, FS_Product DEF Matrix
<1>3. IsFiniteSet(PartsWanted(k, l))
  BY <1>1 DEF PartsWanted
<1> QED
  BY <1>2, <1>3, DenseWantedIs, FiniteContributions
-----------------------------------------------------------------------------
\* The waves of a launch contribute what is wanted of it, once.
Contributes(Bs, W, t, Y) == \A b \in Bs, w \in W : Yields(t[b][w], Y[b][w])
DenseTexts(k, l) == [b \in DenseBlocks(k, l) |-> [w \in DenseWaves(k) |-> DenseCode(k, l, b, w)]]
SharedOut(Bs, W, t, V) == \E Y : Contributes(Bs, W, t, Y) /\ Once(Bs, W, Y, V)

\* A tiled kernel shares its outputs out.
LEMMA TiledSharedOut ==
    ASSUME NEW k \in TiledKernels, NEW l, IsLaunch(l)
    PROVE  SharedOut(DenseBlocks(k, l), DenseWaves(k), DenseTexts(k, l), DenseWanted(k, l))
<1>1. k \notin {"actquant", "v0", "v11", "cvt"}
  BY DEF TiledKernels, SplitKernels
<1>2. DenseBlocks(k, l) = Blocks(k, l) /\ DenseWaves(k) = TileWaves(k)
  BY <1>1 DEF DenseBlocks, DenseWaves
<1> PICK Bs, W, t, Y : Bs = Blocks(k, l) /\ W = TileWaves(k) /\ t = DenseTexts(k, l) /\ Y = TileYields(k, l)
  OBVIOUS
<1>3. \A b \in Bs, w \in W : t[b][w] = DenseCode(k, l, b, w) /\ Y[b][w] = TileYield(k, l, b, w)
  BY <1>2 DEF DenseTexts, TileYields
<1>4. Contributes(Bs, W, t, Y)
  BY <1>3, TiledYields DEF Contributes
<1>5. Once(Bs, W, Y, DenseWanted(k, l))
  BY TileOnce
<1> QED
  BY <1>2, <1>4, <1>5 DEF SharedOut

\* So do the kernels without a tile.
LEMMA PlacedSharedOut ==
    ASSUME NEW k \in {"actquant", "v0", "v11", "cvt"}, NEW l, IsLaunch(l)
    PROVE  SharedOut(DenseBlocks(k, l), DenseWaves(k), DenseTexts(k, l), DenseWanted(k, l))
<1> PICK Bs, W, t, X, V : /\ Bs = DenseBlocks(k, l) /\ W = DenseWaves(k) /\ t = DenseTexts(k, l)
                          /\ X = PartsWanted(k, l) /\ V = Matrix(l.M, l.N)
  OBVIOUS
<1>1. \A b \in Bs, w \in W : t[b][w] = DenseCode(k, l, b, w)
  BY DEF DenseTexts
<1>2. \A x : Contributions({}, x) = {}
  BY DEF Contributions
<1>3. PICK P : Once(Bs, W, P, V) /\ \A b \in Bs, w \in W : Yields(t[b][w], Contributions(P[b][w], X))
  <2>1. CASE k = "actquant"
    <3> PICK P : P = QuantPlaces(l)
      OBVIOUS
    <3>1. W = QuantWaves /\ X = {0}
      BY <2>1 DEF DenseWaves, QuantWaves, PartsWanted
    <3>2. Once(Bs, W, P, V)
      BY <2>1, <3>1, QuantOnce
    <3>3. ASSUME NEW b \in Bs, NEW w \in W PROVE Yields(t[b][w], Contributions(P[b][w], X))
      <4>1. t[b][w] = ActQuant(l, b, w) /\ P[b][w] = QuantPlace(l, b, w)
        BY <1>1, <2>1, <3>1 DEF DenseCode, QuantPlaces
      <4> QED
        BY <3>1, <4>1, QuantYields DEF QuantYield
    <3> QED
      BY <3>2, <3>3
  <2>2. CASE k = "v0"
    <3> PICK P : P = V0Places(l)
      OBVIOUS
    <3>1. X = 0 .. l.G - 1
      BY <2>2 DEF PartsWanted
    <3>2. Once(Bs, W, P, V)
      BY <2>2, V0Once
    <3>3. ASSUME NEW b \in Bs, NEW w \in W PROVE Yields(t[b][w], Contributions(P[b][w], X))
      <4>1. t[b][w] = V0(l, b, w) /\ P[b][w] = V0Place(l, b, w)
        BY <1>1, <2>2 DEF DenseCode, V0Places
      <4>2. Contributions(V0Place(l, b, w), X) = V0Yield(l, b, w)
        BY <1>2, <3>1 DEF V0Place, V0Yield
      <4> QED
        BY <4>1, <4>2, V0Yields
    <3> QED
      BY <3>2, <3>3
  <2>3. CASE k = "v11"
    <3> PICK P : P = GemvPlaces(l)
      OBVIOUS
    <3>1. X = 0 .. l.G - 1 /\ W = GemvWaves
      BY <2>3 DEF PartsWanted, DenseWaves, GemvWaves
    <3>2. Once(Bs, W, P, V)
      BY <2>3, <3>1, GemvOnce
    <3>3. ASSUME NEW b \in Bs, NEW w \in W PROVE Yields(t[b][w], Contributions(P[b][w], X))
      <4>1. t[b][w] = V11(l, b, w) /\ P[b][w] = GemvPlace(l, b, w)
        BY <1>1, <2>3, <3>1 DEF DenseCode, GemvPlaces
      <4>2. Contributions(GemvPlace(l, b, w), X) = V11Yield(l, b, w)
        BY <1>2, <3>1 DEF GemvPlace, V11Yield
      <4>3. l.G \in Nat
        BY DEF IsLaunch
      <4> QED
        BY <4>1, <4>2, <4>3, V11Yields
    <3> QED
      BY <3>2, <3>3
  <2>4. CASE k = "cvt"
    <3> PICK P : P = CvtPlaces(l)
      OBVIOUS
    <3>1. W = QuantWaves /\ X = {0}
      BY <2>4 DEF DenseWaves, QuantWaves, PartsWanted
    <3>2. Once(Bs, W, P, V)
      BY <2>4, <3>1, CvtOnce
    <3>3. ASSUME NEW b \in Bs, NEW w \in W PROVE Yields(t[b][w], Contributions(P[b][w], X))
      <4>1. t[b][w] = Cvt(l, b, w) /\ P[b][w] = CvtPlace(l, b, w)
        BY <1>1, <2>4, <3>1 DEF DenseCode, CvtPlaces
      <4>2. Contributions(CvtPlace(l, b, w), X) = CvtYield(l, b, w)
        BY <1>2, <3>1 DEF CvtPlace, CvtYield
      <4> QED
        BY <4>1, <4>2, CvtYields
    <3> QED
      BY <3>2, <3>3
  <2> QED
    BY <2>1, <2>2, <2>3, <2>4
<1> PICK Y : Y = YieldsOf(Bs, W, P, X)
  OBVIOUS
<1>4. Contributes(Bs, W, t, Y)
  BY <1>3 DEF Contributes, YieldsOf
<1>5. Once(Bs, W, Y, Contributions(V, X))
  BY <1>3, OnceByPlaces
<1> QED
  BY <1>4, <1>5, DenseWantedIs DEF SharedOut

\* The workgroups of a launch are the blocks Bs, and their waves run the texts t.
LaunchIs(k, l, Bs, W, t) ==
    /\ \A h : h \in LaunchOf(k, l) <=> \E b \in Bs : h = <<k, l, b>>
    /\ \A b \in Bs : CodeOf(<<k, l, b>>) = [w \in W |-> t[b][w]]

\* A launch whose texts share out what is wanted owns each contribution once.
LEMMA SharedIsOwned ==
    ASSUME NEW k, NEW l, NEW Bs, NEW W, NEW t, LaunchIs(k, l, Bs, W, t), SharedOut(Bs, W, t, Wanted(k, l))
    PROVE  OwnedOnce(k, l)
<1> PICK L, V : L = LaunchOf(k, l) /\ V = Wanted(k, l)
  OBVIOUS
<1>1. PICK Y : Contributes(Bs, W, t, Y) /\ Once(Bs, W, Y, V)
  BY DEF SharedOut
<1>2. \A h : h \in L <=> \E b \in Bs : h = <<k, l, b>>
  BY DEF LaunchIs
<1>3. ASSUME NEW b \in Bs PROVE \A w, x : Gives(<<k, l, b>>, w, x) <=> w \in W /\ x \in Y[b][w]
  <2> PICK c : c = CodeOf(<<k, l, b>>)
    OBVIOUS
  <2>1. c = [w \in W |-> t[b][w]]
    BY DEF LaunchIs
  <2>2. \A w \in W : Parts(c[w]) = Y[b][w]
    BY <1>1, <2>1 DEF Contributes, Yields
  <2>3. DOMAIN c = W
    BY <2>1
  <2> QED
    BY <2>2, <2>3 DEF Gives
<1>4. \A h \in L : \A w, x : Gives(h, w, x) => x \in V
  BY <1>1, <1>2, <1>3 DEF Once
<1>5. ASSUME NEW x \in V PROVE \E h \in L : \E w : Gives(h, w, x)
  <2>1. PICK b \in Bs, w \in W : x \in Y[b][w]
    BY <1>1 DEF Once
  <2> QED
    BY <1>2, <1>3, <2>1
<1>6. ASSUME NEW h \in L, NEW e \in L, NEW v, NEW w, NEW x, Gives(h, v, x), Gives(e, w, x)
      PROVE  h = e /\ v = w
  <2>1. PICK b \in Bs : h = <<k, l, b>>
    BY <1>2
  <2>2. PICK a \in Bs : e = <<k, l, a>>
    BY <1>2
  <2>3. v \in W /\ w \in W /\ x \in Y[b][v] \cap Y[a][w]
    BY <1>3, <1>6, <2>1, <2>2
  <2>4. b = a /\ v = w
    BY <1>1, <2>3 DEF Once
  <2> QED
    BY <2>1, <2>2, <2>4
<1> QED
  BY <1>4, <1>5, <1>6 DEF OwnedOnce

\* A launch all of whose blocks run.
RunsDense(g) ==
    /\ IsDense(g) /\ g = <<g[1], g[2], g[3]>>
    /\ CodeOf(g) = [w \in DenseWaves(g[1]) |-> DenseCode(g[1], g[2], g[3], w)]
WholeDense(g) ==
    /\ \A b \in DenseBlocks(g[1], g[2]) : <<g[1], g[2], b>> \in Groups
    /\ Wanted(g[1], g[2]) = DenseWanted(g[1], g[2])

\* A launch of a dense kernel all of whose blocks run.
LEMMA DenseOwned ==
    ASSUME \A g \in Groups : RunsDense(g) /\ WholeDense(g), NEW g \in Groups
    PROVE  OwnedOnce(g[1], g[2]) /\ IsFiniteSet(Wanted(g[1], g[2]))
<1> PICK k, l : k = g[1] /\ l = g[2]
  OBVIOUS
<1> PICK Bs, W, t, V : Bs = DenseBlocks(k, l) /\ W = DenseWaves(k) /\ t = DenseTexts(k, l) /\ V = Wanted(k, l)
  OBVIOUS
<1>1. k \in DenseKernels /\ IsLaunch(l) /\ V = DenseWanted(k, l)
  BY DEF RunsDense, WholeDense, IsDense
<1>2. SharedOut(Bs, W, t, V) /\ IsFiniteSet(V)
  <2>1. k \in TiledKernels \/ k \in {"actquant", "v0", "v11", "cvt"}
    BY <1>1 DEF DenseKernels
  <2> QED
    BY <1>1, <2>1, TiledSharedOut, PlacedSharedOut, DenseWantedFinite
<1>3. \A h : h \in LaunchOf(k, l) <=> \E b \in Bs : h = <<k, l, b>>
  <2>1. ASSUME NEW h \in LaunchOf(k, l) PROVE h[3] \in Bs /\ h = <<k, l, h[3]>>
    BY DEF LaunchOf, RunsDense, IsDense
  <2>2. ASSUME NEW b \in Bs PROVE <<k, l, b>> \in LaunchOf(k, l)
    BY DEF LaunchOf, WholeDense
  <2> QED
    BY <2>1, <2>2
<1>4. ASSUME NEW b \in Bs PROVE CodeOf(<<k, l, b>>) = [w \in W |-> t[b][w]]
  <2> PICK h : h = <<k, l, b>>
    OBVIOUS
  <2>1. h \in Groups /\ h[1] = k /\ h[2] = l /\ h[3] = b
    BY <1>3 DEF LaunchOf
  <2>2. CodeOf(h) = [w \in W |-> DenseCode(k, l, b, w)]
    BY <2>1 DEF RunsDense
  <2> QED
    BY <2>2 DEF DenseTexts
<1>5. LaunchIs(k, l, Bs, W, t)
  BY <1>3, <1>4 DEF LaunchIs
<1> QED
  BY <1>2, <1>5, SharedIsOwned

\* Whatever M, N and K groups, whatever the split and the tile, every launch of a dense kernel adds
\* every K group to every output once.
THEOREM DenseOutputsOnce ==
    ASSUME \A g \in Groups : RunsDense(g) /\ WholeDense(g)
    PROVE  Spec => []OutputsOnce
<1>1. \A g \in Groups : IsFiniteSet(Wanted(g[1], g[2])) /\ OwnedOnce(g[1], g[2])
  BY DenseOwned
<1> QED
  BY <1>1, OwnersDecideOutputs
-----------------------------------------------------------------------------
\* The kernels of run_moe_gemm that compute tiles.
MoeTiled == {"moe_v5", "moe_v6", "moe_tiled_v5", "moe_tiled_v6", "silu_v5", "silu_v6", "swmmac", "swmmac_int4",
             "swmmac_tiled"}
MoeGrid(l) == Grid(Ceil(l.N, MoeBN), l.P \div l.bm)

MoeNumbers(l) ==
    /\ l.T \in Nat /\ l.top_k \in Nat /\ l.N \in Nat /\ l.G \in Nat \ {0} /\ l.P \in Nat
    /\ l.bm \in Nat \ {0} /\ l.fit \in Nat \ {0} /\ l.gtile \in Int /\ l.valid \in 0 .. l.P
    /\ Dim \in Nat \ {0} /\ MoeBN \in Nat \ {0} /\ MaxWarps \in Nat \ {0}

\* The numbers of a launch are what the kernels take them for.
LEMMA MoeNumbersAre == ASSUME NEW l, IsMoeLaunch(l) PROVE MoeNumbers(l)
BY TileAssumption, MoeAssumption DEF IsMoeLaunch, MoeNumbers

\* A slot has one row: different rows are stored at different places.
SamePlace(l, r, c, s, d) == Place(l, r, c) = Place(l, s, d)
HasSlot(l, r) == r \in 0 .. l.P - 1 /\ l.sti[r] \in Slots(l)

\* Rows that have a slot are stored at places of their own.
LEMMA PlaceIsOne ==
    ASSUME NEW l, IsMoeLaunch(l), NEW r, NEW s, HasSlot(l, r), HasSlot(l, s), NEW c, NEW d, SamePlace(l, r, c, s, d)
    PROVE  r = s /\ c = d
<1>1. l.sti[r] = l.sti[s] => r = s
  BY DEF IsMoeLaunch, HasSlot
<1>2. CASE l.scatter
  <2> PICK x, y, p, q : x = l.sti[r] /\ y = l.sti[s] /\ p = x \div l.top_k /\ q = y \div l.top_k
    OBVIOUS
  <2>1. <<p, c, x>> = <<q, d, y>>
    BY <1>2 DEF SamePlace, Place
  <2> QED
    BY <1>1, <2>1
<1>3. CASE ~l.scatter
  <2>1. <<r, c>> = <<s, d>>
    BY <1>3 DEF SamePlace, Place
  <2> QED
    BY <2>1
<1> QED
  BY <1>2, <1>3

\* A row of fragments is shared by one, two or four waves.
LEMMA WarpsAre ==
    ASSUME NEW k, NEW l, IsMoeLaunch(l)
    PROVE  WarpsN(k, l) \in {1, 2, 4}
BY DEF WarpsN

\* A tile is bm rows in fragments and MoeBN columns shared by WarpsN waves.
LEMMA MoeFragments ==
    ASSUME NEW k, NEW l, IsMoeLaunch(l)
    PROVE  /\ Fragments(l.bm, l.bm \div Dim, Dim)
           /\ Fragments(MoeBN, WarpsN(k, l), MoeBN \div WarpsN(k, l))
<1> PICK bm, bn, n, d, most : /\ bm = l.bm /\ bn = MoeBN /\ n = WarpsN(k, l) /\ d = Dim
                              /\ most = Least(MaxWarps \div (bm \div d), bn \div d)
  OBVIOUS
<1>1. /\ bm \in Nat \ {0} /\ bn \in Nat \ {0} /\ n \in {1, 2, 4} /\ d \in Nat \ {0} /\ bm % d = 0
      /\ d <= bn /\ \A i \in {1, 2, 4} : i * d <= bn => bn % (i * d) = 0
  BY MoeNumbersAre, MoeAssumption, WarpsAre DEF MoeNumbers, IsMoeLaunch
<1>2. Fragments(bm, bm \div d, d)
  BY <1>1, RowFragments DEF Divides
<1>3. n * d <= bn
  <2>1. PICK f \in Nat, r \in Nat : f = bn \div d /\ bn = d * f + r
    <3>1. bn = d * (bn \div d) + (bn % d) /\ bn \div d \in Nat /\ bn % d \in 0 .. d - 1
      <4>1. bn \in Nat /\ d \in Nat \ {0}
        BY <1>1
      <4> QED
        BY <4>1, Division
    <3> QED
      BY <3>1
  <2>2. n = 1 \/ n <= f
    <3>1. MaxWarps \div (bm \div d) \in Nat
      <4>1. bm \div d \in Nat \ {0} /\ MaxWarps \in Nat
        BY <1>2, MoeAssumption DEF Fragments
      <4> QED
        BY <4>1, Division
    <3>2. most \in Nat /\ most <= f
      <4>1. PICK e \in Nat : e = MaxWarps \div (bm \div d)
        BY <3>1
      <4> QED
        BY <2>1, <4>1 DEF Least
    <3>3. n = 1 \/ (n = 4 /\ most >= 4) \/ (n = 2 /\ most >= 2)
      BY DEF WarpsN
    <3> QED
      BY <3>2, <3>3
  <2>3. CASE n = 1
    BY <1>1, <2>3
  <2>4. CASE n <= f
    <3>1. n * d <= f * d
      <4>1. n = f \/ n < f
        BY <1>1, <2>1, <2>4
      <4> QED
        BY <1>1, <2>1, <4>1, Scaled
    <3>2. PICK x \in Nat, y \in Nat : x = n * d /\ y = f * d /\ d * f = y
      BY <1>1, <2>1
    <3> QED
      BY <1>1, <2>1, <3>1, <3>2
  <2> QED
    BY <2>2, <2>3, <2>4
<1>4. Fragments(bn, n, bn \div n)
  <2>1. n \in Nat \ {0} /\ d * n = n * d
    BY <1>1
  <2>2. Divides(d * n, bn)
    BY <1>1, <1>3, <2>1 DEF Divides
  <2> QED
    BY <1>1, <2>1, <2>2, ColumnFragments
<1> QED
  BY <1>2, <1>4

InGrid(l, b) == b = <<b[1], b[2]>> /\ b[1] \in 0 .. Ceil(l.N, MoeBN) - 1 /\ b[2] \in 0 .. (l.P \div l.bm) - 1
                /\ b[1] \in Nat /\ b[2] \in Nat

\* A block's coordinates are in range.
LEMMA MoeBlockIs ==
    ASSUME NEW l, IsMoeLaunch(l), NEW b, b \in MoeGrid(l)
    PROVE  InGrid(l, b)
<1> PICK n, m : n = Ceil(l.N, MoeBN) /\ m = l.P \div l.bm
  OBVIOUS
<1>1. l.N \in Nat /\ l.P \in Nat /\ l.bm \in Nat \ {0} /\ MoeBN \in Nat \ {0}
  BY MoeNumbersAre DEF MoeNumbers
<1>2. n \in Nat /\ m \in Nat
  BY <1>1, CeilCovers, Division
<1>3. PICK x \in 0 .. n - 1, y \in 0 .. m - 1 : b = <<x, y>>
  BY DEF MoeGrid, Grid
<1> QED
  BY <1>2, <1>3 DEF InGrid

\* The rows of a block are rows.
LEMMA RowsFit ==
    ASSUME NEW p \in Nat, NEW s \in Nat \ {0}, NEW y \in 0 .. (p \div s) - 1, NEW x, x \in Span(0, y, s)
    PROVE  x \in 0 .. p - 1
<1>1. PICK q \in Nat, r \in 0 .. s - 1 : q = p \div s /\ p = s * q + r
  <2>1. p = s * (p \div s) + (p % s) /\ p % s \in 0 .. s - 1 /\ p \div s \in Nat
    BY Division
  <2> QED
    BY <2>1
<1>2. PICK a \in Nat, b \in Nat : a = y * s /\ b = q * s /\ a + s <= b
  <2>1. y \in Nat /\ y < q
    BY <1>1
  <2> QED
    BY <1>1, <2>1, Scaled
<1>3. s * q = b
  BY <1>1, <1>2
<1> QED
  BY <1>1, <1>2, <1>3 DEF Span

MoeWave(k, l, w) ==
    /\ w \in Nat /\ w \div WarpsN(k, l) \in 0 .. (l.bm \div Dim) - 1 /\ w % WarpsN(k, l) \in 0 .. WarpsN(k, l) - 1

\* A wave has a row of fragments and a share of the columns.
LEMMA MoeWaveIs ==
    ASSUME NEW k, NEW l, IsMoeLaunch(l), NEW w \in MoeTileWaves(k, l)
    PROVE  MoeWave(k, l, w)
<1> PICK n, m : n = WarpsN(k, l) /\ m = l.bm \div Dim
  OBVIOUS
<1>1. n \in Nat \ {0} /\ m \in Nat
  BY MoeFragments DEF Fragments
<1>2. w \in 0 .. m * n - 1 /\ m * n \in Nat
  BY <1>1 DEF MoeTileWaves
<1>3. w \in Nat
  BY <1>2
<1> QED
  BY <1>1, <1>2, <1>3, WaveIs DEF MoeWave

\* What a wave computes: one fragment of rows, its share of the columns.
RowSpan(k, l, b, w) == Span(b[2] * l.bm, w \div WarpsN(k, l), Dim)
ColumnSpan(k, l, b, w) == Span(b[1] * MoeBN, w % WarpsN(k, l), MoeBN \div WarpsN(k, l))

\* The rows and the columns of a wave are spans of the block's.
LEMMA MoeRowsAre ==
    ASSUME NEW k, NEW l, IsMoeLaunch(l), NEW b, b \in MoeGrid(l), NEW w \in MoeTileWaves(k, l)
    PROVE  /\ MoeRows(k, l, b, w) = RowSpan(k, l, b, w)
           /\ MoeRows(k, l, b, w) \subseteq 0 .. l.P - 1
           /\ MoeRows(k, l, b, w) \subseteq Span(0, b[2], l.bm)
           /\ MoeColumns(k, l, b, w) = {c \in ColumnSpan(k, l, b, w) : c < l.N}
<1>1. MoeRows(k, l, b, w) = RowSpan(k, l, b, w)
  BY DEF MoeRows, RowSpan, Span
<1>2. MoeColumns(k, l, b, w) = {c \in ColumnSpan(k, l, b, w) : c < l.N}
  BY DEF MoeColumns, ColumnSpan, Span
<1> PICK s, d, m, i : s = l.bm /\ d = Dim /\ m = s \div d /\ i = w \div WarpsN(k, l)
  OBVIOUS
<1>3. /\ s \in Nat \ {0} /\ d \in Nat \ {0} /\ m \in Nat /\ s = m * d /\ i \in 0 .. m - 1
      /\ l.P \in Nat /\ b[2] \in Nat /\ b[2] \in 0 .. (l.P \div s) - 1
  BY MoeFragments, MoeWaveIs, MoeBlockIs, MoeNumbersAre DEF Fragments, MoeWave, InGrid, MoeNumbers
<1>4. ASSUME NEW r \in RowSpan(k, l, b, w) PROVE r \in Span(0, b[2], s)
  <2>1. i * d + d <= m * d /\ i * d \in Nat /\ m * d \in Nat
    BY <1>3, Scaled
  <2>2. PICK y \in Nat, z \in Nat : y = b[2] * s /\ z = i * d
    BY <1>3
  <2>3. r \in y + z .. y + z + d - 1
    BY <2>2 DEF RowSpan, Span
  <2> QED
    BY <1>3, <2>1, <2>2, <2>3 DEF Span
<1>5. ASSUME NEW r \in RowSpan(k, l, b, w) PROVE r \in 0 .. l.P - 1
  BY <1>3, <1>4, <1>5, RowsFit
<1> QED
  BY <1>1, <1>2, <1>4, <1>5

Stands(S, l, R, C) == \A p : p \in S <=> \E r \in R, c \in C : HasSlot(l, r) /\ p = Place(l, r, c)

\* What a patch of rows and columns stores.
LEMMA PlacesIs ==
    ASSUME NEW l, NEW R, R \subseteq 0 .. l.P - 1, NEW C
    PROVE  Stands(Places(l, R, C), l, R, C)
<1>1. \A r \in R : HasSlot(l, r) <=> l.sti[r] \in Slots(l)
  BY DEF HasSlot
<1> QED
  BY <1>1 DEF Places, Stands

\* Different rows or different columns: different places.
LEMMA PatchesApart ==
    ASSUME NEW l, IsMoeLaunch(l), NEW Q, Q \subseteq 0 .. l.P - 1, NEW R, R \subseteq 0 .. l.P - 1, NEW C, NEW D,
           Q \cap R = {} \/ C \cap D = {}
    PROVE  Places(l, Q, C) \cap Places(l, R, D) = {}
<1> SUFFICES ASSUME NEW p, p \in Places(l, Q, C), p \in Places(l, R, D) PROVE FALSE
  OBVIOUS
<1>0. Stands(Places(l, Q, C), l, Q, C) /\ Stands(Places(l, R, D), l, R, D)
  BY PlacesIs
<1>1. PICK q \in Q, c \in C : HasSlot(l, q) /\ p = Place(l, q, c)
  BY <1>0 DEF Stands
<1>2. PICK r \in R, d \in D : HasSlot(l, r) /\ p = Place(l, r, d)
  BY <1>0 DEF Stands
<1>3. SamePlace(l, q, c, r, d)
  BY <1>1, <1>2 DEF SamePlace
<1>4. q = r /\ c = d
  BY ONLY <1>1, <1>2, <1>3, IsMoeLaunch(l), PlaceIsOne
<1> QED
  BY <1>4

MoePatch(k, l, b, w) == Places(l, MoeRows(k, l, b, w), MoeColumns(k, l, b, w))

\* Two waves of a block store at different places.
LEMMA MoePatchesApart ==
    ASSUME NEW k, NEW l, IsMoeLaunch(l), NEW b, b \in MoeGrid(l),
           NEW v \in MoeTileWaves(k, l), NEW w \in MoeTileWaves(k, l), v # w
    PROVE  MoePatch(k, l, b, v) \cap MoePatch(k, l, b, w) = {}
<1> PICK n, m, d, bn, e : n = WarpsN(k, l) /\ m = l.bm /\ d = Dim /\ bn = MoeBN /\ e = bn \div n
  OBVIOUS
<1>1. n \in Nat \ {0} /\ d \in Nat /\ e \in Nat /\ m \in Nat /\ bn \in Nat
  BY MoeFragments DEF Fragments
<1>2. MoeWave(k, l, v) /\ MoeWave(k, l, w)
  BY MoeWaveIs
<1>3. v \in Nat /\ w \in Nat
  BY <1>2 DEF MoeWave
<1> PICK qv, rv, qw, rw : qv = v \div n /\ rv = v % n /\ qw = w \div n /\ rw = w % n
  OBVIOUS
<1>4. qv \in Nat /\ rv \in Nat /\ qw \in Nat /\ rw \in Nat /\ (qv # qw \/ rv # rw)
  BY <1>1, <1>3, PlacesDiffer
<1>5. PICK x \in Nat, y \in Nat : x = b[2] * m /\ y = b[1] * bn
  BY <1>1, MoeBlockIs DEF InGrid
<1>6. qv # qw => MoeRows(k, l, b, v) \cap MoeRows(k, l, b, w) = {}
  <2>1. qv # qw => Span(x, qv, d) \cap Span(x, qw, d) = {}
    BY <1>1, <1>4, SpansApart
  <2> QED
    BY <1>5, <2>1, MoeRowsAre DEF RowSpan
<1>7. rv # rw => MoeColumns(k, l, b, v) \cap MoeColumns(k, l, b, w) = {}
  <2>1. rv # rw => Span(y, rv, e) \cap Span(y, rw, e) = {}
    BY <1>1, <1>4, SpansApart
  <2> QED
    BY <1>5, <2>1, MoeRowsAre DEF ColumnSpan
<1>8. MoeRows(k, l, b, v) \subseteq 0 .. l.P - 1 /\ MoeRows(k, l, b, w) \subseteq 0 .. l.P - 1
  BY MoeRowsAre
<1> QED
  BY <1>4, <1>6, <1>7, <1>8, PatchesApart DEF MoePatch

\* The epilogue needs no barrier.
LEMMA MoeEpilogueEnds ==
    ASSUME NEW k, NEW l, IsMoeLaunch(l), NEW b, b \in MoeGrid(l), NEW x, NEW K
    PROVE  Ending(MoeTileWaves(k, l), [w \in MoeTileWaves(k, l) |-> MoeEpilogue(k, l, b, w, x)], K, {})
<1> PICK W : W = MoeTileWaves(k, l)
  OBVIOUS
<1> DEFINE O == [w \in W |-> {}]
           P == [w \in W |-> MoePatch(k, l, b, w)]
           V == Outputs(W, P, x)
           t == [w \in W |-> MoeEpilogue(k, l, b, w, x)]
<1>1. Stages(W, t, O, V)
  <2>1. \A w \in W : t[w] = Do(O[w], V[w])
    BY DEF MoeEpilogue, MoePatch, Outputs
  <2>2. DOMAIN t = W
    OBVIOUS
  <2> HIDE DEF t, V, O
  <2> QED
    BY <2>1, <2>2, StageDo DEF Stages
<1>2. Team(W, O, V, K, {})
  <2>1. Distinct(W, P)
    BY MoePatchesApart DEF Distinct
  <2>2. Reads(W, O, K)
    BY NothingIsOff DEF Reads
  <2> HIDE DEF P, O
  <2> QED
    BY <2>1, <2>2, Storing
<1> HIDE DEF V, t, O
<1> QED
  BY <1>1, <1>2, TeamEnding DEF t
-----------------------------------------------------------------------------
\* A block past the valid rows returns before its first barrier, with all its waves.
LEMMA BusyProper ==
    ASSUME NEW l, NEW b, NEW W, NEW c, Proper(W, c), CodeOn(W, c)
    PROVE  Proper(W, [w \in W |-> Busy(l, b, c[w])])
<1> DEFINE d == [w \in W |-> Busy(l, b, c[w])]
<1>1. CASE b[2] * l.bm >= l.valid
  <2>1. d = [w \in W |-> <<>>]
    BY <1>1 DEF Busy
  <2> HIDE DEF d
  <2>2. Part(W, d, {}, {})
    BY <2>1, NothingIsPart
  <2> QED
    BY <2>2, PartIsEnding DEF d, Proper
<1>2. CASE ~(b[2] * l.bm >= l.valid)
  <2>1. d = [w \in W |-> c[w]]
    BY <1>2 DEF Busy
  <2>2. c = [w \in W |-> c[w]]
    BY DEF CodeOn
  <2> HIDE DEF d
  <2> QED
    BY <2>1, <2>2 DEF d
<1> QED
  BY <1>1, <1>2

\* A loop over the K groups, then the epilogue, in the blocks that have valid rows.
BusyTexts(k, l, b, W, a, x) == [w \in W |-> Busy(l, b, a[w] \o MoeEpilogue(k, l, b, w, x))]

\* A part, then the epilogue, is a whole kernel.
LEMMA BusyThenStore ==
    ASSUME NEW k, NEW l, IsMoeLaunch(l), NEW b, b \in MoeGrid(l), NEW a, NEW x,
           Part(MoeTileWaves(k, l), a, {}, {})
    PROVE  Proper(MoeTileWaves(k, l), BusyTexts(k, l, b, MoeTileWaves(k, l), a, x))
<1> PICK W : W = MoeTileWaves(k, l)
  OBVIOUS
<1> DEFINE t == [w \in W |-> MoeEpilogue(k, l, b, w, x)]
           c == Cat(a, t)
<1>1. Ending(W, t, {}, {})
  BY MoeEpilogueEnds
<1>2. DOMAIN a = W
  BY DEF Part
<1>3. c = [w \in W |-> a[w] \o MoeEpilogue(k, l, b, w, x)]
  BY <1>2 DEF Cat
<1>4. CodeOn(W, c)
  BY <1>3 DEF CodeOn
<1>5. \A w \in W : c[w] = a[w] \o MoeEpilogue(k, l, b, w, x)
  BY <1>3
<1> HIDE DEF t, c
<1>6. Proper(W, c)
  BY <1>1, PartThenEnding DEF Proper, c
<1>7. Proper(W, [w \in W |-> Busy(l, b, c[w])])
  BY <1>4, <1>6, BusyProper
<1>8. [w \in W |-> Busy(l, b, c[w])] = BusyTexts(k, l, b, W, a, x)
  BY <1>5 DEF BusyTexts
<1> QED
  BY <1>7, <1>8

\* The loops over the K groups are parts, however many are staged at once.
LEMMA StagedAreParts ==
    ASSUME NEW l, IsMoeLaunch(l), NEW W, NEW bufs
    PROVE  /\ Part(W, [w \in W |-> Serial(bufs, w, W, 0, l.G, {})], {}, {})
           /\ Part(W, [w \in W |-> Grouped(bufs, w, W, 0, l.G, GroupsStaged(l))], {}, {})
<1> PICK g0, n : g0 = 0 /\ n = GroupsStaged(l)
  OBVIOUS
<1>1. l.G \in Nat \ {0} /\ l.fit \in Nat \ {0} /\ l.gtile \in Int
  BY MoeNumbersAre DEF MoeNumbers
<1>2. n \in Nat \ {0} /\ g0 \in Nat /\ g0 <= l.G
  BY <1>1 DEF GroupsStaged, Least
<1>3. Part(W, [w \in W |-> Serial(bufs, w, W, g0, l.G, {})], {}, {})
  <2>1. Off({}, bufs, 0)
    BY NothingIsOff
  <2> QED
    BY <1>1, <1>2, <2>1, SerialIsPart
<1>4. Part(W, [w \in W |-> Grouped(bufs, w, W, g0, l.G, n)], {}, {})
  BY <1>1, <1>2, GroupedIsPart
<1> QED
  BY <1>3, <1>4

\* The kernels that stage A and B, or B alone.
LEMMA StagedProper ==
    ASSUME NEW k, NEW l, IsMoeLaunch(l), NEW b, b \in MoeGrid(l)
    PROVE  /\ Proper(MoeTileWaves(k, l), [w \in MoeTileWaves(k, l) |-> StagedAB(k, l, b, w)])
           /\ Proper(MoeTileWaves(k, l), [w \in MoeTileWaves(k, l) |-> StagedB(k, l, b, w)])
<1> PICK W, x, n : W = MoeTileWaves(k, l) /\ x = 0 .. l.G - 1 /\ n = GroupsStaged(l)
  OBVIOUS
<1> DEFINE a == [w \in W |-> Serial(AB, w, W, 0, l.G, {})]
           c == [w \in W |-> Grouped({"B_tile"}, w, W, 0, l.G, n)]
<1>1. Part(W, a, {}, {}) /\ Part(W, c, {}, {})
  BY StagedAreParts
<1>2. BusyTexts(k, l, b, W, a, x) = [w \in W |-> StagedAB(k, l, b, w)]
  BY DEF BusyTexts, StagedAB
<1>3. BusyTexts(k, l, b, W, c, x) = [w \in W |-> StagedB(k, l, b, w)]
  BY DEF BusyTexts, StagedB
<1> HIDE DEF a, c
<1> QED
  BY <1>1, <1>2, <1>3, BusyThenStore

\* The kernels that apply the activation to what they staged.
LEMMA SiluProper ==
    ASSUME NEW l, IsMoeLaunch(l), NEW b, b \in MoeGrid(l)
    PROVE  /\ Proper(MoeTileWaves("silu_v5", l), [w \in MoeTileWaves("silu_v5", l) |-> SiluV5(l, b, w)])
           /\ Proper(MoeTileWaves("silu_v6", l), [w \in MoeTileWaves("silu_v6", l) |-> SiluV6(l, b, w)])
<1> PICK k, m, V, W, x, n : /\ k = "silu_v5" /\ m = "silu_v6" /\ V = MoeTileWaves(k, l) /\ W = MoeTileWaves(m, l)
                            /\ x = GateUp(l) /\ n = GroupsStaged(l)
  OBVIOUS
<1> DEFINE a == [w \in V |-> Serial({"A_tile", "Bg_tile", "Bu_tile"}, w, V, 0, l.G, {})]
           c == [w \in W |-> Grouped({"Bg", "Bu"}, w, W, 0, l.G, n)]
<1>1. Part(V, a, {}, {}) /\ Part(W, c, {}, {})
  BY StagedAreParts
<1>2. BusyTexts(k, l, b, V, a, x) = [w \in V |-> SiluV5(l, b, w)]
  BY DEF BusyTexts, SiluV5
<1>3. BusyTexts(m, l, b, W, c, x) = [w \in W |-> SiluV6(l, b, w)]
  BY DEF BusyTexts, SiluV6
<1> HIDE DEF a, c
<1>4. Proper(V, BusyTexts(k, l, b, V, a, x)) /\ Proper(W, BusyTexts(m, l, b, W, c, x))
  BY <1>1, BusyThenStore
<1> QED
  BY <1>2, <1>3, <1>4

\* The kernels without local memory.
LEMMA SparseProper ==
    ASSUME NEW k, NEW l, IsMoeLaunch(l), NEW b, b \in MoeGrid(l)
    PROVE  Proper(MoeTileWaves(k, l), [w \in MoeTileWaves(k, l) |-> Sparse(k, l, b, w)])
<1> PICK W, x : W = MoeTileWaves(k, l) /\ x = 0 .. l.G - 1
  OBVIOUS
<1> DEFINE t == [w \in W |-> MoeEpilogue(k, l, b, w, x)]
<1>1. Ending(W, t, {}, {})
  BY MoeEpilogueEnds
<1>2. CodeOn(W, t)
  BY DEF CodeOn
<1>3. [w \in W |-> Busy(l, b, t[w])] = [w \in W |-> Sparse(k, l, b, w)]
  BY DEF Sparse
<1> HIDE DEF t
<1> QED
  BY <1>1, <1>2, <1>3, BusyProper DEF Proper
-----------------------------------------------------------------------------
\* Waves that store one place each behind a guard, in parts of their own.
LEMMA OwnStores ==
    ASSUME NEW W, NEW V, \A v, w \in W : v # w => CellsOf(V[v]) \cap CellsOf(V[w]) = {}
    PROVE  Team(W, [w \in W |-> {}], V, {}, {})
<1> DEFINE O == [w \in W |-> {}]
<1>1. \A w \in W : O[w] = {}
  OBVIOUS
<1> HIDE DEF O
<1>2. Team(W, O, V, {}, {})
  BY <1>1, CellsOfNone DEF Team
<1> QED
  BY <1>2 DEF O

\* The quantiser of the activations, with one row for every slot.
LEMMA MoeQuantProper ==
    ASSUME NEW l, NEW b
    PROVE  Proper(QuantWaves, [w \in QuantWaves |-> MoeActQuant(l, b, w)])
<1> PICK m : m = [M |-> ActRows(l), N |-> l.G]
  OBVIOUS
<1>1. Ending(QuantWaves, [w \in QuantWaves |-> ActQuant(m, b, w)], {}, {})
  BY TileAssumption, QuantEnds
<1>2. \A w : MoeActQuant(l, b, w) = ActQuant(m, b, w)
  BY DEF MoeActQuant
<1> QED
  BY <1>1, <1>2 DEF Proper

MoeV0Row(b, w) == b[2] * Square + (w \div Square)
MoeV0Column(b, w) == b[1] * Square + (w % Square)

\* Two threads of v0 have different rows or columns.
LEMMA MoeV0Apart ==
    ASSUME NEW b, b[1] \in Nat, b[2] \in Nat, NEW v \in Nat, NEW w \in Nat, v # w
    PROVE  /\ MoeV0Row(b, v) \in Nat /\ MoeV0Row(b, w) \in Nat
           /\ MoeV0Row(b, v) # MoeV0Row(b, w) \/ MoeV0Column(b, v) # MoeV0Column(b, w)
<1> PICK s : s = Square
  OBVIOUS
<1>0. s \in Nat \ {0}
  BY TileAssumption
<1> PICK qv, rv, qw, rw : qv = v \div s /\ rv = v % s /\ qw = w \div s /\ rw = w % s
  OBVIOUS
<1>1. qv \in Nat /\ rv \in Nat /\ qw \in Nat /\ rw \in Nat /\ (qv # qw \/ rv # rw)
  BY <1>0, PlacesDiffer
<1>2. PICK x \in Nat, y \in Nat : x = b[2] * s /\ y = b[1] * s
  BY <1>0
<1>3. /\ MoeV0Row(b, v) = x + qv /\ MoeV0Row(b, w) = x + qw
      /\ MoeV0Column(b, v) = y + rv /\ MoeV0Column(b, w) = y + rw
  BY <1>2 DEF MoeV0Row, MoeV0Column
<1> QED
  BY <1>1, <1>3

\* The kernel with a thread for every output.
LEMMA MoeV0Proper ==
    ASSUME NEW l, IsMoeLaunch(l), NEW b, b[1] \in Nat, b[2] \in Nat, NEW W, W \subseteq Nat
    PROVE  Proper(W, [w \in W |-> MoeV0(l, b, w)])
<1> DEFINE yes == [w \in W |-> ~(MoeV0Column(b, w) >= l.N \/ ~IsRouted(l, MoeV0Row(b, w)))]
           P == [w \in W |-> {Place(l, MoeV0Row(b, w), MoeV0Column(b, w))}]
<1>1. ASSUME NEW v \in W, NEW w \in W, v # w PROVE Kept(yes[v], P[v]) \cap Kept(yes[w], P[w]) = {}
  <2> PICK q, c, r, d : /\ q = MoeV0Row(b, v) /\ c = MoeV0Column(b, v)
                        /\ r = MoeV0Row(b, w) /\ d = MoeV0Column(b, w)
    OBVIOUS
  <2>1. q \in Nat /\ r \in Nat /\ (q # r \/ c # d)
    BY <1>1, MoeV0Apart
  <2>2. P[v] = {Place(l, q, c)} /\ P[w] = {Place(l, r, d)}
    OBVIOUS
  <2>3. (yes[v] => IsRouted(l, q)) /\ (yes[w] => IsRouted(l, r))
    OBVIOUS
  <2> HIDE DEF P, yes
  <2>4. ASSUME yes[v], yes[w] PROVE Place(l, q, c) # Place(l, r, d)
    <3>1. l.valid \in 0 .. l.P /\ l.P \in Nat
      BY MoeNumbersAre DEF MoeNumbers
    <3>2. HasSlot(l, q) /\ HasSlot(l, r)
      BY <2>1, <2>3, <2>4, <3>1 DEF HasSlot, IsRouted
    <3>3. ~SamePlace(l, q, c, r, d)
      BY <2>1, <3>2, PlaceIsOne
    <3> QED
      BY <3>3 DEF SamePlace
  <2> QED
    BY <2>2, <2>4 DEF Kept
<1>2. KeptApart(W, yes, P)
  <2>1. \A w \in W : yes[w] \in BOOLEAN
    OBVIOUS
  <2> HIDE DEF yes, P
  <2> QED
    BY <1>1, <2>1 DEF KeptApart
<1>3. [w \in W |-> MoeV0(l, b, w)] = Stored(W, yes, P, 0 .. l.G - 1)
  <2> HIDE DEF IsRouted
  <2>1. ASSUME NEW w \in W PROVE MoeV0(l, b, w) = MayStore(yes[w], P[w], 0 .. l.G - 1)
    BY DEF MoeV0, MayStore, MoeV0Row, MoeV0Column
  <2> HIDE DEF yes, P
  <2> QED
    BY <2>1 DEF Stored
<1> HIDE DEF yes, P
<1>4. Ending(W, Stored(W, yes, P, 0 .. l.G - 1), {}, {})
  BY <1>2, StoresEnd
<1> QED
  BY <1>3, <1>4 DEF Proper
-----------------------------------------------------------------------------
ActSpot(b, w) == b[1] * ActWaves + w

\* Threads of a line have different numbers.
LEMMA ActSpotsDiffer ==
    ASSUME NEW b, b[1] \in Nat, NEW v \in Nat, NEW w \in Nat, v # w
    PROVE  ActSpot(b, v) \in Nat /\ ActSpot(b, w) \in Nat /\ ActSpot(b, v) # ActSpot(b, w)
<1>1. PICK x \in Nat : x = b[1] * ActWaves
  BY TileAssumption
<1> QED
  BY <1>1 DEF ActSpot

\* A thread adds up the rows of one token's column.
LEMMA GatherProper ==
    ASSUME NEW l, IsMoeLaunch(l), NEW b, b[1] \in Nat, NEW W, W \subseteq Nat
    PROVE  Proper(W, [w \in W |-> GatherReduce(l, b, w)])
<1> PICK x : x = {s \in b[2] * l.top_k .. b[2] * l.top_k + l.top_k - 1 : SlotToRow(l)[s] >= 0}
  OBVIOUS
<1> DEFINE yes == [w \in W |-> ActSpot(b, w) < l.N]
           P == [w \in W |-> {<<b[2], ActSpot(b, w)>>}]
<1>1. ASSUME NEW v \in W, NEW w \in W, v # w PROVE Kept(yes[v], P[v]) \cap Kept(yes[w], P[w]) = {}
  <2>1. ActSpot(b, v) # ActSpot(b, w)
    BY <1>1, ActSpotsDiffer
  <2>2. P[v] \cap P[w] = {}
    BY <2>1
  <2> HIDE DEF P, yes
  <2> QED
    BY <2>2 DEF Kept
<1>2. KeptApart(W, yes, P)
  <2>1. \A w \in W : yes[w] \in BOOLEAN
    OBVIOUS
  <2> HIDE DEF yes, P
  <2> QED
    BY <1>1, <2>1 DEF KeptApart
<1>3. [w \in W |-> GatherReduce(l, b, w)] = Stored(W, yes, P, x)
  BY DEF GatherReduce, MayStore, Stored, ActSpot
<1> HIDE DEF yes, P
<1>4. Ending(W, Stored(W, yes, P, x), {}, {})
  BY <1>2, StoresEnd
<1> QED
  BY <1>3, <1>4 DEF Proper

MapCells(l, r) == IF r < l.P /\ IsRouted(l, r) THEN {<<"out", <<l.sti[r]>>>>} ELSE {}
MapWrites(l, r) == IF r < l.P /\ IsRouted(l, r) THEN Result({<<l.sti[r]>>}, {r}) ELSE {}

\* A thread of the inverse map writes the slot its row has, if it has one.
LEMMA MapWritesIs ==
    ASSUME NEW l, NEW b, NEW w
    PROVE  /\ Stage(InverseMap(l, b, w), {}, MapWrites(l, ActSpot(b, w)))
           /\ CellsOf(MapWrites(l, ActSpot(b, w))) = MapCells(l, ActSpot(b, w))
<1> PICK r, x, p : r = ActSpot(b, w) /\ x = Result({<<l.sti[r]>>}, {r}) /\ p = {<<"out", <<l.sti[r]>>>>}
  OBVIOUS
<1>0. CellsOf(x) = p
  BY CellsOfResult
<1>1. CASE r < l.P /\ IsRouted(l, r)
  <2>1. InverseMap(l, b, w) = Do({}, x)
    BY <1>1 DEF InverseMap, ActSpot
  <2>2. MapWrites(l, r) = x /\ MapCells(l, r) = p
    BY <1>1 DEF MapWrites, MapCells
  <2> QED
    BY <1>0, <2>1, <2>2, StageDo
<1>2. CASE ~(r < l.P /\ IsRouted(l, r))
  <2>1. InverseMap(l, b, w) = <<>>
    BY <1>2 DEF InverseMap, ActSpot
  <2>2. MapWrites(l, r) = {} /\ MapCells(l, r) = {}
    BY <1>2 DEF MapWrites, MapCells
  <2> QED
    BY <2>1, <2>2, StageNothing, CellsOfNone
<1> QED
  BY <1>1, <1>2

\* Rows have different slots: no two threads write one.
LEMMA InverseMapProper ==
    ASSUME NEW l, IsMoeLaunch(l), NEW b, b[1] \in Nat, NEW W, W \subseteq Nat
    PROVE  Proper(W, [w \in W |-> InverseMap(l, b, w)])
<1> DEFINE t == [w \in W |-> InverseMap(l, b, w)]
           O == [w \in W |-> {}]
           V == [w \in W |-> MapWrites(l, ActSpot(b, w))]
<1>1. Stages(W, t, O, V)
  BY MapWritesIs DEF Stages
<1>2. ASSUME NEW v \in W, NEW w \in W, v # w PROVE CellsOf(V[v]) \cap CellsOf(V[w]) = {}
  <2> PICK q, r : q = ActSpot(b, v) /\ r = ActSpot(b, w)
    OBVIOUS
  <2>1. q \in Nat /\ r \in Nat /\ q # r
    BY <1>2, ActSpotsDiffer
  <2>2. CellsOf(V[v]) = MapCells(l, q) /\ CellsOf(V[w]) = MapCells(l, r)
    BY MapWritesIs
  <2> HIDE DEF V
  <2>3. ASSUME q < l.P, IsRouted(l, q), r < l.P, IsRouted(l, r) PROVE l.sti[q] # l.sti[r]
    <3>1. q \in 0 .. l.P - 1 /\ r \in 0 .. l.P - 1
      BY <2>1, <2>3, MoeNumbersAre DEF MoeNumbers
    <3> QED
      BY <2>1, <2>3, <3>1 DEF IsMoeLaunch, IsRouted
  <2>4. MapCells(l, q) \cap MapCells(l, r) = {}
    BY <2>3 DEF MapCells
  <2> QED
    BY <2>2, <2>4
<1> HIDE DEF t, O, V
<1>3. Team(W, O, V, {}, {})
  BY <1>2, OwnStores DEF O
<1> QED
  BY <1>1, <1>3, TeamEnding DEF t, Proper
-----------------------------------------------------------------------------
\* The waves stage, meet, then read everything and store.
LEMMA ReadThenStore ==
    ASSUME NEW W, NEW R, NEW P, NEW x, NEW c,
           c = [w \in W |-> Do(R, {}) \o Do({}, Result(P[w], x))], Inside(R), Distinct(W, P)
    PROVE  Ending(W, c, R, {})
<1> DEFINE Q == [w \in W |-> R]
           V == Outputs(W, P, x)
<1>1. ASSUME NEW w \in W PROVE Stage(c[w], Q[w], V[w])
  <2> PICK y : y = Result(P[w], x)
    OBVIOUS
  <2>1. Stage(Do(R, {}), R, {}) /\ Stage(Do({}, y), {}, y)
    BY StageDo
  <2>2. Apiece({}, {}, y)
    BY CellsOfNone DEF Apiece
  <2>3. Stage(Do(R, {}) \o Do({}, y), R \cup {}, {} \cup y)
    BY ONLY <2>1, <2>2, StageThen
  <2>4. R \cup {} = R /\ {} \cup y = y
    OBVIOUS
  <2>5. c[w] = Do(R, {}) \o Do({}, y) /\ Q[w] = R /\ V[w] = y
    BY DEF Outputs
  <2> HIDE DEF Q, V
  <2> QED
    BY <2>3, <2>4, <2>5
<1>2. Stages(W, c, Q, V)
  <2> HIDE DEF Q, V
  <2> QED
    BY <1>1 DEF Stages
<1>3. Team(W, Q, V, R, {})
  <2>1. Reads(W, Q, R)
    BY DEF Reads
  <2> HIDE DEF Q
  <2> QED
    BY <2>1, Storing
<1> HIDE DEF Q, V
<1> QED
  BY <1>2, <1>3, TeamEnding

SparseBufs == {"Wc_lds", "idx_lds"}
SparseRest(l, b, w, W) ==
    Do(AllOf(SparseBufs, 0, W, "weights"), {})
    \o Do({}, Result(MoePatch("swmmac_tiled", l, b, w), 0 .. l.G - 1))
SparseStart(w) == Do({}, OwnOf(SparseBufs, 0, w, "weights"))

\* The waves stage the compressed weights.
LEMMA SparseStartPart ==
    ASSUME NEW W
    PROVE  Part(W, [w \in W |-> SparseStart(w) \o Sync], {}, AllOf(SparseBufs, 0, W, "weights"))
<1> PICK x, bufs, L : x = "weights" /\ bufs = SparseBufs /\ L = AllOf(bufs, 0, W, x)
  OBVIOUS
<1> DEFINE t == [w \in W |-> SparseStart(w)]
           O == [w \in W |-> {}]
           V == [w \in W |-> OwnOf(bufs, 0, w, x)]
<1>1. Stages(W, t, O, V)
  BY StageDo DEF Stages, SparseStart
<1>2. Team(W, O, V, {}, L)
  <2>1. Off({}, bufs, 0)
    BY NothingIsOff
  <2>2. \A w \in W : O[w] \subseteq {} /\ Off(O[w], bufs, 0)
    BY <2>1
  <2>3. L \subseteq {} \cup AllOf(bufs, 0, W, x)
    OBVIOUS
  <2> HIDE DEF O
  <2> QED
    BY <2>1, <2>2, <2>3, Staging
<1>3. [w \in W |-> t[w] \o Sync] = [w \in W |-> SparseStart(w) \o Sync]
  OBVIOUS
<1> HIDE DEF t, O, V
<1>4. Part(W, [w \in W |-> t[w] \o Sync], {}, L)
  BY <1>1, <1>2, TeamPart
<1> QED
  BY <1>3, <1>4

\* The sparse kernel that stages its weights.
LEMMA SwmmacTiledProper ==
    ASSUME NEW l, IsMoeLaunch(l), NEW b, b \in MoeGrid(l)
    PROVE  Proper(MoeTileWaves("swmmac_tiled", l),
                  [w \in MoeTileWaves("swmmac_tiled", l) |-> SwmmacInt4Tiled(l, b, w)])
<1> PICK k, W, L, x : /\ k = "swmmac_tiled" /\ W = MoeTileWaves(k, l)
                      /\ L = AllOf(SparseBufs, 0, W, "weights") /\ x = 0 .. l.G - 1
  OBVIOUS
<1> DEFINE P == [w \in W |-> MoePatch(k, l, b, w)]
           a == [w \in W |-> SparseStart(w) \o Sync]
           t == [w \in W |-> SparseRest(l, b, w, W)]
           c == Cat(a, t)
<1>1. Part(W, a, {}, L)
  BY SparseStartPart
<1>2. Ending(W, t, L, {})
  <2>1. t = [w \in W |-> Do(L, {}) \o Do({}, Result(P[w], x))]
    BY DEF SparseRest
  <2>2. Inside(L)
    <3>1. CellsOf(L) = {<<f, 0, u>> : f \in SparseBufs, u \in W}
      BY CellsOfOwn
    <3>2. ASSUME NEW c0 \in CellsOf(L) PROVE \E f, u : c0 = <<f, 0, u>>
      BY <3>1
    <3> QED
      BY <3>2 DEF Inside
  <2>3. Distinct(W, P)
    BY MoePatchesApart DEF Distinct
  <2> HIDE DEF P, t
  <2> QED
    BY <2>1, <2>2, <2>3, ReadThenStore
<1>3. DOMAIN a = W
  OBVIOUS
<1>4. \A w \in W : c[w] = (SparseStart(w) \o Sync) \o SparseRest(l, b, w, W)
  BY <1>3 DEF Cat
<1>5. CodeOn(W, c)
  BY <1>3 DEF Cat, CodeOn
<1> HIDE DEF a, t, c
<1>6. Proper(W, c)
  BY <1>1, <1>2, PartThenEnding DEF Proper, c
<1>7. Proper(W, [w \in W |-> Busy(l, b, c[w])])
  BY <1>5, <1>6, BusyProper
<1>8. ASSUME NEW w \in W PROVE Busy(l, b, c[w]) = SwmmacInt4Tiled(l, b, w)
  <2> PICK s, d, e : /\ s = SparseStart(w) \o Sync /\ d = Do(L, {})
                     /\ e = Do({}, Result(MoePatch(k, l, b, w), x))
    OBVIOUS
  <2>1. IsText(s) /\ IsText(d) /\ IsText(e)
    BY DoIs, Fence DEF SparseStart
  <2>2. (s \o d) \o e = s \o (d \o e)
    BY ONLY <2>1, TextAssoc
  <2>3. c[w] = s \o (d \o e)
    BY <1>4 DEF SparseRest
  <2>4. SwmmacInt4Tiled(l, b, w) = Busy(l, b, (s \o d) \o e)
    BY DEF SwmmacInt4Tiled, MoeEpilogue, MoePatch, SparseStart, SparseBufs, Own, All
  <2> QED
    BY <2>2, <2>3, <2>4
<1>9. [w \in W |-> Busy(l, b, c[w])] = [w \in W |-> SwmmacInt4Tiled(l, b, w)]
  BY <1>8
<1> QED
  BY <1>7, <1>9
-----------------------------------------------------------------------------
\* gemv_v7: one thread lists the rows, everybody stages, the waves with columns compute.
V7Rows == {<<<<s, 0, 0>>, "rows">> : s \in {"s_src", "s_pad", "s_offs", "s_mreal"}}
V7Waves == 0 .. MoeGemv.waves - 1
V7Columns(l, b, w) ==
    LET c0 == (b[1] * MoeGemv.waves + w) * MoeGemv.cols IN {c \in c0 .. c0 + MoeGemv.cols - 1 : c < l.N}
V7RealRows(l, b) == b[2] * l.bm .. (b[2] + 1) * l.bm - 1
V7Patch(l, b, w) == Places(l, V7RealRows(l, b), V7Columns(l, b, w))
V7Head(w) == IF w = 0 THEN Do({}, V7Rows) ELSE <<>>
V7Read(l, b, w, W, kc) ==
    IF V7Columns(l, b, w) # {} THEN Do(V7Rows \cup All({"v7_a"}, W, kc), {}) ELSE <<>>
V7Body(l, b, w, W, kc) == Do(V7Rows, Own({"v7_a"}, w, kc)) \o Sync \o V7Read(l, b, w, W, kc) \o Sync
V7Loop(l, b, w, W) == Strides(0, l.G, MoeGemv.chunk, LAMBDA kc : V7Body(l, b, w, W, kc))

\* The list of rows is neither an activation nor an output.
LEMMA V7RowsAre == Off(V7Rows, {"v7_a"}, 0) /\ Inside(V7Rows)
<1>1. \A h \in V7Rows : \E s \in {"s_src", "s_pad", "s_offs", "s_mreal"} : h[1] = <<s, 0, 0>>
  BY DEF V7Rows
<1>2. ASSUME NEW c \in CellsOf(V7Rows) PROVE \E s \in {"s_src", "s_pad", "s_offs", "s_mreal"} : c = <<s, 0, 0>>
  BY <1>1 DEF CellsOf
<1>3. Off(V7Rows, {"v7_a"}, 0)
  BY <1>2 DEF Off
<1>4. Inside(V7Rows)
  BY <1>2 DEF Inside
<1> QED
  BY <1>3, <1>4

\* A round stages a chunk of the activations and reads it.
LEMMA V7Round ==
    ASSUME NEW W, NEW l, NEW b, NEW kc
    PROVE  Part(W, [w \in W |-> V7Body(l, b, w, W, kc)], V7Rows, V7Rows)
<1> PICK S, bufs : S = V7Rows /\ bufs = {"v7_a"}
  OBVIOUS
<1> DEFINE L == S \cup AllOf(bufs, 0, W, kc)
           t == [w \in W |-> Do(S, OwnOf(bufs, 0, w, kc))]
           s == [w \in W |-> V7Read(l, b, w, W, kc)]
           O == [w \in W |-> {}]
           R == [w \in W |-> S]
           V == [w \in W |-> OwnOf(bufs, 0, w, kc)]
           Q == [w \in W |-> L]
<1>1. Stages(W, t, R, V)
  BY StageDo DEF Stages
<1>2. Stages(W, s, Q, O)
  <2>1. ASSUME NEW w \in W PROVE Stage(V7Read(l, b, w, W, kc), L, {})
    BY StageDo, StageNothing DEF V7Read, All
  <2> HIDE DEF L
  <2> QED
    BY <2>1 DEF Stages
<1>3. Team(W, R, V, S, L)
  <2>1. Off(S, bufs, 0)
    BY V7RowsAre
  <2>2. \A w \in W : R[w] \subseteq S /\ Off(R[w], bufs, 0)
    BY <2>1
  <2>3. L \subseteq S \cup AllOf(bufs, 0, W, kc)
    OBVIOUS
  <2> HIDE DEF R, L
  <2> QED
    BY <2>1, <2>2, <2>3, Staging
<1>4. Team(W, Q, O, L, S)
  <2>1. S \subseteq L /\ \A w \in W : Q[w] \subseteq L
    OBVIOUS
  <2> HIDE DEF L, Q
  <2> QED
    BY <2>1, Reading
<1>5. [w \in W |-> t[w] \o Sync \o s[w] \o Sync] = [w \in W |-> V7Body(l, b, w, W, kc)]
  BY DEF V7Body, Own
<1> HIDE DEF t, s, O, V, L, Q, R
<1>6. Part(W, [w \in W |-> t[w] \o Sync \o s[w] \o Sync], S, S)
  BY <1>1, <1>2, <1>3, <1>4, TwoPhases
<1> QED
  BY <1>5, <1>6

V7Bodies(l, b, w, W) == [i \in 0 .. Ceil(l.G - 0, MoeGemv.chunk) - 1 |-> V7Body(l, b, w, W, 0 + i * MoeGemv.chunk)]

\* V7Loop is the loop over its rounds.
LEMMA V7Unrolls ==
    ASSUME NEW l, NEW b, NEW W, NEW w, NEW n \in Nat, n = Ceil(l.G - 0, MoeGemv.chunk),
           Bodies(0, n, V7Bodies(l, b, w, W))
    PROVE  \E f : Unrolled(f, 0, n, V7Bodies(l, b, w, W)) /\ V7Loop(l, b, w, W) = f[n]
<1> DEFINE B == V7Bodies(l, b, w, W)
           One(i) == V7Body(l, b, w, W, 0 + i * MoeGemv.chunk)
           u == CHOOSE u : u = [i \in 0 .. n |-> IF i = 0 THEN <<>> ELSE u[i - 1] \o One(i - 1)]
<1>1. V7Loop(l, b, w, W) = u[n]
  BY DEF V7Loop, Strides, Loop
<1>2. PICK f : Unrolled(f, 0, n, B)
  BY UnrollExists
<1>3. \A i \in 0 .. n : i # 0 => B[i - 1] = One(i - 1)
  <2> HIDE DEF One
  <2>1. B = [i \in 0 .. n - 1 |-> One(i)]
    BY DEF One, V7Bodies
  <2> QED
    BY <2>1
<1> HIDE DEF B, One
<1>4. ASSUME NEW h
      PROVE  Unrolled(h, 0, n, B) <=>
                h = [i \in 0 .. n |-> IF i = 0 THEN <<>> ELSE h[i - 1] \o One(i - 1)]
  <2>1. [i \in 0 .. n |-> IF i = 0 THEN <<>> ELSE h[i - 1] \o One(i - 1)]
          = [i \in 0 .. n |-> IF i = 0 THEN <<>> ELSE h[i - 1] \o B[i - 1]]
    BY <1>3
  <2> QED
    BY <2>1 DEF Unrolled
<1>5. u = [i \in 0 .. n |-> IF i = 0 THEN <<>> ELSE u[i - 1] \o One(i - 1)]
  BY <1>2, <1>4
<1> HIDE DEF u
<1> QED
  BY <1>1, <1>4, <1>5 DEF B

\* The loop over the chunks, however many there are.
LEMMA V7LoopPart ==
    ASSUME NEW l, l.G \in Nat, NEW b, NEW W
    PROVE  Part(W, [w \in W |-> V7Loop(l, b, w, W)], V7Rows, V7Rows)
<1> PICK n : n = Ceil(l.G - 0, MoeGemv.chunk)
  OBVIOUS
<1> DEFINE B == [w \in W |-> V7Bodies(l, b, w, W)]
           c == [w \in W |-> V7Loop(l, b, w, W)]
           K == [i \in 0 .. n |-> V7Rows]
<1>0. n \in Nat
  <2>1. l.G - 0 \in Nat /\ MoeGemv.chunk \in Nat \ {0}
    BY MoeAssumption
  <2> QED
    BY <2>1, StrideBelow
<1>1. Rounds(W, 0, n, B, K)
  <2> SUFFICES ASSUME NEW i \in 0 .. n - 1 PROVE Part(W, [w \in W |-> B[w][i]], K[i], K[i + 1])
    BY DEF Rounds
  <2> DEFINE kc == 0 + i * MoeGemv.chunk
  <2>1. [w \in W |-> B[w][i]] = [w \in W |-> V7Body(l, b, w, W, kc)]
    BY DEF V7Bodies
  <2>2. K[i] = V7Rows /\ K[i + 1] = V7Rows
    BY <1>0
  <2> HIDE DEF kc, K, B
  <2>4. Part(W, [w \in W |-> V7Body(l, b, w, W, kc)], V7Rows, V7Rows)
    BY V7Round
  <2> QED
    BY <2>1, <2>2, <2>4
<1>2. \A w \in W : Bodies(0, n, B[w])
  <2> HIDE DEF B, K
  <2> QED
    BY <1>1, RoundsAreTexts
<1>3. \A w \in W : \E f : Unrolled(f, 0, n, B[w]) /\ c[w] = f[n]
  <2> SUFFICES ASSUME NEW w \in W PROVE \E f : Unrolled(f, 0, n, B[w]) /\ c[w] = f[n]
    OBVIOUS
  <2>1. B[w] = V7Bodies(l, b, w, W) /\ c[w] = V7Loop(l, b, w, W)
    OBVIOUS
  <2> HIDE DEF B, c
  <2> QED
    BY <1>0, <1>2, <2>1, V7Unrolls
<1>4. Loops(c, W, 0, n, B)
  BY <1>3 DEF Loops
<1>5. K[0] = V7Rows /\ K[n] = V7Rows
  BY <1>0
<1> HIDE DEF B, c, K
<1>6. Part(W, c, K[0], K[n])
  BY <1>0, <1>1, <1>4, LoopsArePart
<1> QED
  BY <1>5, <1>6 DEF c
-----------------------------------------------------------------------------
\* One thread lists the rows before anybody stages them.
LEMMA V7HeadPart ==
    ASSUME NEW W, 0 \in W
    PROVE  Part(W, [w \in W |-> V7Head(w) \o Sync], {}, V7Rows)
<1> PICK S : S = V7Rows
  OBVIOUS
<1> DEFINE t == [w \in W |-> V7Head(w)]
           O == [w \in W |-> {}]
           V == [w \in W |-> IF w = 0 THEN S ELSE {}]
<1>1. Stages(W, t, O, V)
  <2>1. ASSUME NEW w \in W PROVE Stage(t[w], O[w], V[w])
    <3>1. CASE w = 0
      <4>1. t[w] = Do({}, S) /\ O[w] = {} /\ V[w] = S
        BY <3>1 DEF V7Head
      <4> HIDE DEF t, O, V
      <4> QED
        BY <4>1, StageDo
    <3>2. CASE w # 0
      <4>1. t[w] = <<>> /\ O[w] = {} /\ V[w] = {}
        BY <3>2 DEF V7Head
      <4> HIDE DEF t, O, V
      <4> QED
        BY <4>1, StageNothing
    <3> QED
      BY <3>1, <3>2
  <2>2. DOMAIN t = W
    OBVIOUS
  <2> HIDE DEF t, O, V
  <2> QED
    BY <2>1, <2>2 DEF Stages
<1>2. Team(W, O, V, {}, S)
  <2>1. ASSUME NEW v \in W, NEW w \in W, v # w PROVE CellsOf(V[v]) \cap (CellsOf(O[w]) \cup CellsOf(V[w])) = {}
    <3>1. V[v] = {} \/ (V[w] = {} /\ O[w] = {})
      BY <2>1
    <3>2. O[w] = {}
      OBVIOUS
    <3> HIDE DEF V, O
    <3> QED
      BY <3>1, <3>2, CellsOfNone
  <2>2. \A w \in W : O[w] \subseteq {}
    OBVIOUS
  <2>3. \A h \in S : h \in V[0]
    OBVIOUS
  <2> HIDE DEF V, O
  <2> QED
    BY <2>1, <2>2, <2>3 DEF Team
<1>3. [w \in W |-> t[w] \o Sync] = [w \in W |-> V7Head(w) \o Sync]
  OBVIOUS
<1> HIDE DEF t, O, V
<1>4. Part(W, [w \in W |-> t[w] \o Sync], {}, S)
  BY <1>1, <1>2, TeamPart
<1> QED
  BY <1>3, <1>4

\* The rows are the block's, the columns the wave's.
LEMMA V7PatchIs ==
    ASSUME NEW l, IsMoeLaunch(l), NEW b, b[1] \in Nat, b[2] \in Nat, NEW w \in Nat
    PROVE  /\ V7RealRows(l, b) = Span(0, b[2], l.bm)
           /\ V7Columns(l, b, w) \subseteq Span(0, b[1] * MoeGemv.waves + w, MoeGemv.cols)
<1> PICK s, m, p : s = l.bm /\ m = MoeGemv.cols /\ p = b[1] * MoeGemv.waves + w
  OBVIOUS
<1>1. s \in Nat /\ m \in Nat /\ p \in Nat
  BY MoeNumbersAre, MoeAssumption DEF MoeNumbers
<1>2. PICK x \in Nat : x = b[2] * s /\ (b[2] + 1) * s = x + s
  BY <1>1
<1>3. PICK y \in Nat : y = p * m
  BY <1>1
<1>4. Span(0, b[2], s) = x .. x + s - 1 /\ Span(0, p, m) = y .. y + m - 1
  <2>1. Span(0, b[2], s) = x .. x + s - 1
    BY ONLY <1>1, <1>2 DEF Span
  <2>2. Span(0, p, m) = y .. y + m - 1
    BY ONLY <1>1, <1>3 DEF Span
  <2> QED
    BY <2>1, <2>2
<1>5. V7RealRows(l, b) = x .. x + s - 1
  <2>1. V7RealRows(l, b) = b[2] * s .. (b[2] + 1) * s - 1
    BY DEF V7RealRows
  <2> QED
    BY ONLY <1>1, <1>2, <2>1
<1>6. V7Columns(l, b, w) \subseteq y .. y + m - 1
  BY <1>3 DEF V7Columns
<1> QED
  BY <1>4, <1>5, <1>6

\* Two waves have different columns.
LEMMA V7PatchesApart ==
    ASSUME NEW l, IsMoeLaunch(l), NEW b, b[1] \in Nat, b[2] \in Nat, b[2] \in 0 .. (l.P \div l.bm) - 1,
           NEW v \in Nat, NEW w \in Nat, v # w
    PROVE  V7Patch(l, b, v) \cap V7Patch(l, b, w) = {}
<1> PICK x, y, R, m : /\ x = b[1] * MoeGemv.waves + v /\ y = b[1] * MoeGemv.waves + w
                      /\ R = Span(0, b[2], l.bm) /\ m = MoeGemv.cols
  OBVIOUS
<1>1. x \in Nat /\ y \in Nat /\ x # y /\ m \in Nat
  <2>1. PICK z \in Nat : z = b[1] * MoeGemv.waves
    BY MoeAssumption
  <2> QED
    BY <2>1, MoeAssumption
<1>2. R \subseteq 0 .. l.P - 1
  <2>1. l.P \in Nat /\ l.bm \in Nat \ {0}
    BY MoeNumbersAre DEF MoeNumbers
  <2> QED
    BY <2>1, RowsFit
<1>3. Span(0, x, m) \cap Span(0, y, m) = {}
  BY <1>1, SpansApart
<1>4. V7RealRows(l, b) = R /\ V7Columns(l, b, v) \cap V7Columns(l, b, w) = {}
  BY <1>3, V7PatchIs
<1> QED
  BY <1>2, <1>4, PatchesApart DEF V7Patch

\* gemv_v7 as a whole.
LEMMA V7Proper ==
    ASSUME NEW l, IsMoeLaunch(l), NEW b, b[1] \in Nat, b[2] \in 0 .. (l.P \div l.bm) - 1, b[2] \in Nat
    PROVE  Proper(V7Waves, [w \in V7Waves |-> GemvV7(l, b, w)])
<1> DEFINE W == V7Waves
           x == 0 .. l.G - 1
           S == V7Rows
<1>0. 0 \in W /\ W \subseteq Nat
  <2>1. MoeGemv.waves \in Nat \ {0}
    BY MoeAssumption
  <2> QED
    BY <2>1 DEF V7Waves
<1> DEFINE h == [w \in W |-> V7Head(w) \o Sync]
           a == [w \in W |-> V7Loop(l, b, w, W)]
           R == [w \in W |-> S]
           P == [w \in W |-> V7Patch(l, b, w)]
           V == Outputs(W, P, x)
           t == [w \in W |-> Do(S, Result(V7Patch(l, b, w), x))]
           c == Cat(Cat(h, a), t)
<1>1. Part(W, h, {}, S) /\ Part(W, a, S, S)
  <2>1. l.G \in Nat
    BY MoeNumbersAre DEF MoeNumbers
  <2> QED
    BY <1>0, <2>1, V7HeadPart, V7LoopPart
<1>2. Ending(W, t, S, {})
  <2>1. Stages(W, t, R, V)
    <3>1. DOMAIN t = W /\ \A w \in W : t[w] = Do(R[w], V[w])
      BY DEF Outputs
    <3> HIDE DEF t, R, V
    <3> QED
      BY <3>1, StageDo DEF Stages
  <2>2. Distinct(W, P)
    BY <1>0, V7PatchesApart DEF Distinct
  <2>3. Reads(W, R, S)
    BY V7RowsAre DEF Reads
  <2> HIDE DEF P, R
  <2>4. Team(W, R, V, S, {})
    BY <2>2, <2>3, Storing
  <2> HIDE DEF t, V
  <2> QED
    BY <2>1, <2>4, TeamEnding
<1>3. DOMAIN h = W /\ DOMAIN a = W
  OBVIOUS
<1>4. c = [w \in W |-> (h[w] \o a[w]) \o t[w]]
  BY <1>3 DEF Cat
<1>5. CodeOn(W, c)
  BY <1>4 DEF CodeOn
<1>6. ASSUME NEW w \in W
      PROVE  Busy(l, b, c[w]) = GemvV7(l, b, w)
  <2>1. c[w] = (V7Head(w) \o Sync) \o V7Loop(l, b, w, W) \o Do(S, Result(V7Patch(l, b, w), x))
    BY <1>4
  <2> HIDE DEF c, h, a, t
  <2>2. GemvV7(l, b, w) = Busy(l, b, (V7Head(w) \o Sync) \o V7Loop(l, b, w, W) \o Do(S, Result(V7Patch(l, b, w), x)))
    BY DEF GemvV7, V7Head, V7Loop, V7Body, V7Read, V7Rows, V7Waves, V7Patch, V7RealRows, V7Columns
  <2> QED
    BY <2>1, <2>2
<1> HIDE DEF h, a, t, c
<1>7. Proper(W, c)
  <2>1. Part(W, Cat(h, a), {}, S)
    BY <1>1, PartThenPart
  <2> QED
    BY <1>2, <2>1, PartThenEnding DEF Proper, c
<1>8. Proper(W, [w \in W |-> Busy(l, b, c[w])])
  BY <1>5, <1>7, BusyProper
<1>9. [w \in W |-> Busy(l, b, c[w])] = [w \in W |-> GemvV7(l, b, w)]
  BY <1>6
<1> QED
  BY <1>8, <1>9
-----------------------------------------------------------------------------
\* A workgroup of a launch.
IsMoe(g) == g[1] \in MoeKernels /\ IsMoeLaunch(g[2]) /\ g[3] \in MoeBlocks(g[1], g[2])

\* A block of two coordinates.
LEMMA GridIs ==
    ASSUME NEW n \in Nat, NEW m \in Nat, NEW b, b \in Grid(n, m)
    PROVE  b[1] \in Nat /\ b[2] \in Nat /\ b[2] \in 0 .. m - 1
<1>1. PICK x \in 0 .. n - 1, y \in 0 .. m - 1 : b = <<x, y>>
  BY DEF Grid
<1> QED
  BY <1>1

\* The kernels with a tile of their own.
LEMMA MoeTiledProper ==
    ASSUME NEW k \in MoeTiled, NEW l, IsMoeLaunch(l), NEW b, b \in MoeGrid(l)
    PROVE  Proper(MoeTileWaves(k, l), [w \in MoeTileWaves(k, l) |-> MoeCode(k, l, b, w)])
<1> PICK W : W = MoeTileWaves(k, l)
  OBVIOUS
<1>1. CASE k \in {"moe_v5", "moe_tiled_v5"}
  <2>1. Proper(W, [w \in W |-> StagedAB(k, l, b, w)])
    BY StagedProper
  <2>2. \A w : MoeCode(k, l, b, w) = StagedAB(k, l, b, w)
    BY <1>1 DEF MoeCode, MoeV5, MoeTiledV5
  <2> QED
    BY <2>1, <2>2
<1>2. CASE k \in {"moe_v6", "moe_tiled_v6"}
  <2>1. Proper(W, [w \in W |-> StagedB(k, l, b, w)])
    BY StagedProper
  <2>2. \A w : MoeCode(k, l, b, w) = StagedB(k, l, b, w)
    BY <1>2 DEF MoeCode, MoeV6, MoeTiledV6
  <2> QED
    BY <2>1, <2>2
<1>3. CASE k \in {"silu_v5", "silu_v6"}
  <2>1. /\ k = "silu_v5" => Proper(W, [w \in W |-> SiluV5(l, b, w)])
        /\ k = "silu_v6" => Proper(W, [w \in W |-> SiluV6(l, b, w)])
    BY SiluProper
  <2> QED
    BY <1>3, <2>1 DEF MoeCode
<1>4. CASE k \in {"swmmac", "swmmac_int4"}
  <2>1. Proper(W, [w \in W |-> Sparse(k, l, b, w)])
    BY SparseProper
  <2>2. \A w : MoeCode(k, l, b, w) = Sparse(k, l, b, w)
    BY <1>4 DEF MoeCode, Swmmac, SwmmacInt4
  <2> QED
    BY <2>1, <2>2
<1>5. CASE k = "swmmac_tiled"
  <2>1. Proper(W, [w \in W |-> SwmmacInt4Tiled(l, b, w)])
    BY <1>5, SwmmacTiledProper
  <2>2. \A w : MoeCode(k, l, b, w) = SwmmacInt4Tiled(l, b, w)
    BY <1>5 DEF MoeCode
  <2> QED
    BY <2>1, <2>2
<1> QED
  BY <1>1, <1>2, <1>3, <1>4, <1>5 DEF MoeTiled

\* Every kernel of the mixture of experts is in order.
LEMMA MoeProper ==
    ASSUME NEW g, IsMoe(g)
    PROVE  Proper(MoeWaves(g[1], g[2]), [w \in MoeWaves(g[1], g[2]) |-> MoeCode(g[1], g[2], g[3], w)])
<1> PICK k, l, b : k = g[1] /\ l = g[2] /\ b = g[3]
  OBVIOUS
<1> PICK W : W = MoeWaves(k, l)
  OBVIOUS
<1>0. IsMoeLaunch(l) /\ k \in MoeKernels /\ b \in MoeBlocks(k, l)
  BY DEF IsMoe
<1>1. /\ l.T \in Nat /\ l.N \in Nat /\ l.P \in Nat /\ l.bm \in Nat \ {0} /\ ActWaves \in Nat \ {0}
      /\ Square \in Nat \ {0} /\ MoeGemv.waves * MoeGemv.cols \in Nat \ {0} /\ MoeBN \in Nat \ {0}
  BY <1>0, MoeNumbersAre, TileAssumption, MoeAssumption DEF MoeNumbers
<1>2. CASE k = "moe_act"
  <2>1. Proper(QuantWaves, [w \in QuantWaves |-> MoeActQuant(l, b, w)])
    BY MoeQuantProper
  <2>2. W = QuantWaves /\ \A w : MoeCode(k, l, b, w) = MoeActQuant(l, b, w)
    BY <1>2 DEF MoeWaves, MoeCode, QuantWaves
  <2> QED
    BY <2>1, <2>2
<1>3. CASE k = "moe_v0"
  <2>1. Ceil(l.N, Square) \in Nat /\ Ceil(l.P, Square) \in Nat
    BY <1>1, StrideBelow
  <2>2. b \in Grid(Ceil(l.N, Square), Ceil(l.P, Square))
    BY <1>0, <1>3 DEF MoeBlocks
  <2>3. b[1] \in Nat /\ b[2] \in Nat
    BY <2>1, <2>2, GridIs
  <2>4. W \subseteq Nat /\ \A w : MoeCode(k, l, b, w) = MoeV0(l, b, w)
    BY <1>1, <1>3 DEF MoeWaves, MoeCode
  <2>5. Proper(W, [w \in W |-> MoeV0(l, b, w)])
    BY <1>0, <2>3, <2>4, MoeV0Proper
  <2> QED
    BY <2>4, <2>5
<1>4. CASE k = "gemv_v7"
  <2> PICK n, m : n = Ceil(l.N, MoeGemv.waves * MoeGemv.cols) /\ m = l.P \div l.bm
    OBVIOUS
  <2>1. n \in Nat /\ m \in Nat
    BY <1>1, StrideBelow, Division
  <2>2. b \in Grid(n, m)
    BY <1>0, <1>4 DEF MoeBlocks
  <2>3. b[1] \in Nat /\ b[2] \in Nat /\ b[2] \in 0 .. m - 1
    BY <2>1, <2>2, GridIs
  <2>4. W = V7Waves /\ \A w : MoeCode(k, l, b, w) = GemvV7(l, b, w)
    BY <1>4 DEF MoeWaves, MoeCode, V7Waves
  <2>5. Proper(V7Waves, [w \in V7Waves |-> GemvV7(l, b, w)])
    BY <1>0, <2>3, V7Proper
  <2> QED
    BY <2>4, <2>5
<1>5. CASE k = "inverse_map"
  <2>1. Ceil(l.P, ActWaves) \in Nat
    BY <1>1, StrideBelow
  <2>2. PICK x \in 0 .. Ceil(l.P, ActWaves) - 1 : b = <<x>>
    BY <1>0, <1>5 DEF MoeBlocks
  <2>3. b[1] \in Nat
    BY <2>1, <2>2
  <2>4. W \subseteq Nat /\ \A w : MoeCode(k, l, b, w) = InverseMap(l, b, w)
    BY <1>1, <1>5 DEF MoeWaves, MoeCode
  <2>5. Proper(W, [w \in W |-> InverseMap(l, b, w)])
    BY <1>0, <2>3, <2>4, InverseMapProper
  <2> QED
    BY <2>4, <2>5
<1>6. CASE k = "gather"
  <2>1. Ceil(l.N, ActWaves) \in Nat
    BY <1>1, StrideBelow
  <2>2. b \in Grid(Ceil(l.N, ActWaves), l.T)
    BY <1>0, <1>6 DEF MoeBlocks
  <2>3. b[1] \in Nat
    BY <1>1, <2>1, <2>2, GridIs
  <2>4. W \subseteq Nat /\ \A w : MoeCode(k, l, b, w) = GatherReduce(l, b, w)
    BY <1>1, <1>6 DEF MoeWaves, MoeCode
  <2>5. Proper(W, [w \in W |-> GatherReduce(l, b, w)])
    BY <1>0, <2>3, <2>4, GatherProper
  <2> QED
    BY <2>4, <2>5
<1>7. CASE k \in MoeTiled
  <2>1. k \notin {"moe_act", "moe_v0", "gemv_v7", "inverse_map", "gather"}
    BY <1>7 DEF MoeTiled
  <2>2. W = MoeTileWaves(k, l) /\ b \in MoeGrid(l)
    BY <1>0, <2>1 DEF MoeWaves, MoeBlocks, MoeGrid
  <2> QED
    BY <1>0, <1>7, <2>2, MoeTiledProper
<1>8. k \in MoeTiled \/ k \in {"moe_act", "moe_v0", "gemv_v7", "inverse_map", "gather"}
  BY <1>0 DEF MoeKernels, MoeTiled
<1> QED
  BY <1>2, <1>3, <1>4, <1>5, <1>6, <1>7, <1>8

\* The kernels of the mixture of experts over any launch: any number of tokens, slots, experts'
\* rows and K groups, any block of rows, any routing that gives a slot one row at most.
THEOREM MoeKernelsAreSafe ==
    ASSUME \A g \in Groups :
              IsMoe(g) /\ CodeOf(g) = [w \in MoeWaves(g[1], g[2]) |-> MoeCode(g[1], g[2], g[3], w)]
    PROVE  Spec => []NoRace /\ []ReadsMeant /\ []NobodyStranded
<1>1. ASSUME NEW g \in Groups PROVE RaceFree(CodeOf(g)) /\ ReadsFollow(CodeOf(g)) /\ BarriersAgree(CodeOf(g))
  <2>1. Proper(MoeWaves(g[1], g[2]), CodeOf(g))
    BY MoeProper
  <2> PICK c : c = CodeOf(g)
    OBVIOUS
  <2>2. Sound(c, {}, {}) /\ BarriersAgree(c)
    BY <2>1 DEF Proper, Ending
  <2>3. RaceFree(c) /\ ReadsFollow(c)
    BY <2>2, SoundFollows
  <2> QED
    BY <2>2, <2>3
<1>2. Spec => []NoRace
  BY <1>1, PhasesDecideRaces
<1>3. Spec => []ReadsMeant
  BY <1>1, PhasesDecideReads
<1>4. Spec => []NobodyStranded
  BY <1>1, CountsDecideStranding
<1> QED
  BY <1>2, <1>3, <1>4
-----------------------------------------------------------------------------
\* A phase after a part: its waves, the barrier at its end.
LEMMA PhaseAdded ==
    ASSUME NEW W, NEW a, NEW t, NEW R, NEW V, NEW K, NEW L, NEW M,
           Part(W, a, K, L), Stages(W, t, R, V), Team(W, R, V, L, M)
    PROVE  Part(W, [w \in W |-> a[w] \o t[w] \o Sync], K, M)
<1> DEFINE p == [w \in W |-> t[w] \o Sync]
<1>1. Part(W, p, L, M)
  BY TeamPart
<1>2. DOMAIN a = W /\ \A w \in W : IsText(a[w])
  BY DEF Part, IsCode
<1>3. ASSUME NEW w \in W PROVE a[w] \o p[w] = a[w] \o t[w] \o Sync
  <2> PICK x, y : x = a[w] /\ y = t[w]
    OBVIOUS
  <2>1. IsText(x) /\ IsText(y) /\ IsText(Sync)
    BY <1>2, SyncIs DEF Stages, Stage
  <2>2. (x \o y) \o Sync = x \o (y \o Sync)
    BY ONLY <2>1, TextAssoc
  <2> QED
    BY <2>2
<1>4. Cat(a, p) = [w \in W |-> a[w] \o t[w] \o Sync]
  BY <1>2, <1>3 DEF Cat
<1> HIDE DEF p
<1>5. Part(W, Cat(a, p), K, M)
  BY <1>1, PartThenPart
<1> QED
  BY <1>4, <1>5

\* Waves that write shares of their own in some buffers, and read there only what they write over.
Within(W, V, bufs) == \A w \in W : \A c \in CellsOf(V[w]) : c[1] \in bufs
Split2(W, V) == \A v, w \in W : v # w => CellsOf(V[v]) \cap CellsOf(V[w]) = {}
Known(W, R, V, bufs, K) ==
    \A w \in W : R[w] \subseteq K /\ \A c \in CellsOf(R[w]) : c[1] \in bufs => c \in CellsOf(V[w])
Covered(W, V, bufs, K, L) == \A h \in L : (\E v \in W : h \in V[v]) \/ (h \in K /\ h[1][1] \notin bufs)

\* Such waves are a team.
LEMMA BufferTeam ==
    ASSUME NEW W, NEW R, NEW V, NEW bufs, NEW K, NEW L,
           Within(W, V, bufs), Split2(W, V), Known(W, R, V, bufs, K), Covered(W, V, bufs, K, L)
    PROVE  Team(W, R, V, K, L)
<1>1. \A w \in W : R[w] \subseteq K
  BY DEF Known
<1>2. ASSUME NEW v \in W, NEW w \in W, v # w, NEW c, c \in CellsOf(V[v])
      PROVE  c \notin CellsOf(R[w]) /\ c \notin CellsOf(V[w])
  <2>1. c \notin CellsOf(V[w])
    BY <1>2 DEF Split2
  <2>2. c[1] \in bufs
    BY <1>2 DEF Within
  <2> QED
    BY <2>1, <2>2 DEF Known
<1>3. ASSUME NEW h \in L
      PROVE  (\E v \in W : h \in V[v]) \/ (h \in K /\ \A u \in W : h[1] \notin CellsOf(V[u]))
  BY DEF Covered, Within
<1> QED
  BY <1>1, <1>2, <1>3 DEF Team

\* What is in an entry.
Entry(h, bufs, us, x) == \E b \in bufs, u \in us : h = <<<<b, 0, u>>, x>>
\* The entries and the cells of whole buffers.
LEMMA AllIs ==
    ASSUME NEW bufs, NEW us, NEW x
    PROVE  /\ \A h : h \in AllOf(bufs, 0, us, x) <=> Entry(h, bufs, us, x)
           /\ \A c : c \in CellsOf(AllOf(bufs, 0, us, x)) <=> \E b \in bufs, u \in us : c = <<b, 0, u>>
<1>1. \A h : h \in AllOf(bufs, 0, us, x) <=> Entry(h, bufs, us, x)
  BY DEF AllOf, Entry
<1>2. \A c : c \in CellsOf(AllOf(bufs, 0, us, x)) <=> \E b \in bufs, u \in us : c = <<b, 0, u>>
  <2> PICK z : z = 0
    OBVIOUS
  <2>1. CellsOf(AllOf(bufs, z, us, x)) = {<<b, z, u>> : b \in bufs, u \in us}
    BY CellsOfOwn
  <2> QED
    BY <2>1
<1> QED
  BY <1>1, <1>2
\* A wave's share is the buffer over that wave alone.
LEMMA OwnIsAll == ASSUME NEW bufs, NEW w, NEW x PROVE OwnOf(bufs, 0, w, x) = AllOf(bufs, 0, {w}, x)
BY DEF OwnOf, AllOf
-----------------------------------------------------------------------------
\* The decode kernels: every wave leaves its partial softmax, wave 0 merges them.
DecodeWaves == 0 .. NWarps - 1
DecodeBufs == {"s_m", "s_l", "s_o"}
DecodeParts == AllOf(DecodeBufs, 0, DecodeWaves, "partial")
DecodeResult(l, b) == Result({<<b[2], b[1]>>}, UNION {WarpKeys(l, b[2], u) : u \in DecodeWaves})
DecodeMerge(l, b, w) == IF w = 0 THEN Do(DecodeParts, DecodeResult(l, b)) ELSE <<>>

\* Partial softmaxes, a barrier, then the merge by wave 0.
LEMMA FlashDecodeProper ==
    ASSUME NEW l, NEW b
    PROVE  Proper(DecodeWaves, [w \in DecodeWaves |-> FlashDecode(l, b, w)])
<1> DEFINE W == DecodeWaves
           L == DecodeParts
           x == DecodeResult(l, b)
           O == [w \in W |-> {}]
           V == [w \in W |-> OwnOf(DecodeBufs, 0, w, "partial")]
           t == [w \in W |-> Do({}, V[w])]
           a == [w \in W |-> t[w] \o Sync]
           s == [w \in W |-> DecodeMerge(l, b, w)]
           R == [w \in W |-> IF w = 0 THEN L ELSE {}]
           X == [w \in W |-> IF w = 0 THEN x ELSE {}]
<1>1. Stages(W, t, O, V)
  BY StageDo DEF Stages
<1>2. Team(W, O, V, {}, L)
  <2> PICK p : p = "partial"
    OBVIOUS
  <2>1. Off({}, DecodeBufs, 0)
    BY NothingIsOff
  <2>2. \A w \in W : O[w] \subseteq {} /\ Off(O[w], DecodeBufs, 0)
    BY <2>1
  <2>3. L \subseteq {} \cup AllOf(DecodeBufs, 0, W, p) /\ V = [w \in W |-> OwnOf(DecodeBufs, 0, w, p)]
    BY DEF DecodeParts
  <2> HIDE DEF O, L, V
  <2>4. Team(W, O, [w \in W |-> OwnOf(DecodeBufs, 0, w, p)], {}, L)
    BY <2>1, <2>2, <2>3, Staging
  <2> QED
    BY <2>3, <2>4
<1>3. Part(W, a, {}, L)
  <2> HIDE DEF t, O, V, L
  <2> QED
    BY <1>1, <1>2, TeamPart
<1>4. Stages(W, s, R, X)
  <2>1. ASSUME NEW w \in W PROVE Stage(s[w], R[w], X[w])
    <3>1. CASE w = 0
      <4>1. s[w] = Do(L, x) /\ R[w] = L /\ X[w] = x
        BY <3>1 DEF DecodeMerge
      <4> HIDE DEF s, R, X, L, x
      <4> QED
        BY <4>1, StageDo
    <3>2. CASE w # 0
      <4>1. s[w] = <<>> /\ R[w] = {} /\ X[w] = {}
        BY <3>2 DEF DecodeMerge
      <4> HIDE DEF s, R, X, L, x
      <4> QED
        BY <4>1, StageNothing
    <3> QED
      BY <3>1, <3>2
  <2>2. DOMAIN s = W
    OBVIOUS
  <2> HIDE DEF s, R, X
  <2> QED
    BY <2>1, <2>2 DEF Stages
<1>5. Team(W, R, X, L, {})
  <2>1. \A w \in W : R[w] \subseteq L
    OBVIOUS
  <2>2. ASSUME NEW v \in W, NEW w \in W, v # w PROVE CellsOf(X[v]) \cap (CellsOf(R[w]) \cup CellsOf(X[w])) = {}
    <3>1. X[v] = {} \/ (X[w] = {} /\ R[w] = {})
      BY <2>2
    <3> HIDE DEF X, R
    <3> QED
      BY <3>1, CellsOfNone
  <2> HIDE DEF X, R, L
  <2> QED
    BY <2>1, <2>2 DEF Team
<1>6. Ending(W, s, L, {})
  <2> HIDE DEF s, R, X, L
  <2> QED
    BY <1>4, <1>5, TeamEnding
<1>7. Cat(a, s) = [w \in W |-> FlashDecode(l, b, w)]
  <2>1. ASSUME NEW w \in W PROVE a[w] \o s[w] = FlashDecode(l, b, w)
    BY DEF FlashDecode, DecodeMerge, DecodeParts, DecodeResult, DecodeWaves, DecodeBufs, Own, All
  <2>2. DOMAIN a = W
    OBVIOUS
  <2> HIDE DEF a, s
  <2> QED
    BY <2>1, <2>2 DEF Cat
<1> HIDE DEF a, s, L
<1>8. Ending(W, Cat(a, s), {}, {})
  BY <1>3, <1>6, PartThenEnding
<1> QED
  BY <1>7, <1>8 DEF Proper

\* A workgroup may return at once, all its waves alike.
LEMMA MayReturn ==
    ASSUME NEW W, NEW c, Proper(W, [w \in W |-> c[w]]), NEW yes
    PROVE  Proper(W, [w \in W |-> IF yes THEN <<>> ELSE c[w]])
<1> DEFINE d == [w \in W |-> IF yes THEN <<>> ELSE c[w]]
<1>1. CASE yes
  <2>1. d = [w \in W |-> <<>>]
    BY <1>1
  <2> HIDE DEF d
  <2>2. Part(W, d, {}, {})
    BY <2>1, NothingIsPart
  <2> QED
    BY <2>2, PartIsEnding DEF d, Proper
<1>2. CASE ~yes
  <2>1. d = [w \in W |-> c[w]]
    BY <1>2
  <2> HIDE DEF d
  <2> QED
    BY <2>1 DEF d
<1> QED
  BY <1>1, <1>2

\* A sequence without context sends all its waves home.
LEMMA PagedDecodeProper ==
    ASSUME NEW l, NEW b
    PROVE  Proper(DecodeWaves, [w \in DecodeWaves |-> PagedDecode(l, b, w)])
<1> PICK W, yes : W = DecodeWaves /\ yes = (l.ctx[b[2]] = 0)
  OBVIOUS
<1> DEFINE c == [w \in W |-> FlashDecode(l, b, w)]
<1>1. Proper(W, [w \in W |-> c[w]])
  BY FlashDecodeProper
<1>2. [w \in W |-> IF yes THEN <<>> ELSE c[w]] = [w \in W |-> PagedDecode(l, b, w)]
  BY DEF PagedDecode
<1> HIDE DEF c
<1>3. Proper(W, [w \in W |-> IF yes THEN <<>> ELSE c[w]])
  BY <1>1, MayReturn
<1> QED
  BY <1>2, <1>3
-----------------------------------------------------------------------------
\* What lies before the start of the piece m lies in an earlier one.
LEMMA EarlierPiece ==
    ASSUME NEW d \in Nat, NEW m \in Nat, NEW q \in Nat, NEW x \in Nat, x = q * d, NEW y \in Nat, y = m * d, x < y
    PROVE  q < m
<1>1. CASE m = q
  BY <1>1
<1>2. CASE m < q
  <2>1. m * d + d <= q * d
    BY <1>2, Scaled
  <2> QED
    BY <2>1
<1> QED
  BY <1>1, <1>2

\* The rows and the waves of a tile.
TileRowSet == 0 .. TileRows - 1
\* Every row has one wave that multiplies it and one that takes its softmax.
RowsOwned(M) == /\ \A v, w \in PrefillWaves : v # w => M[v] \cap M[w] = {}
                /\ \A r \in TileRowSet : \E w \in PrefillWaves : r \in M[w]
                /\ \A w \in PrefillWaves : M[w] \subseteq TileRowSet
Products == [w \in PrefillWaves |-> MTile(w)]
Softmaxes == [w \in PrefillWaves |-> SoftmaxRows(w)]

\* Dim rows for each wave are all rows.
LEMMA ProductsOwned == RowsOwned(Products)
<1> PICK n, d, m : n = TileRows /\ d = Dim /\ m = n \div d
  OBVIOUS
<1>1. n \in Nat \ {0} /\ d \in Nat \ {0} /\ Divides(d, n)
  BY AttnAssumption, TileAssumption DEF Divides
<1>2. Fragments(n, m, d)
  BY <1>1, RowFragments
<1>3. m \in Nat \ {0} /\ n = m * d
  BY <1>2 DEF Fragments
<1>4. PrefillWaves = 0 .. m - 1 /\ TileRowSet = 0 .. n - 1
  BY DEF PrefillWaves, TileRowSet
<1>5. ASSUME NEW w \in PrefillWaves PROVE Products[w] = Span(0, w, d) /\ w \in Nat
  <2>1. w \in Nat
    BY <1>3, <1>4
  <2>2. PICK x \in Nat : x = w * d
    BY <1>1, <2>1
  <2>3. MTile(w) = x .. x + d - 1
    BY <2>2 DEF MTile
  <2>4. Span(0, w, d) = x .. x + d - 1
    BY <2>2 DEF Span
  <2> QED
    BY <2>1, <2>3, <2>4 DEF Products
<1>6. ASSUME NEW v \in PrefillWaves, NEW w \in PrefillWaves, v # w PROVE Products[v] \cap Products[w] = {}
  BY <1>1, <1>5, <1>6, SpansApart
<1>7. ASSUME NEW r \in TileRowSet PROVE \E w \in PrefillWaves : r \in Products[w]
  <2>1. r = d * (r \div d) + (r % d) /\ r \div d \in Nat /\ r % d \in 0 .. d - 1
    <3>1. r \in Nat
      BY <1>4
    <3> QED
      BY <1>1, <3>1, Division
  <2>2. PICK q \in Nat, e \in 0 .. d - 1 : q = r \div d /\ r = d * q + e
    BY <2>1
  <2>3. q \in 0 .. m - 1
    <3>1. PICK x \in Nat, y \in Nat : x = q * d /\ y = m * d /\ d * q = x
      BY ONLY <1>1, <1>3, <2>2
    <3>2. x < y
      BY <1>1, <1>3, <1>4, <2>2, <3>1
    <3>3. q < m
      BY <1>1, <1>3, <3>1, <3>2, EarlierPiece
    <3> QED
      BY <1>3, <3>3
  <2>4. r \in Span(0, q, d)
    <3>1. PICK x \in Nat : x = q * d /\ d * q = x
      BY <1>1
    <3> QED
      BY <1>1, <2>2, <3>1 DEF Span
  <2> QED
    BY <1>4, <1>5, <2>3, <2>4
<1>8. ASSUME NEW w \in PrefillWaves, NEW r \in Products[w] PROVE r \in TileRowSet
  <2>1. w \in 0 .. m - 1 /\ r \in Span(0, w, d)
    BY <1>4, <1>5
  <2>2. w * d + d <= m * d /\ w * d \in Nat /\ m * d \in Nat
    BY <1>1, <1>3, <1>5, <2>1, Scaled
  <2>3. PICK x \in Nat, y \in Nat : x = w * d /\ y = m * d /\ x + d <= y
    BY <2>2
  <2>4. r \in x .. x + d - 1
    BY <2>1, <2>3 DEF Span
  <2>5. r \in 0 .. y - 1 /\ n = y
    BY ONLY <1>1, <1>3, <2>3, <2>4
  <2> QED
    BY <1>4, <2>5
<1> QED
  BY <1>6, <1>7, <1>8 DEF RowsOwned

\* 2 * Dim rows for each of the first waves are all rows.
LEMMA SoftmaxesOwned == RowsOwned(Softmaxes)
<1> PICK n, d, m, e : n = TileRows /\ d = Dim /\ m = n \div d /\ e = 2 * d
  OBVIOUS
<1>1. n \in Nat \ {0} /\ d \in Nat \ {0} /\ Divides(d, n) /\ e \in Nat \ {0}
  BY AttnAssumption, TileAssumption DEF Divides
<1>2. Fragments(n, m, d)
  BY <1>1, RowFragments
<1>3. m \in Nat \ {0} /\ n = m * d
  BY <1>2 DEF Fragments
<1>4. PrefillWaves = 0 .. m - 1 /\ TileRowSet = 0 .. n - 1
  BY DEF PrefillWaves, TileRowSet
<1>5. \A w \in PrefillWaves : Softmaxes[w] = {r \in TileRowSet : r \div e = w}
  BY DEF Softmaxes, SoftmaxRows, TileRowSet
<1>6. ASSUME NEW r \in TileRowSet PROVE r \div e \in PrefillWaves
  <2>1. r = e * (r \div e) + (r % e) /\ r \div e \in Nat /\ r % e \in 0 .. e - 1
    <3>1. r \in Nat
      BY <1>4
    <3> QED
      BY <1>1, <3>1, Division
  <2>2. PICK q \in Nat : q = r \div e /\ e * q <= r
    BY <1>1, <2>1
  <2>3. PICK x \in Nat : x = q * d /\ e * q = x + x
    BY <1>1
  <2>4. PICK y \in Nat : y = m * d
    BY <1>1, <1>3
  <2>5. x < y
    <3>1. r \in 0 .. y - 1 /\ x + x <= r
      BY ONLY <1>3, <1>4, <2>2, <2>3, <2>4, r \in TileRowSet
    <3> QED
      BY ONLY <3>1, x \in Nat, y \in Nat
  <2>6. q < m
    BY <1>1, <1>3, <2>3, <2>4, <2>5, EarlierPiece
  <2>7. q \in 0 .. m - 1
    BY ONLY <1>3, <2>2, <2>6
  <2> QED
    BY ONLY <1>4, <2>2, <2>7
<1> QED
  BY <1>5, <1>6 DEF RowsOwned
-----------------------------------------------------------------------------
\* Waves that write shares of their own: rows, or what they stage.
Shares2(W, V, bufs, M) == \A w \in W : \A c \in CellsOf(V[w]) : c[1] \in bufs /\ c[3] \in M[w]
Disjoint(W, M) == \A v, w \in W : v # w => M[v] \cap M[w] = {}
Sees(W, R, bufs, M, K) == \A w \in W : R[w] \subseteq K /\ \A c \in CellsOf(R[w]) : c[1] \in bufs => c[3] \in M[w]

\* They are a team.
LEMMA SharesTeam ==
    ASSUME NEW W, NEW R, NEW V, NEW bufs, NEW M, NEW K, NEW L,
           Shares2(W, V, bufs, M), Disjoint(W, M), Sees(W, R, bufs, M, K), Covered(W, V, bufs, K, L)
    PROVE  Team(W, R, V, K, L)
<1>1. \A w \in W : R[w] \subseteq K
  BY DEF Sees
<1>2. ASSUME NEW v \in W, NEW w \in W, v # w, NEW c, c \in CellsOf(V[v])
      PROVE  c \notin CellsOf(R[w]) /\ c \notin CellsOf(V[w])
  <2>1. c[1] \in bufs /\ c[3] \in M[v]
    BY <1>2 DEF Shares2
  <2>2. c[3] \notin M[w]
    BY <1>2, <2>1 DEF Disjoint
  <2> QED
    BY <2>1, <2>2 DEF Sees, Shares2
<1>3. ASSUME NEW h \in L
      PROVE  (\E v \in W : h \in V[v]) \/ (h \in K /\ \A u \in W : h[1] \notin CellsOf(V[u]))
  BY DEF Covered, Shares2
<1> QED
  BY <1>1, <1>2, <1>3 DEF Team

\* The buffer and the share of an entry.
LEMMA CellParts ==
    ASSUME NEW bufs, NEW us, NEW x
    PROVE  /\ \A c \in CellsOf(AllOf(bufs, 0, us, x)) : c[1] \in bufs /\ c[3] \in us
           /\ \A h \in AllOf(bufs, 0, us, x) : h[1][1] \in bufs
<1>1. ASSUME NEW c \in CellsOf(AllOf(bufs, 0, us, x)) PROVE c[1] \in bufs /\ c[3] \in us
  <2>1. PICK f \in bufs, u \in us : c = <<f, 0, u>>
    BY AllIs
  <2> QED
    BY <2>1
<1>2. ASSUME NEW h \in AllOf(bufs, 0, us, x) PROVE h[1][1] \in bufs
  <2>1. PICK f \in bufs, u \in us : h = <<<<f, 0, u>>, x>>
    BY AllIs DEF Entry
  <2> QED
    BY <2>1
<1> QED
  BY <1>1, <1>2

\* More buffers and more shares have more entries.
LEMMA AllGrows ==
    ASSUME NEW bufs, NEW bigger, bufs \subseteq bigger, NEW us, NEW more, us \subseteq more, NEW x
    PROVE  AllOf(bufs, 0, us, x) \subseteq AllOf(bigger, 0, more, x)
<1> SUFFICES ASSUME NEW h, h \in AllOf(bufs, 0, us, x) PROVE h \in AllOf(bigger, 0, more, x)
  OBVIOUS
<1>1. Entry(h, bufs, us, x)
  BY AllIs
<1>2. Entry(h, bigger, more, x)
  BY <1>1 DEF Entry
<1> QED
  BY <1>2, AllIs

\* An entry of all rows is one wave's.
Owned2(bufs, M, x) == \A h \in AllOf(bufs, 0, TileRowSet, x) : \E w \in PrefillWaves : h \in AllOf(bufs, 0, M[w], x)
\* Waves that own all rows write all of a buffer that is cut by rows.
LEMMA RowsHaveWaves == ASSUME NEW bufs, NEW M, RowsOwned(M), NEW x PROVE Owned2(bufs, M, x)
<1> SUFFICES ASSUME NEW h, h \in AllOf(bufs, 0, TileRowSet, x)
             PROVE  \E w \in PrefillWaves : h \in AllOf(bufs, 0, M[w], x)
  BY DEF Owned2
<1>1. PICK f \in bufs, u \in TileRowSet : h = <<<<f, 0, u>>, x>>
  BY AllIs DEF Entry
<1>2. PICK w \in PrefillWaves : u \in M[w]
  BY DEF RowsOwned
<1>3. Entry(h, bufs, M[w], x)
  BY <1>1, <1>2 DEF Entry
<1> QED
  BY <1>3, AllIs
WavesOwned(bufs, x) == \A h \in AllOf(bufs, 0, PrefillWaves, x) : \E w \in PrefillWaves : h \in OwnOf(bufs, 0, w, x)
\* All waves write all of a buffer that is cut by shares.
LEMMA SharesHaveWaves == ASSUME NEW bufs, NEW x PROVE WavesOwned(bufs, x)
<1> PICK z : z = 0
  OBVIOUS
<1>1. \A h \in AllOf(bufs, z, PrefillWaves, x) : \E w \in PrefillWaves : h \in OwnOf(bufs, z, w, x)
  BY CellsOfOwn
<1> QED
  BY <1>1 DEF WavesOwned
-----------------------------------------------------------------------------
\* What is known between the phases of a tile of keys.
KeptQ == AllOf({"Q"}, 0, PrefillWaves, 0)
SumO(x) == AllOf({"O"}, 0, PrefillWaves, x)
RowsOf(bufs, x) == AllOf(bufs, 0, TileRowSet, x)
State(kb) == RowsOf({"m", "l"}, kb) \cup SumO(kb) \cup KeptQ
After1(kb) == State(kb) \cup AllOf({"K", "V"}, 0, PrefillWaves, kb)
After2(kb) == After1(kb) \cup RowsOf({"S"}, kb)
After3(kb) == KeptQ \cup SumO(kb) \cup AllOf({"V"}, 0, PrefillWaves, kb)
              \cup RowsOf({"P", "resc"}, kb) \cup RowsOf({"m", "l"}, kb + 1)
After4(kb) == KeptQ \cup SumO(kb) \cup RowsOf({"resc", "PV"}, kb) \cup RowsOf({"m", "l"}, kb + 1)

\* The waves and what they own.
Selves == [w \in PrefillWaves |-> {w}]
\* Every wave is itself.
LEMMA SelvesApart == Disjoint(PrefillWaves, Selves)
BY DEF Disjoint, Selves

Tile1W == [w \in PrefillWaves |-> {}]
Tile1V(kb) == [w \in PrefillWaves |-> OwnOf({"K", "V"}, 0, w, kb)]
\* K and V are staged over the tile before.
LEMMA Tile1Team == ASSUME NEW kb PROVE Team(PrefillWaves, Tile1W, Tile1V(kb), State(kb), After1(kb))
<1> PICK W, bufs, V, K, L : W = PrefillWaves /\ bufs = {"K", "V"} /\ V = Tile1V(kb) /\ K = State(kb) /\ L = After1(kb)
  OBVIOUS
<1>1. \A w \in W : V[w] = AllOf(bufs, 0, Selves[w], kb)
  BY OwnIsAll DEF Tile1V, Selves
<1>2. Shares2(W, V, bufs, Selves)
  BY <1>1, CellParts DEF Shares2
<1>3. Sees(W, Tile1W, bufs, Selves, K)
  BY CellsOfNone DEF Sees, Tile1W
<1>4. Covered(W, V, bufs, K, L)
  <2>1. ASSUME NEW h \in AllOf(bufs, 0, W, kb) PROVE \E v \in W : h \in V[v]
    <3>1. PICK w \in W : h \in OwnOf(bufs, 0, w, kb)
      BY SharesHaveWaves DEF WavesOwned
    <3> QED
      BY <3>1 DEF Tile1V
  <2>2. ASSUME NEW h \in State(kb) PROVE h[1][1] \notin bufs
    <3>1. h[1][1] \in {"m", "l"} \/ h[1][1] \in {"O"} \/ h[1][1] \in {"Q"}
      BY CellParts DEF State, RowsOf, SumO, KeptQ
    <3> QED
      BY <3>1
  <2>3. L = K \cup AllOf(bufs, 0, W, kb)
    BY DEF After1
  <2> QED
    BY <2>1, <2>2, <2>3 DEF Covered
<1> QED
  BY <1>2, <1>3, <1>4, SelvesApart, SharesTeam

Tile2R(kb) == [w \in PrefillWaves |-> KeptQ \cup AllOf({"K"}, 0, PrefillWaves, kb)]
Tile2V(kb) == [w \in PrefillWaves |-> AllOf({"S"}, 0, MTile(w), kb)]
\* S = Q K, by rows of products.
LEMMA Tile2Team == ASSUME NEW kb PROVE Team(PrefillWaves, Tile2R(kb), Tile2V(kb), After1(kb), After2(kb))
<1> PICK W, bufs, R, V, K, L : /\ W = PrefillWaves /\ bufs = {"S"} /\ R = Tile2R(kb) /\ V = Tile2V(kb)
                               /\ K = After1(kb) /\ L = After2(kb)
  OBVIOUS
<1>1. \A w \in W : V[w] = AllOf(bufs, 0, Products[w], kb)
  BY DEF Tile2V, Products
<1>2. Shares2(W, V, bufs, Products)
  BY <1>1, CellParts DEF Shares2
<1>3. Sees(W, R, bufs, Products, K)
  <2> PICK y : y = AllOf({"K"}, 0, PrefillWaves, kb)
    OBVIOUS
  <2>1. y \subseteq AllOf({"K", "V"}, 0, PrefillWaves, kb)
    BY AllGrows
  <2>2. KeptQ \cup y \subseteq K
    BY <2>1 DEF After1, State
  <2>3. ASSUME NEW c \in CellsOf(KeptQ \cup y) PROVE c[1] \notin bufs
    <3>1. c \in CellsOf(KeptQ) \/ c \in CellsOf(y)
      BY CellsOfUnion
    <3>2. c[1] \in {"Q"} \/ c[1] \in {"K"}
      BY <3>1, CellParts DEF KeptQ
    <3> QED
      BY <3>2
  <2>4. \A w \in W : R[w] = KeptQ \cup y
    BY DEF Tile2R
  <2> QED
    BY <2>2, <2>3, <2>4 DEF Sees
<1>4. Covered(W, V, bufs, K, L)
  <2>1. ASSUME NEW h \in RowsOf(bufs, kb) PROVE \E v \in W : h \in V[v]
    <3>1. PICK w \in W : h \in AllOf(bufs, 0, Products[w], kb)
      BY RowsHaveWaves, ProductsOwned DEF Owned2, RowsOf
    <3> QED
      BY <1>1, <3>1
  <2>2. ASSUME NEW h \in After1(kb) PROVE h[1][1] \notin bufs
    <3>1. h[1][1] \in {"m", "l"} \/ h[1][1] \in {"O"} \/ h[1][1] \in {"Q"} \/ h[1][1] \in {"K", "V"}
      BY CellParts DEF After1, State, RowsOf, SumO, KeptQ
    <3> QED
      BY <3>1
  <2>3. L = K \cup RowsOf(bufs, kb)
    BY DEF After2
  <2> QED
    BY <2>1, <2>2, <2>3 DEF Covered
<1>5. Disjoint(W, Products)
  BY ProductsOwned DEF RowsOwned, Disjoint
<1> QED
  BY <1>2, <1>3, <1>4, <1>5, SharesTeam
-----------------------------------------------------------------------------
Tile3R(kb) == [w \in PrefillWaves |-> AllOf({"S", "m", "l"}, 0, SoftmaxRows(w), kb)]
Tile3V(kb) == [w \in PrefillWaves |-> AllOf({"S", "P", "resc"}, 0, SoftmaxRows(w), kb)
                                      \cup AllOf({"m", "l"}, 0, SoftmaxRows(w), kb + 1)]
\* The softmax of a row: m and l of the tile before are replaced, P and resc left for the others.
LEMMA Tile3Team == ASSUME NEW kb PROVE Team(PrefillWaves, Tile3R(kb), Tile3V(kb), After2(kb), After3(kb))
<1> PICK W, bufs, R, V, K, L : /\ W = PrefillWaves /\ bufs = {"S", "P", "resc", "m", "l"}
                               /\ R = Tile3R(kb) /\ V = Tile3V(kb) /\ K = After2(kb) /\ L = After3(kb)
  OBVIOUS
<1> PICK new, next : new = {"S", "P", "resc"} /\ next = kb + 1
  OBVIOUS
<1>1. \A w \in W : V[w] = AllOf(new, 0, Softmaxes[w], kb) \cup AllOf({"m", "l"}, 0, Softmaxes[w], next)
  BY DEF Tile3V, Softmaxes
<1>2. Shares2(W, V, bufs, Softmaxes)
  <2> SUFFICES ASSUME NEW w \in W, NEW c \in CellsOf(V[w]) PROVE c[1] \in bufs /\ c[3] \in Softmaxes[w]
    BY DEF Shares2
  <2> PICK x, y : x = AllOf(new, 0, Softmaxes[w], kb) /\ y = AllOf({"m", "l"}, 0, Softmaxes[w], next)
    OBVIOUS
  <2>1. c \in CellsOf(x) \/ c \in CellsOf(y)
    BY <1>1, CellsOfUnion
  <2>2. (c[1] \in new \/ c[1] \in {"m", "l"}) /\ c[3] \in Softmaxes[w]
    BY <2>1, CellParts
  <2> QED
    BY <2>2
<1>3. Sees(W, R, bufs, Softmaxes, K)
  <2> SUFFICES ASSUME NEW w \in W
               PROVE  R[w] \subseteq K /\ \A c \in CellsOf(R[w]) : c[1] \in bufs => c[3] \in Softmaxes[w]
    BY DEF Sees
  <2>1. R[w] = AllOf({"S", "m", "l"}, 0, Softmaxes[w], kb) /\ Softmaxes[w] \subseteq TileRowSet
    BY SoftmaxesOwned DEF Tile3R, Softmaxes, RowsOwned
  <2>2. R[w] \subseteq AllOf({"S", "m", "l"}, 0, TileRowSet, kb)
    BY <2>1, AllGrows
  <2>3. AllOf({"S", "m", "l"}, 0, TileRowSet, kb) = RowsOf({"S"}, kb) \cup RowsOf({"m", "l"}, kb)
    BY DEF AllOf, RowsOf
  <2>4. R[w] \subseteq K
    BY <2>2, <2>3 DEF After2, After1, State
  <2> QED
    BY <2>1, <2>4, CellParts
<1>4. Covered(W, V, bufs, K, L)
  <2>1. ASSUME NEW h \in RowsOf({"P", "resc"}, kb) PROVE \E v \in W : h \in V[v]
    <3>1. PICK w \in W : h \in AllOf({"P", "resc"}, 0, Softmaxes[w], kb)
      BY RowsHaveWaves, SoftmaxesOwned DEF Owned2, RowsOf
    <3>2. AllOf({"P", "resc"}, 0, Softmaxes[w], kb) \subseteq AllOf(new, 0, Softmaxes[w], kb)
      BY AllGrows
    <3> QED
      BY <1>1, <3>1, <3>2
  <2>2. ASSUME NEW h \in RowsOf({"m", "l"}, next) PROVE \E v \in W : h \in V[v]
    <3>1. PICK w \in W : h \in AllOf({"m", "l"}, 0, Softmaxes[w], next)
      BY RowsHaveWaves, SoftmaxesOwned DEF Owned2, RowsOf
    <3> QED
      BY <1>1, <3>1
  <2> PICK y : y = AllOf({"V"}, 0, PrefillWaves, kb)
    OBVIOUS
  <2>3. ASSUME NEW h \in KeptQ \cup SumO(kb) \cup y PROVE h[1][1] \notin bufs /\ h \in K
    <3>1. h[1][1] \in {"O"} \/ h[1][1] \in {"Q"} \/ h[1][1] \in {"V"}
      BY CellParts DEF SumO, KeptQ
    <3>2. y \subseteq AllOf({"K", "V"}, 0, PrefillWaves, kb)
      BY AllGrows
    <3> QED
      BY <3>1, <3>2 DEF After2, After1, State
  <2>4. L = (KeptQ \cup SumO(kb) \cup y) \cup RowsOf({"P", "resc"}, kb) \cup RowsOf({"m", "l"}, next)
    BY DEF After3
  <2> QED
    BY <2>1, <2>2, <2>3, <2>4 DEF Covered
<1>5. Disjoint(W, Softmaxes)
  BY SoftmaxesOwned DEF RowsOwned, Disjoint
<1> QED
  BY <1>2, <1>3, <1>4, <1>5, SharesTeam

Tile4R(kb) == [w \in PrefillWaves |-> AllOf({"P"}, 0, MTile(w), kb) \cup AllOf({"V"}, 0, PrefillWaves, kb)]
Tile4V(kb) == [w \in PrefillWaves |-> AllOf({"PV"}, 0, MTile(w), kb)]
\* PV = P V, by rows of products.
LEMMA Tile4Team == ASSUME NEW kb PROVE Team(PrefillWaves, Tile4R(kb), Tile4V(kb), After3(kb), After4(kb))
<1> PICK W, bufs, R, V, K, L : /\ W = PrefillWaves /\ bufs = {"PV"} /\ R = Tile4R(kb) /\ V = Tile4V(kb)
                               /\ K = After3(kb) /\ L = After4(kb)
  OBVIOUS
<1>1. \A w \in W : V[w] = AllOf(bufs, 0, Products[w], kb)
  BY DEF Tile4V, Products
<1>2. Shares2(W, V, bufs, Products)
  BY <1>1, CellParts DEF Shares2
<1>3. Sees(W, R, bufs, Products, K)
  <2> SUFFICES ASSUME NEW w \in W
               PROVE  R[w] \subseteq K /\ \A c \in CellsOf(R[w]) : c[1] \in bufs => c[3] \in Products[w]
    BY DEF Sees
  <2> PICK x, y : x = AllOf({"P"}, 0, Products[w], kb) /\ y = AllOf({"V"}, 0, PrefillWaves, kb)
    OBVIOUS
  <2>1. R[w] = x \cup y
    BY DEF Tile4R, Products
  <2>2. x \subseteq RowsOf({"P", "resc"}, kb)
    <3>1. Products[w] \subseteq TileRowSet /\ {"P"} \subseteq {"P", "resc"}
      BY ProductsOwned DEF RowsOwned
    <3> QED
      BY <3>1, AllGrows DEF RowsOf
  <2>3. R[w] \subseteq K
    BY <2>1, <2>2 DEF After3
  <2>4. ASSUME NEW c \in CellsOf(R[w]) PROVE c[1] \notin bufs
    <3>1. c \in CellsOf(x) \/ c \in CellsOf(y)
      BY <2>1, CellsOfUnion
    <3>2. c[1] \in {"P"} \/ c[1] \in {"V"}
      BY <3>1, CellParts
    <3> QED
      BY <3>2
  <2> QED
    BY <2>3, <2>4
<1>4. Covered(W, V, bufs, K, L)
  <2> PICK x, y, z : x = RowsOf({"resc"}, kb) /\ y = RowsOf({"PV"}, kb) /\ z = RowsOf({"m", "l"}, kb + 1)
    OBVIOUS
  <2>1. ASSUME NEW h \in y PROVE \E v \in W : h \in V[v]
    <3>1. PICK w \in W : h \in AllOf(bufs, 0, Products[w], kb)
      BY RowsHaveWaves, ProductsOwned DEF Owned2, RowsOf
    <3> QED
      BY <1>1, <3>1
  <2>2. ASSUME NEW h \in KeptQ \cup SumO(kb) \cup x \cup z PROVE h[1][1] \notin bufs /\ h \in K
    <3>1. h[1][1] \in {"O"} \/ h[1][1] \in {"Q"} \/ h[1][1] \in {"resc"} \/ h[1][1] \in {"m", "l"}
      BY CellParts DEF SumO, KeptQ, RowsOf
    <3>2. x \subseteq RowsOf({"P", "resc"}, kb)
      BY AllGrows DEF RowsOf
    <3> QED
      BY <3>1, <3>2 DEF After3
  <2>3. RowsOf({"resc", "PV"}, kb) = x \cup y
    BY DEF AllOf, RowsOf
  <2>4. L = (KeptQ \cup SumO(kb) \cup x \cup z) \cup y
    BY <2>3 DEF After4
  <2> QED
    BY <2>1, <2>2, <2>4 DEF Covered
<1>5. Disjoint(W, Products)
  BY ProductsOwned DEF RowsOwned, Disjoint
<1> QED
  BY <1>2, <1>3, <1>4, <1>5, SharesTeam

Tile5R(kb) == [w \in PrefillWaves |-> OwnOf({"O"}, 0, w, kb) \cup RowsOf({"resc", "PV"}, kb)]
Tile5V(kb) == [w \in PrefillWaves |-> OwnOf({"O"}, 0, w, kb + 1)]
\* O is rescaled and added to: the tile is done and the state is that of the next.
LEMMA Tile5Team == ASSUME NEW kb PROVE Team(PrefillWaves, Tile5R(kb), Tile5V(kb), After4(kb), State(kb + 1))
<1> PICK W, bufs, R, V, K, L, next : /\ W = PrefillWaves /\ bufs = {"O"} /\ R = Tile5R(kb) /\ V = Tile5V(kb)
                                     /\ K = After4(kb) /\ L = State(kb + 1) /\ next = kb + 1
  OBVIOUS
<1>1. \A w \in W : V[w] = AllOf(bufs, 0, Selves[w], next)
  BY OwnIsAll DEF Tile5V, Selves
<1>2. Shares2(W, V, bufs, Selves)
  BY <1>1, CellParts DEF Shares2
<1>3. Sees(W, R, bufs, Selves, K)
  <2> SUFFICES ASSUME NEW w \in W
               PROVE  R[w] \subseteq K /\ \A c \in CellsOf(R[w]) : c[1] \in bufs => c[3] \in Selves[w]
    BY DEF Sees
  <2> PICK x, y : x = AllOf(bufs, 0, Selves[w], kb) /\ y = RowsOf({"resc", "PV"}, kb)
    OBVIOUS
  <2>1. R[w] = x \cup y
    BY OwnIsAll DEF Tile5R, Selves
  <2>2. x \subseteq SumO(kb)
    <3>1. Selves[w] \subseteq PrefillWaves
      BY DEF Selves
    <3> QED
      BY <3>1, AllGrows DEF SumO
  <2>3. R[w] \subseteq K
    BY <2>1, <2>2 DEF After4
  <2>4. ASSUME NEW c \in CellsOf(R[w]), c[1] \in bufs PROVE c[3] \in Selves[w]
    <3>1. c \in CellsOf(x) \/ c \in CellsOf(y)
      BY <2>1, CellsOfUnion
    <3>2. c[3] \in Selves[w] \/ c[1] \in {"resc", "PV"}
      BY <3>1, CellParts DEF RowsOf
    <3> QED
      BY <2>4, <3>2
  <2> QED
    BY <2>3, <2>4
<1>4. Covered(W, V, bufs, K, L)
  <2>1. ASSUME NEW h \in SumO(next) PROVE \E v \in W : h \in V[v]
    <3>1. PICK w \in W : h \in OwnOf(bufs, 0, w, next)
      BY SharesHaveWaves DEF WavesOwned, SumO
    <3> QED
      BY <3>1 DEF Tile5V
  <2>2. ASSUME NEW h \in KeptQ \cup RowsOf({"m", "l"}, next) PROVE h[1][1] \notin bufs /\ h \in K
    <3>1. h[1][1] \in {"Q"} \/ h[1][1] \in {"m", "l"}
      BY CellParts DEF KeptQ, RowsOf
    <3> QED
      BY <3>1 DEF After4
  <2>3. L = (KeptQ \cup RowsOf({"m", "l"}, next)) \cup SumO(next)
    BY DEF State
  <2> QED
    BY <2>1, <2>2, <2>3 DEF Covered
<1> QED
  BY <1>2, <1>3, <1>4, SelvesApart, SharesTeam
-----------------------------------------------------------------------------
\* The five phases of a wave in a round.
Tile3T(w, kb) == IF SoftmaxRows(w) # {} THEN Do(Tile3R(kb)[w], Tile3V(kb)[w]) ELSE <<>>
Phase1(w, kb) == Do(Tile1W[w], Tile1V(kb)[w]) \o Sync
Phase2(w, kb) == Phase1(w, kb) \o Do(Tile2R(kb)[w], Tile2V(kb)[w]) \o Sync
Phase3(w, kb) == Phase2(w, kb) \o Tile3T(w, kb) \o Sync
Phase4(w, kb) == Phase3(w, kb) \o Do(Tile4R(kb)[w], Tile4V(kb)[w]) \o Sync
Phase5(w, kb) == Phase4(w, kb) \o Do(Tile5R(kb)[w], Tile5V(kb)[w]) \o Sync

\* One statement each.
LEMMA StagesDo == ASSUME NEW W, NEW R, NEW V PROVE Stages(W, [w \in W |-> Do(R[w], V[w])], R, V)
<1> DEFINE t == [w \in W |-> Do(R[w], V[w])]
<1>1. DOMAIN t = W /\ \A w \in W : t[w] = Do(R[w], V[w])
  OBVIOUS
<1> HIDE DEF t
<1> QED
  BY <1>1, StageDo DEF Stages, t

\* A wave without rows takes no softmax.
LEMMA SoftmaxStages ==
    ASSUME NEW kb
    PROVE  Stages(PrefillWaves, [w \in PrefillWaves |-> Tile3T(w, kb)], Tile3R(kb), Tile3V(kb))
<1> DEFINE t == [w \in PrefillWaves |-> Tile3T(w, kb)]
<1>1. ASSUME NEW w \in PrefillWaves PROVE Stage(Tile3T(w, kb), Tile3R(kb)[w], Tile3V(kb)[w])
  <2>1. CASE SoftmaxRows(w) # {}
    <3>1. Tile3T(w, kb) = Do(Tile3R(kb)[w], Tile3V(kb)[w])
      BY <2>1 DEF Tile3T
    <3> QED
      BY <3>1, StageDo
  <2>2. CASE SoftmaxRows(w) = {}
    <3>1. Tile3T(w, kb) = <<>>
      BY <2>2 DEF Tile3T
    <3>2. Tile3V(kb)[w] = {}
      BY <2>2 DEF Tile3V, AllOf
    <3> QED
      BY <3>1, <3>2, StageNothing
  <2> QED
    BY <2>1, <2>2
<1>2. DOMAIN t = PrefillWaves /\ \A w \in PrefillWaves : t[w] = Tile3T(w, kb)
  OBVIOUS
<1> HIDE DEF t
<1> QED
  BY <1>1, <1>2 DEF Stages, t

\* The phases take the waves from one tile of keys to the next.
LEMMA RoundPart ==
    ASSUME NEW kb
    PROVE  Part(PrefillWaves, [w \in PrefillWaves |-> Phase5(w, kb)], State(kb), State(kb + 1))
<1> PICK W : W = PrefillWaves
  OBVIOUS
<1> DEFINE t1 == [w \in W |-> Do(Tile1W[w], Tile1V(kb)[w])]
           t2 == [w \in W |-> Do(Tile2R(kb)[w], Tile2V(kb)[w])]
           t3 == [w \in W |-> Tile3T(w, kb)]
           t4 == [w \in W |-> Do(Tile4R(kb)[w], Tile4V(kb)[w])]
           t5 == [w \in W |-> Do(Tile5R(kb)[w], Tile5V(kb)[w])]
           a1 == [w \in W |-> Phase1(w, kb)]
           a2 == [w \in W |-> Phase2(w, kb)]
           a3 == [w \in W |-> Phase3(w, kb)]
           a4 == [w \in W |-> Phase4(w, kb)]
           a5 == [w \in W |-> Phase5(w, kb)]
<1>1. Stages(W, t1, Tile1W, Tile1V(kb)) /\ Stages(W, t2, Tile2R(kb), Tile2V(kb))
  BY StagesDo
<1>2. Stages(W, t3, Tile3R(kb), Tile3V(kb))
  BY SoftmaxStages
<1>3. Stages(W, t4, Tile4R(kb), Tile4V(kb)) /\ Stages(W, t5, Tile5R(kb), Tile5V(kb))
  BY StagesDo
<1>4. /\ Team(W, Tile1W, Tile1V(kb), State(kb), After1(kb))
      /\ Team(W, Tile2R(kb), Tile2V(kb), After1(kb), After2(kb))
      /\ Team(W, Tile3R(kb), Tile3V(kb), After2(kb), After3(kb))
      /\ Team(W, Tile4R(kb), Tile4V(kb), After3(kb), After4(kb))
      /\ Team(W, Tile5R(kb), Tile5V(kb), After4(kb), State(kb + 1))
  BY Tile1Team, Tile2Team, Tile3Team, Tile4Team, Tile5Team
<1>5. a1 = [w \in W |-> t1[w] \o Sync]
  BY DEF Phase1
<1>6. a2 = [w \in W |-> a1[w] \o t2[w] \o Sync]
  BY DEF Phase2
<1>7. a3 = [w \in W |-> a2[w] \o t3[w] \o Sync]
  BY DEF Phase3
<1>8. a4 = [w \in W |-> a3[w] \o t4[w] \o Sync]
  BY DEF Phase4
<1>9. a5 = [w \in W |-> a4[w] \o t5[w] \o Sync]
  BY DEF Phase5
<1> HIDE DEF t1, t2, t3, t4, t5, a1, a2, a3, a4, a5
<1>10. Part(W, a1, State(kb), After1(kb))
  BY <1>1, <1>4, <1>5, TeamPart
<1>11. Part(W, a2, State(kb), After2(kb))
  BY <1>1, <1>4, <1>6, <1>10, PhaseAdded
<1>12. Part(W, a3, State(kb), After3(kb))
  BY <1>2, <1>4, <1>7, <1>11, PhaseAdded
<1>13. Part(W, a4, State(kb), After4(kb))
  BY <1>3, <1>4, <1>8, <1>12, PhaseAdded
<1>14. Part(W, a5, State(kb), State(kb + 1))
  BY <1>3, <1>4, <1>9, <1>13, PhaseAdded
<1> QED
  BY <1>14 DEF a5

\* PrefillBlock is those phases.
LEMMA BlockIsRound == ASSUME NEW kb, NEW w \in PrefillWaves PROVE PrefillBlock(w, kb) = Phase5(w, kb)
<1> PICK x1, x2, x3, x4, x5 : /\ x1 = Do(Tile1W[w], Tile1V(kb)[w]) /\ x2 = Do(Tile2R(kb)[w], Tile2V(kb)[w])
                              /\ x3 = Tile3T(w, kb) /\ x4 = Do(Tile4R(kb)[w], Tile4V(kb)[w])
                              /\ x5 = Do(Tile5R(kb)[w], Tile5V(kb)[w])
  OBVIOUS
<1>1. x1 = Do({}, Own({"K", "V"}, w, kb))
  BY DEF Tile1W, Tile1V, Own
<1>2. x2 = Do(All({"Q"}, PrefillWaves, 0) \cup All({"K"}, PrefillWaves, kb), ByRow({"S"}, MTile(w), kb))
  BY DEF Tile2R, Tile2V, All, ByRow, KeptQ
<1>3. x3 = IF SoftmaxRows(w) # {}
           THEN Do(ByRow({"S", "m", "l"}, SoftmaxRows(w), kb),
                   ByRow({"S", "P", "resc"}, SoftmaxRows(w), kb)
                   \cup ByRow({"m", "l"}, SoftmaxRows(w), kb + 1))
           ELSE <<>>
  BY DEF Tile3T, Tile3R, Tile3V, ByRow
<1>4. x4 = Do(ByRow({"P"}, MTile(w), kb) \cup All({"V"}, PrefillWaves, kb), ByRow({"PV"}, MTile(w), kb))
  BY DEF Tile4R, Tile4V, All, ByRow
<1>5. x5 = Do(Own({"O"}, w, kb) \cup ByRow({"resc", "PV"}, 0 .. TileRows - 1, kb), Own({"O"}, w, kb + 1))
  BY DEF Tile5R, Tile5V, Own, ByRow, RowsOf, TileRowSet
<1>6. PrefillBlock(w, kb) = x1 \o Sync \o x2 \o Sync \o x3 \o Sync \o x4 \o Sync \o x5 \o Sync
  BY ONLY <1>1, <1>2, <1>3, <1>4, <1>5 DEF PrefillBlock
<1>7. Phase5(w, kb) = x1 \o Sync \o x2 \o Sync \o x3 \o Sync \o x4 \o Sync \o x5 \o Sync
  BY DEF Phase1, Phase2, Phase3, Phase4, Phase5
<1> QED
  BY <1>6, <1>7

\* So PrefillBlock does.
LEMMA BlockPart ==
    ASSUME NEW kb
    PROVE  Part(PrefillWaves, [w \in PrefillWaves |-> PrefillBlock(w, kb)], State(kb), State(kb + 1))
<1>1. [w \in PrefillWaves |-> PrefillBlock(w, kb)] = [w \in PrefillWaves |-> Phase5(w, kb)]
  BY BlockIsRound
<1> QED
  BY <1>1, RoundPart
-----------------------------------------------------------------------------
PrefillLoop(w, n) == Loop(0, n, LAMBDA kb : PrefillBlock(w, kb))
PrefillBodies(w, n) == [i \in 0 .. n - 1 |-> PrefillBlock(w, i)]

\* PrefillLoop is the loop over its rounds.
LEMMA PrefillUnrolls ==
    ASSUME NEW w, NEW n \in Nat, Bodies(0, n, PrefillBodies(w, n))
    PROVE  \E f : Unrolled(f, 0, n, PrefillBodies(w, n)) /\ PrefillLoop(w, n) = f[n]
<1> DEFINE B == PrefillBodies(w, n)
           One(i) == PrefillBlock(w, i)
           u == CHOOSE u : u = [i \in 0 .. n |-> IF i = 0 THEN <<>> ELSE u[i - 1] \o One(i - 1)]
<1>1. PrefillLoop(w, n) = u[n]
  BY DEF PrefillLoop, Loop
<1>2. PICK f : Unrolled(f, 0, n, B)
  BY UnrollExists
<1>3. \A i \in 0 .. n : i # 0 => B[i - 1] = One(i - 1)
  <2> HIDE DEF One
  <2>1. B = [i \in 0 .. n - 1 |-> One(i)]
    BY DEF One, PrefillBodies
  <2> QED
    BY <2>1
<1> HIDE DEF B, One
<1>4. ASSUME NEW h
      PROVE  Unrolled(h, 0, n, B) <=>
                h = [i \in 0 .. n |-> IF i = 0 THEN <<>> ELSE h[i - 1] \o One(i - 1)]
  <2>1. [i \in 0 .. n |-> IF i = 0 THEN <<>> ELSE h[i - 1] \o One(i - 1)]
          = [i \in 0 .. n |-> IF i = 0 THEN <<>> ELSE h[i - 1] \o B[i - 1]]
    BY <1>3
  <2> QED
    BY <2>1 DEF Unrolled
<1>5. u = [i \in 0 .. n |-> IF i = 0 THEN <<>> ELSE u[i - 1] \o One(i - 1)]
  BY <1>2, <1>4
<1> HIDE DEF u
<1> QED
  BY <1>1, <1>4, <1>5 DEF B

\* The loop over the tiles of keys, however many there are.
LEMMA PrefillLoopPart ==
    ASSUME NEW n \in Nat
    PROVE  Part(PrefillWaves, [w \in PrefillWaves |-> PrefillLoop(w, n)], State(0), State(n))
<1> PICK W : W = PrefillWaves
  OBVIOUS
<1> DEFINE B == [w \in W |-> PrefillBodies(w, n)]
           c == [w \in W |-> PrefillLoop(w, n)]
           K == [i \in 0 .. n |-> State(i)]
<1>1. Rounds(W, 0, n, B, K)
  <2> SUFFICES ASSUME NEW i \in 0 .. n - 1 PROVE Part(W, [w \in W |-> B[w][i]], K[i], K[i + 1])
    BY DEF Rounds
  <2>1. [w \in W |-> B[w][i]] = [w \in W |-> PrefillBlock(w, i)]
    BY DEF PrefillBodies
  <2>2. K[i] = State(i) /\ K[i + 1] = State(i + 1)
    OBVIOUS
  <2> HIDE DEF K, B
  <2>3. Part(W, [w \in W |-> PrefillBlock(w, i)], State(i), State(i + 1))
    BY BlockPart
  <2> QED
    BY <2>1, <2>2, <2>3
<1>2. \A w \in W : Bodies(0, n, B[w])
  <2> HIDE DEF B, K
  <2> QED
    BY <1>1, RoundsAreTexts
<1>3. \A w \in W : \E f : Unrolled(f, 0, n, B[w]) /\ c[w] = f[n]
  <2> SUFFICES ASSUME NEW w \in W PROVE \E f : Unrolled(f, 0, n, B[w]) /\ c[w] = f[n]
    OBVIOUS
  <2>1. B[w] = PrefillBodies(w, n) /\ c[w] = PrefillLoop(w, n)
    OBVIOUS
  <2> HIDE DEF B, c
  <2> QED
    BY <1>2, <2>1, PrefillUnrolls
<1>4. Loops(c, W, 0, n, B)
  BY <1>3 DEF Loops
<1>5. K[0] = State(0) /\ K[n] = State(n)
  OBVIOUS
<1> HIDE DEF B, c, K
<1>6. Part(W, c, K[0], K[n])
  BY <1>1, <1>4, LoopsArePart
<1> QED
  BY <1>5, <1>6 DEF c
-----------------------------------------------------------------------------
\* Before the first tile of keys: a wave's rows of the softmax, its share of the queries.
HeadV == [w \in PrefillWaves |-> AllOf({"m", "l"}, 0, SoftmaxRows(w), 0) \cup OwnOf({"O", "Q"}, 0, w, 0)]
PrefillHead(w) == Do({}, HeadV[w]) \o Sync

\* The waves clear the softmaxes and the sums and stage the queries.
LEMMA HeadTeam == Team(PrefillWaves, Tile1W, HeadV, {}, State(0))
<1> PICK W, rowBufs, ownBufs, V, z : /\ W = PrefillWaves /\ rowBufs = {"m", "l"} /\ ownBufs = {"O", "Q"}
                                     /\ V = HeadV /\ z = 0
  OBVIOUS
<1> PICK bufs : bufs = rowBufs \cup ownBufs
  OBVIOUS
<1>1. \A w \in W : V[w] = AllOf(rowBufs, 0, Softmaxes[w], z) \cup AllOf(ownBufs, 0, Selves[w], z)
  BY OwnIsAll DEF HeadV, Softmaxes, Selves
<1>2. ASSUME NEW w \in W, NEW c \in CellsOf(V[w])
      PROVE  (c[1] \in rowBufs /\ c[3] \in Softmaxes[w]) \/ (c[1] \in ownBufs /\ c[3] \in Selves[w])
  <2> PICK x, y : x = AllOf(rowBufs, 0, Softmaxes[w], z) /\ y = AllOf(ownBufs, 0, Selves[w], z)
    OBVIOUS
  <2>1. c \in CellsOf(x) \/ c \in CellsOf(y)
    BY <1>1, CellsOfUnion
  <2> QED
    BY <2>1, CellParts
<1>3. Within(W, V, bufs)
  BY <1>2 DEF Within
<1>4. Split2(W, V)
  <2> SUFFICES ASSUME NEW v \in W, NEW w \in W, v # w, NEW c \in CellsOf(V[v]), c \in CellsOf(V[w]) PROVE FALSE
    BY DEF Split2
  <2>1. Softmaxes[v] \cap Softmaxes[w] = {} /\ Selves[v] \cap Selves[w] = {}
    BY SoftmaxesOwned, SelvesApart DEF RowsOwned, Disjoint
  <2>2. rowBufs \cap ownBufs = {}
    OBVIOUS
  <2> QED
    BY <1>2, <2>1, <2>2
<1>5. Known(W, Tile1W, V, bufs, {})
  BY CellsOfNone DEF Known, Tile1W
<1>6. Covered(W, V, bufs, {}, State(0))
  <2>1. ASSUME NEW h \in RowsOf(rowBufs, z) PROVE \E v \in W : h \in V[v]
    <3>1. PICK w \in W : h \in AllOf(rowBufs, 0, Softmaxes[w], z)
      BY RowsHaveWaves, SoftmaxesOwned DEF Owned2, RowsOf
    <3> QED
      BY <1>1, <3>1
  <2>2. ASSUME NEW h \in AllOf(ownBufs, 0, W, z) PROVE \E v \in W : h \in V[v]
    <3>1. PICK w \in W : h \in OwnOf(ownBufs, 0, w, z)
      BY SharesHaveWaves DEF WavesOwned
    <3> QED
      BY <3>1 DEF HeadV
  <2>3. SumO(0) \cup KeptQ = AllOf(ownBufs, 0, W, z)
    BY DEF SumO, KeptQ, AllOf
  <2>4. State(0) = RowsOf(rowBufs, z) \cup AllOf(ownBufs, 0, W, z)
    BY <2>3 DEF State
  <2> QED
    BY <2>1, <2>2, <2>4 DEF Covered
<1> QED
  BY <1>3, <1>4, <1>5, <1>6, BufferTeam

\* With the barrier that follows.
LEMMA HeadPart == Part(PrefillWaves, [w \in PrefillWaves |-> PrefillHead(w)], {}, State(0))
<1> PICK W : W = PrefillWaves
  OBVIOUS
<1> DEFINE t == [w \in W |-> Do(Tile1W[w], HeadV[w])]
<1>1. Stages(W, t, Tile1W, HeadV)
  BY StagesDo
<1>2. [w \in W |-> t[w] \o Sync] = [w \in W |-> PrefillHead(w)]
  BY DEF PrefillHead, Tile1W
<1> HIDE DEF t
<1>3. Part(W, [w \in W |-> t[w] \o Sync], {}, State(0))
  BY <1>1, HeadTeam, TeamPart
<1> QED
  BY <1>2, <1>3
-----------------------------------------------------------------------------
Places4(l, b, w, r) == <<b[3], b[2] * TileRows + r, b[1], w>>
EndR(l, b, w) == AllOf({"l"}, 0, 0 .. QRows(l, b) - 1, KvBlocks(l, b)) \cup OwnOf({"O"}, 0, w, KvBlocks(l, b))
EndV(l, b, w) == UNION {Result({Places4(l, b, w, r)}, Gathered(l, b, r, KvBlocks(l, b))) : r \in 0 .. QRows(l, b) - 1}

\* What a wave stores is its own: its number is part of the place.
LEMMA EndCells ==
    ASSUME NEW l, NEW b, NEW w, NEW c \in CellsOf(EndV(l, b, w))
    PROVE  \E p : c = <<"out", p>> /\ p[4] = w
<1>1. PICK h \in EndV(l, b, w) : c = h[1]
  BY DEF CellsOf
<1>2. PICK r \in 0 .. QRows(l, b) - 1 : h \in Result({Places4(l, b, w, r)}, Gathered(l, b, r, KvBlocks(l, b)))
  BY DEF EndV
<1>3. h[1] = <<"out", Places4(l, b, w, r)>>
  BY <1>2 DEF Result
<1>4. Places4(l, b, w, r)[4] = w
  BY DEF Places4
<1> QED
  BY <1>1, <1>3, <1>4

\* The waves store rows of O that are divided by l.
LEMMA EndTeam ==
    ASSUME NEW l, NEW b, 0 .. QRows(l, b) - 1 \subseteq TileRowSet
    PROVE  Team(PrefillWaves, [w \in PrefillWaves |-> EndR(l, b, w)], [w \in PrefillWaves |-> EndV(l, b, w)],
                State(KvBlocks(l, b)), {})
<1> PICK W, n, rows : W = PrefillWaves /\ n = KvBlocks(l, b) /\ rows = 0 .. QRows(l, b) - 1
  OBVIOUS
<1> DEFINE R == [w \in W |-> EndR(l, b, w)]
           V == [w \in W |-> EndV(l, b, w)]
<1>1. ASSUME NEW w \in W PROVE R[w] \subseteq State(n) /\ \A c \in CellsOf(R[w]) : c[1] \in {"l", "O"}
  <2> PICK x, y : x = AllOf({"l"}, 0, rows, n) /\ y = AllOf({"O"}, 0, {w}, n)
    OBVIOUS
  <2>1. R[w] = x \cup y
    <3>1. OwnOf({"O"}, 0, w, n) = y
      BY OwnIsAll
    <3>2. R[w] = EndR(l, b, w)
      OBVIOUS
    <3> HIDE DEF R
    <3> QED
      BY <3>1, <3>2 DEF EndR
  <2>2. x \subseteq RowsOf({"m", "l"}, n)
    <3> PICK one, both : one = {"l"} /\ both = {"m", "l"}
      OBVIOUS
    <3>1. one \subseteq both /\ rows \subseteq TileRowSet
      OBVIOUS
    <3>2. AllOf(one, 0, rows, n) \subseteq AllOf(both, 0, TileRowSet, n)
      BY ONLY <3>1, AllGrows
    <3> QED
      BY <3>2 DEF RowsOf
  <2>3. y \subseteq SumO(n)
    <3> PICK some : some = {w}
      OBVIOUS
    <3>1. some \subseteq W
      OBVIOUS
    <3>2. AllOf({"O"}, 0, some, n) \subseteq AllOf({"O"}, 0, W, n)
      BY <3>1, AllGrows
    <3> QED
      BY <3>2 DEF SumO
  <2> HIDE DEF R
  <2>4. R[w] \subseteq State(n)
    BY <2>1, <2>2, <2>3 DEF State
  <2>5. ASSUME NEW c \in CellsOf(R[w]) PROVE c[1] \in {"l", "O"}
    <3>1. c \in CellsOf(x) \/ c \in CellsOf(y)
      <4>1. CellsOf(x \cup y) = CellsOf(x) \cup CellsOf(y)
        BY CellsOfUnion
      <4>2. c \in CellsOf(x \cup y)
        BY ONLY <2>1, c \in CellsOf(R[w])
      <4> QED
        BY ONLY <4>1, <4>2
    <3>2. c[1] \in {"l"} \/ c[1] \in {"O"}
      BY <3>1, CellParts
    <3> QED
      BY <3>2
  <2> QED
    BY <2>4, <2>5
<1>2. ASSUME NEW w \in W, NEW c \in CellsOf(V[w]) PROVE c[1] = "out" /\ c[2][4] = w
  <2>1. \E p : c = <<"out", p>> /\ p[4] = w
    BY EndCells
  <2> QED
    BY <2>1
<1>3. "out" \notin {"l", "O"}
  OBVIOUS
<1> HIDE DEF R, V
<1>4. ASSUME NEW v \in W, NEW w \in W, v # w, NEW c, c \in CellsOf(V[v])
      PROVE  c \notin CellsOf(R[w]) /\ c \notin CellsOf(V[w])
  BY <1>1, <1>2, <1>3, <1>4
<1>5. Team(W, R, V, State(n), {})
  BY <1>1, <1>4 DEF Team
<1> QED
  BY <1>5 DEF R, V

\* The numbers of a tile with queries.
LEMMA PrefillNumbers ==
    ASSUME NEW l, IsPrefillLaunch(l), NEW b, b[2] \in Nat, b[3] \in DOMAIN l.q,
           ~(b[2] * TileRows >= l.q[b[3]])
    PROVE  0 .. QRows(l, b) - 1 \subseteq TileRowSet /\ KvBlocks(l, b) \in Nat
<1> PICK n, q, c, x : n = TileRows /\ q = l.q[b[3]] /\ c = l.ctx[b[3]] /\ x = b[2] * n
  OBVIOUS
<1>1. n \in Nat \ {0} /\ q \in Nat /\ c \in Nat /\ q <= c
  <2>1. Counts(l.ctx) /\ Counts(l.q) /\ DOMAIN l.q = DOMAIN l.ctx /\ q <= c
    BY DEF IsPrefillLaunch, IsDecodeLaunch
  <2>2. q \in Nat /\ c \in Nat
    BY <2>1 DEF Counts
  <2> QED
    BY <2>1, <2>2, AttnAssumption
<1>2. x \in Nat /\ x < q
  BY <1>1
<1>3. QRows(l, b) = Least(n, q - x)
  BY DEF QRows
<1>4. QRows(l, b) \in Nat /\ QRows(l, b) <= n
  BY ONLY <1>1, <1>2, <1>3 DEF Least
<1>5. 0 .. QRows(l, b) - 1 \subseteq TileRowSet
  BY ONLY <1>1, <1>4, n = TileRows DEF TileRowSet
<1>6. Prefix(l, b[3]) = c - q
  BY DEF Prefix
<1> PICK y : y = (c - q) + x + QRows(l, b)
  OBVIOUS
<1>7. y \in Nat
  BY ONLY <1>1, <1>2, <1>4, y = (c - q) + x + QRows(l, b)
<1>8. KvLimit(l, b) = IF l.causal THEN Least(c, y) ELSE c
  BY <1>6 DEF KvLimit
<1>9. KvLimit(l, b) \in Nat
  BY ONLY <1>1, <1>7, <1>8 DEF Least
<1>10. KvBlocks(l, b) \in Nat
  BY <1>1, <1>9, StrideBelow DEF KvBlocks
<1> QED
  BY <1>5, <1>10

\* A tile without queries returns with all its waves, another goes through all tiles of keys.
LEMMA FlashPrefillProper ==
    ASSUME NEW l, IsPrefillLaunch(l), NEW b, b[2] \in Nat, b[3] \in DOMAIN l.q
    PROVE  Proper(PrefillWaves, [w \in PrefillWaves |-> FlashPrefill(l, b, w)])
<1> PICK W, n : W = PrefillWaves /\ n = KvBlocks(l, b)
  OBVIOUS
<1>1. CASE b[2] * TileRows >= l.q[b[3]]
  <2>1. [w \in W |-> FlashPrefill(l, b, w)] = [w \in W |-> <<>>]
    BY <1>1 DEF FlashPrefill
  <2>2. Part(W, [w \in W |-> <<>>], {}, {})
    BY NothingIsPart
  <2> QED
    BY <2>1, <2>2, PartIsEnding DEF Proper
<1>2. CASE ~(b[2] * TileRows >= l.q[b[3]])
  <2> DEFINE h == [w \in W |-> PrefillHead(w)]
             a == [w \in W |-> PrefillLoop(w, n)]
             R == [w \in W |-> EndR(l, b, w)]
             V == [w \in W |-> EndV(l, b, w)]
             t == [w \in W |-> Do(R[w], V[w])]
  <2>1. 0 .. QRows(l, b) - 1 \subseteq TileRowSet /\ n \in Nat
    BY <1>2, PrefillNumbers
  <2>2. Part(W, h, {}, State(0)) /\ Part(W, a, State(0), State(n))
    BY <2>1, HeadPart, PrefillLoopPart
  <2>3. Stages(W, t, R, V) /\ Team(W, R, V, State(n), {})
    BY <2>1, StagesDo, EndTeam
  <2>4. DOMAIN h = W /\ DOMAIN a = W
    OBVIOUS
  <2>5. ASSUME NEW w \in W PROVE (h[w] \o a[w]) \o t[w] = FlashPrefill(l, b, w)
    <3> PICK x, y, z : x = PrefillHead(w) /\ y = PrefillLoop(w, n) /\ z = Do(EndR(l, b, w), EndV(l, b, w))
      OBVIOUS
    <3>1. x = Do({}, ByRow({"m", "l"}, SoftmaxRows(w), 0) \cup Own({"O", "Q"}, w, 0)) \o Sync
      BY DEF PrefillHead, HeadV, ByRow, Own
    <3>2. y = Loop(0, n, LAMBDA kb : PrefillBlock(w, kb))
      BY DEF PrefillLoop
    <3>3. z = Do(ByRow({"l"}, 0 .. QRows(l, b) - 1, n) \cup Own({"O"}, w, n),
                 UNION {Result({<<b[3], b[2] * TileRows + r, b[1], w>>}, Gathered(l, b, r, n)) :
                           r \in 0 .. QRows(l, b) - 1})
      BY DEF EndR, EndV, Places4, ByRow, Own
    <3>4. FlashPrefill(l, b, w) = x \o y \o z
      BY <1>2, <3>1, <3>2, <3>3 DEF FlashPrefill
    <3> QED
      BY <3>4
  <2> HIDE DEF h, a, t, R, V
  <2>6. Ending(W, t, State(n), {})
    BY <2>3, TeamEnding
  <2>7. Part(W, Cat(h, a), {}, State(n))
    BY <2>2, PartThenPart
  <2>8. Ending(W, Cat(Cat(h, a), t), {}, {})
    BY <2>6, <2>7, PartThenEnding
  <2>9. Cat(Cat(h, a), t) = [w \in W |-> (h[w] \o a[w]) \o t[w]]
    BY <2>4 DEF Cat
  <2> QED
    BY <2>5, <2>8, <2>9 DEF Proper
<1> QED
  BY <1>1, <1>2
-----------------------------------------------------------------------------
\* A workgroup of an attention launch.
IsAttn(g) ==
    /\ g[1] \in DecodeKernels \cup PrefillKernels
    /\ IsAttnLaunch(g[1], g[2])
    /\ g[3] \in AttnBlocks(g[1], g[2])

\* Every attention kernel is in order.
LEMMA AttnProper ==
    ASSUME NEW g, IsAttn(g)
    PROVE  Proper(AttnWaves(g[1]), [w \in AttnWaves(g[1]) |-> AttnCode(g[1], g[2], g[3], w)])
<1> PICK k, l, b : k = g[1] /\ l = g[2] /\ b = g[3]
  OBVIOUS
<1> PICK W : W = AttnWaves(k)
  OBVIOUS
<1>1. CASE k = "decode"
  <2>1. W = DecodeWaves /\ \A w : AttnCode(k, l, b, w) = FlashDecode(l, b, w)
    BY <1>1 DEF AttnWaves, AttnCode, DecodeWaves, DecodeKernels
  <2> QED
    BY <2>1, FlashDecodeProper
<1>2. CASE k \in {"decode_paged", "decode_paged_fp8"}
  <2>1. W = DecodeWaves /\ \A w : AttnCode(k, l, b, w) = PagedDecode(l, b, w)
    BY <1>2 DEF AttnWaves, AttnCode, DecodeWaves, DecodeKernels, PagedFp8Decode
  <2> QED
    BY <2>1, PagedDecodeProper
<1>3. CASE k \in PrefillKernels
  <2>1. IsPrefillLaunch(l) /\ b \in AttnBlocks(k, l) /\ k \notin DecodeKernels
    BY <1>3 DEF IsAttn, IsAttnLaunch, PrefillKernels, DecodeKernels
  <2>2. PICK h \in 0 .. l.heads - 1, s \in DOMAIN l.q, t \in UNION {0 .. Ceil(l.q[u], TileRows) - 1 : u \in DOMAIN l.q} :
             b = <<h, t, s>>
    BY <2>1 DEF AttnBlocks
  <2>3. PICK u \in DOMAIN l.q : t \in 0 .. Ceil(l.q[u], TileRows) - 1
    OBVIOUS
  <2>4. Ceil(l.q[u], TileRows) \in Nat
    <3>1. l.q[u] \in Nat /\ TileRows \in Nat \ {0}
      BY <2>1, AttnAssumption DEF IsPrefillLaunch, Counts
    <3> QED
      BY <3>1, StrideBelow
  <2>5. b[2] \in Nat /\ b[3] \in DOMAIN l.q
    BY <2>2, <2>3, <2>4
  <2>6. W = PrefillWaves /\ \A w : AttnCode(k, l, b, w) = FlashPrefill(l, b, w)
    BY <1>3, <2>1 DEF AttnWaves, AttnCode, PrefillKernels, FlashFp8Prefill
  <2> QED
    BY <2>1, <2>5, <2>6, FlashPrefillProper
<1>4. k = "decode" \/ k \in {"decode_paged", "decode_paged_fp8"} \/ k \in PrefillKernels
  BY DEF IsAttn, DecodeKernels
<1> QED
  BY <1>1, <1>2, <1>3, <1>4

\* The attention kernels over any launch: any number of sequences, of keys and of queries, any window.
THEOREM AttnKernelsAreSafe ==
    ASSUME \A g \in Groups :
              IsAttn(g) /\ CodeOf(g) = [w \in AttnWaves(g[1]) |-> AttnCode(g[1], g[2], g[3], w)]
    PROVE  Spec => []NoRace /\ []ReadsMeant /\ []NobodyStranded
<1>1. ASSUME NEW g \in Groups PROVE RaceFree(CodeOf(g)) /\ ReadsFollow(CodeOf(g)) /\ BarriersAgree(CodeOf(g))
  <2>1. Proper(AttnWaves(g[1]), CodeOf(g))
    BY AttnProper
  <2> PICK c : c = CodeOf(g)
    OBVIOUS
  <2>2. Sound(c, {}, {}) /\ BarriersAgree(c)
    BY <2>1 DEF Proper, Ending
  <2>3. RaceFree(c) /\ ReadsFollow(c)
    BY <2>2, SoundFollows
  <2> QED
    BY <2>2, <2>3
<1>2. Spec => []NoRace
  BY <1>1, PhasesDecideRaces
<1>3. Spec => []ReadsMeant
  BY <1>1, PhasesDecideReads
<1>4. Spec => []NobodyStranded
  BY <1>1, CountsDecideStranding
<1> QED
  BY <1>2, <1>3, <1>4
-----------------------------------------------------------------------------
\* A query of a decode launch is stored by wave 0 of its block.
DecodeAt(b, w) == IF w = 0 THEN {<<b[2], b[1]>>} ELSE {}
DecodePlaces(k, l) == [b \in AttnBlocks(k, l) |-> [w \in DecodeWaves |-> DecodeAt(b, w)]]
DecodeQueries(l) == (DOMAIN l.ctx) \X (0 .. l.heads - 1)
SeenBy(l, s) == Visible(0 .. l.ctx[s] - 1, l.ctx[s] - 1, l.window)
DecodeKeys(l) == [p \in DecodeQueries(l) |-> SeenBy(l, p[1])]

\* A query of a decode launch is one wave's.
LEMMA DecodeOnce ==
    ASSUME NEW k \in DecodeKernels, NEW l
    PROVE  Once(AttnBlocks(k, l), DecodeWaves, DecodePlaces(k, l), DecodeQueries(l))
<1> PICK Bs, W, P, Q : Bs = AttnBlocks(k, l) /\ W = DecodeWaves /\ P = DecodePlaces(k, l) /\ Q = DecodeQueries(l)
  OBVIOUS
<1>1. \A b : b \in Bs <=> \E h \in 0 .. l.heads - 1 : \E s \in DOMAIN l.ctx : b = <<h, s>>
  BY DEF AttnBlocks
<1>2. \A x : x \in Q <=> \E h \in 0 .. l.heads - 1 : \E s \in DOMAIN l.ctx : x = <<s, h>>
  BY DEF DecodeQueries
<1>3. \A b \in Bs, w \in W : \A x : x \in P[b][w] <=> w = 0 /\ x = <<b[2], b[1]>>
  BY DEF DecodePlaces, DecodeAt
<1>4. 0 \in W
  BY AttnAssumption DEF DecodeWaves
<1>5. ASSUME NEW b \in Bs, NEW w \in W PROVE P[b][w] \subseteq Q
  BY <1>1, <1>2, <1>3
<1>6. ASSUME NEW x \in Q PROVE \E b \in Bs, w \in W : x \in P[b][w]
  <2>1. PICK h \in 0 .. l.heads - 1, s \in DOMAIN l.ctx : x = <<s, h>>
    BY <1>2
  <2>2. PICK b \in Bs : b = <<h, s>>
    BY <1>1
  <2> QED
    BY <1>3, <1>4, <2>1, <2>2
<1>7. ASSUME NEW b \in Bs, NEW c \in Bs, NEW v \in W, NEW w \in W, NEW x, x \in P[b][v], x \in P[c][w]
      PROVE  b = c /\ v = w
  <2>1. v = 0 /\ w = 0 /\ x = <<b[2], b[1]>> /\ x = <<c[2], c[1]>>
    BY <1>3, <1>7
  <2>2. b[1] = c[1] /\ b[2] = c[2]
    BY <2>1
  <2>3. b = <<b[1], b[2]>> /\ c = <<c[1], c[2]>>
    BY <1>1
  <2> QED
    BY <2>1, <2>2, <2>3
<1>8. Once(Bs, W, P, Q)
  BY <1>5, <1>6, <1>7 DEF Once
<1> QED
  BY <1>8

\* The waves take the keys a query may see, whatever their number.
LEMMA KeysOfWaves ==
    ASSUME NEW l, IsDecodeLaunch(l), NEW s \in DOMAIN l.ctx
    PROVE  UNION {WarpKeys(l, s, u) : u \in DecodeWaves} = SeenBy(l, s)
<1> PICK c, n, d : c = l.ctx[s] /\ n = NWarps /\ d = l.window
  OBVIOUS
<1>1. c \in Nat /\ n \in Nat \ {0} /\ d \in Nat /\ DecodeWaves = 0 .. n - 1
  BY AttnAssumption DEF IsDecodeLaunch, Counts, DecodeWaves
<1>2. \A j, u : j \in WarpKeys(l, s, u) <=> j \in 0 .. c - 1 /\ j % n = u /\ ~(d > 0 /\ c - 1 - j >= d)
  BY DEF WarpKeys
<1>3. \A j \in 0 .. c - 1 : j % n \in DecodeWaves
  <2> SUFFICES ASSUME NEW j \in 0 .. c - 1 PROVE j % n \in DecodeWaves
    OBVIOUS
  <2>1. j \in Nat
    OBVIOUS
  <2> QED
    BY <1>1, <2>1, Division
<1>4. \A j : j \in SeenBy(l, s) <=> j \in 0 .. c - 1 /\ j <= c - 1 /\ (d > 0 => c - 1 - j < d)
  BY DEF SeenBy, Visible
<1>5. \A j : (j \in 0 .. c - 1 /\ ~(d > 0 /\ c - 1 - j >= d)) <=> j \in SeenBy(l, s)
  BY ONLY <1>1, <1>4
<1>6. \A j : j \in UNION {WarpKeys(l, s, u) : u \in DecodeWaves} <=> \E u \in DecodeWaves : j \in WarpKeys(l, s, u)
  OBVIOUS
<1>7. \A j : j \in UNION {WarpKeys(l, s, u) : u \in DecodeWaves} <=> j \in SeenBy(l, s)
  BY ONLY <1>2, <1>3, <1>5, <1>6
<1> QED
  BY <1>7

\* That wave weighs the keys its query may see.
LEMMA DecodeYields ==
    ASSUME NEW k \in DecodeKernels, NEW l, IsDecodeLaunch(l), NEW b \in AttnBlocks(k, l), NEW w \in DecodeWaves
    PROVE  Yields(AttnCode(k, l, b, w), Keyed(DecodeAt(b, w), DecodeKeys(l)))
<1> PICK Y, V, s, p : Y = Keyed(DecodeAt(b, w), DecodeKeys(l)) /\ V = SeenBy(l, b[2]) /\ s = b[2] /\ p = <<b[2], b[1]>>
  OBVIOUS
<1>1. p \in DecodeQueries(l) /\ p[1] = s /\ s \in DOMAIN l.ctx
  BY DEF AttnBlocks, DecodeQueries
<1>2. Y = IF w = 0 THEN Contributions({p}, V) ELSE {}
  <2>1. DecodeKeys(l)[p] = V
    BY <1>1 DEF DecodeKeys
  <2>2. DecodeAt(b, w) = IF w = 0 THEN {p} ELSE {}
    BY DEF DecodeAt
  <2> QED
    BY <2>1, <2>2 DEF Keyed
<1>3. Yields(FlashDecode(l, b, w), Y)
  <2> PICK x, y, ws : x = Do({}, Own(DecodeBufs, w, "partial")) \o Sync /\ y = DecodeMerge(l, b, w) /\ ws = DecodeWaves
    OBVIOUS
  <2>1. FlashDecode(l, b, w) = x \o y
    BY DEF FlashDecode, DecodeMerge, DecodeParts, DecodeResult, DecodeWaves, DecodeBufs, Own, All
  <2>2. Mute(x)
    <3> PICK bufs : bufs = DecodeBufs
      OBVIOUS
    <3>1. "out" \notin bufs
      BY DEF DecodeBufs
    <3>2. Local(Own(bufs, w, "partial"))
      BY <3>1, BufsLocal DEF Own
    <3> QED
      BY <3>2, MuteBasics, MuteThen
  <2>3. Yields(y, Y)
    <3>1. CASE w = 0
      <4> PICK one : one = {p}
        OBVIOUS
      <4>1. DecodeResult(l, b) = Result(one, V)
        BY <1>1, KeysOfWaves DEF DecodeResult
      <4>2. y = Do(DecodeParts, Result(one, V)) /\ Y = Contributions(one, V)
        BY <1>2, <3>1, <4>1 DEF DecodeMerge
      <4> QED
        BY ONLY <4>2, StoreYields
    <3>2. CASE w # 0
      BY <1>2, <3>2, NothingYields DEF DecodeMerge
    <3> QED
      BY <3>1, <3>2
  <2> QED
    BY <2>1, <2>2, <2>3, MuteThenYields
<1>4. ASSUME l.ctx[s] = 0 PROVE Yields(<<>>, Y)
  <2>1. V = {}
    BY <1>4 DEF SeenBy, Visible
  <2>2. Y = {}
    BY <1>2, <2>1 DEF Contributions
  <2> QED
    BY <2>2, NothingYields
<1>5. AttnCode(k, l, b, w) \in {FlashDecode(l, b, w), PagedDecode(l, b, w)}
  BY DEF AttnCode, DecodeKernels, PagedFp8Decode
<1>6. PagedDecode(l, b, w) = IF l.ctx[s] = 0 THEN <<>> ELSE FlashDecode(l, b, w)
  BY DEF PagedDecode
<1> QED
  BY <1>3, <1>4, <1>5, <1>6

\* What is wanted of a decode kernel.
LEMMA DecodeWantedIs ==
    ASSUME NEW k \in DecodeKernels, NEW l
    PROVE  AttnWanted(k, l) = Keyed(DecodeQueries(l), DecodeKeys(l))
<1> PICK A, V, H, D : A = AttnWanted(k, l) /\ V = Keyed(DecodeQueries(l), DecodeKeys(l))
                      /\ H = 0 .. l.heads - 1 /\ D = DOMAIN l.ctx
  OBVIOUS
<1>1. \A x : x \in A <=> \E s \in D : \E h \in H : \E j \in SeenBy(l, s) : x = <<<<"out", <<s, h>>>>, j>>
  BY DEF AttnWanted, SeenBy
<1>2. \A p : p \in DecodeQueries(l) <=> \E s \in D : \E h \in H : p = <<s, h>>
  BY DEF DecodeQueries
<1>3. \A s \in D, h \in H : DecodeKeys(l)[<<s, h>>] = SeenBy(l, s)
  BY <1>2 DEF DecodeKeys
<1>4. \A x : x \in V <=> \E p \in DecodeQueries(l) : \E j \in DecodeKeys(l)[p] : PartAt(x, p, j)
  BY KeyedIs
<1>5. \A x : x \in V <=> \E s \in D : \E h \in H : \E j \in SeenBy(l, s) : PartAt(x, <<s, h>>, j)
  <2>1. \A s \in D, h \in H : <<s, h>> \in DecodeQueries(l)
    BY <1>2
  <2>2. ASSUME NEW x, x \in V PROVE \E s \in D : \E h \in H : \E j \in SeenBy(l, s) : PartAt(x, <<s, h>>, j)
    <3>1. PICK p \in DecodeQueries(l) : \E j \in DecodeKeys(l)[p] : PartAt(x, p, j)
      BY <1>4, <2>2
    <3>2. PICK s \in D, h \in H : p = <<s, h>>
      BY <1>2
    <3>3. DecodeKeys(l)[p] = SeenBy(l, s)
      BY <1>3, <3>2
    <3> QED
      BY <3>1, <3>2, <3>3
  <2>3. ASSUME NEW x, NEW s \in D, NEW h \in H, NEW j \in SeenBy(l, s), PartAt(x, <<s, h>>, j) PROVE x \in V
    BY <1>3, <1>4, <2>1, <2>3
  <2> QED
    BY <2>2, <2>3
<1>6. \A x : x \in V <=> x \in A
  BY ONLY <1>1, <1>5 DEF PartAt
<1> QED
  BY <1>6

AttnTexts(k, l) == [b \in AttnBlocks(k, l) |-> [w \in AttnWaves(k) |-> AttnCode(k, l, b, w)]]

\* The decode kernels share their queries out.
LEMMA DecodeSharedOut ==
    ASSUME NEW k \in DecodeKernels, NEW l, IsDecodeLaunch(l)
    PROVE  /\ SharedOut(AttnBlocks(k, l), AttnWaves(k), AttnTexts(k, l), AttnWanted(k, l))
           /\ IsFiniteSet(AttnWanted(k, l))
<1> PICK Bs, W, t, P, K, Q : /\ Bs = AttnBlocks(k, l) /\ W = AttnWaves(k) /\ t = AttnTexts(k, l)
                             /\ P = DecodePlaces(k, l) /\ K = DecodeKeys(l) /\ Q = DecodeQueries(l)
  OBVIOUS
<1> PICK Y : Y = KeyedOf(Bs, W, P, K)
  OBVIOUS
<1>1. W = DecodeWaves
  BY DEF AttnWaves, DecodeWaves
<1>2. Once(Bs, W, Y, Keyed(Q, K))
  <2>1. Once(Bs, W, P, Q)
    BY <1>1, DecodeOnce
  <2> QED
    BY <2>1, OnceByKeys
<1>3. ASSUME NEW b \in Bs, NEW w \in W PROVE Yields(t[b][w], Y[b][w])
  <2>1. t[b][w] = AttnCode(k, l, b, w)
    BY DEF AttnTexts
  <2>2. Y[b][w] = Keyed(DecodeAt(b, w), K)
    BY <1>1 DEF KeyedOf, DecodePlaces
  <2> QED
    BY <1>1, <2>1, <2>2, DecodeYields
<1>4. Contributes(Bs, W, t, Y)
  BY <1>3 DEF Contributes
<1>5. IsFiniteSet(Keyed(Q, K))
  <2>1. IsFiniteSet(Q)
    <3>1. IsFiniteSet(DOMAIN l.ctx) /\ 0 \in Int /\ l.heads - 1 \in Int
      BY DEF IsDecodeLaunch, Counts
    <3>2. IsFiniteSet(0 .. l.heads - 1)
      BY <3>1, FS_Interval
    <3> QED
      BY <3>1, <3>2, FS_Product DEF DecodeQueries
  <2>2. ASSUME NEW p \in Q PROVE IsFiniteSet(K[p])
    <3> PICK s, c : s = p[1] /\ c = l.ctx[s]
      OBVIOUS
    <3>1. K[p] = SeenBy(l, s) /\ c \in Nat
      BY DEF DecodeKeys, DecodeQueries, IsDecodeLaunch, Counts
    <3>2. 0 \in Int /\ c - 1 \in Int
      BY <3>1
    <3>3. IsFiniteSet(0 .. c - 1)
      BY <3>2, FS_Interval
    <3>4. SeenBy(l, s) \in SUBSET (0 .. c - 1)
      BY DEF SeenBy, Visible
    <3> QED
      BY <3>1, <3>3, <3>4, FS_Subset
  <2> QED
    BY <2>1, <2>2, KeyedFinite
<1>6. AttnWanted(k, l) = Keyed(Q, K)
  BY DecodeWantedIs
<1> QED
  BY <1>2, <1>4, <1>5, <1>6 DEF SharedOut
-----------------------------------------------------------------------------
\* What rows of places store in one statement.
RowStores(rows, p, X) == UNION {Result({p[r]}, X[r]) : r \in rows}
RowParts(rows, p, X) == UNION {Contributions({p[r]}, X[r]) : r \in rows}

\* Rows stored together contribute what each does.
LEMMA StoresYield ==
    ASSUME NEW R, NEW rows, NEW p, NEW X
    PROVE  Yields(Do(R, RowStores(rows, p, X)), RowParts(rows, p, X))
<1> PICK V, Y, c : V = RowStores(rows, p, X) /\ Y = RowParts(rows, p, X) /\ c = Do(R, V)
  OBVIOUS
<1>1. IsText(c) /\ Len(c) = 1 /\ c[1].writes = V
  BY DoIsOne
<1>2. \A h : h \in V <=> \E r \in rows : h = <<<<"out", p[r]>>, X[r]>>
  BY DEF RowStores, Result
<1>3. \A y : y \in Y <=> \E r \in rows : \E x \in X[r] : y = <<<<"out", p[r]>>, x>>
  BY DEF RowParts, Contributions
<1>4. \A i, h, x : Contribution(c, i, h, x) <=> i = 1 /\ h \in V /\ h[1][1] = "out" /\ x \in h[2]
  BY <1>1 DEF Contribution
<1>5. ASSUME NEW y \in Parts(c) PROVE y \in Y
  <2>1. PICK i, h, x : Contribution(c, i, h, x) /\ y = <<h[1], x>>
    BY PartsAre
  <2>2. PICK r \in rows : h = <<<<"out", p[r]>>, X[r]>>
    BY <1>2, <1>4, <2>1
  <2>3. x \in X[r] /\ y = <<<<"out", p[r]>>, x>>
    BY <1>4, <2>1, <2>2
  <2> QED
    BY <1>3, <2>3
<1>6. ASSUME NEW y \in Y PROVE y \in Parts(c)
  <2>1. PICK r \in rows : \E x \in X[r] : y = <<<<"out", p[r]>>, x>>
    BY <1>3
  <2>2. PICK x \in X[r] : y = <<<<"out", p[r]>>, x>>
    BY <2>1
  <2> PICK h : h = <<<<"out", p[r]>>, X[r]>>
    OBVIOUS
  <2>3. h \in V /\ h[1][1] = "out" /\ x \in h[2] /\ y = <<h[1], x>>
    BY <1>2, <2>2
  <2>4. Contribution(c, 1, h, x)
    BY <1>4, <2>3
  <2> QED
    BY <2>3, <2>4, PartsAre
<1>7. Parts(c) = Y
  BY <1>5, <1>6
<1> QED
  BY <1>1, <1>7 DEF Yields

\* A round over a tile of keys adds nothing by itself.
LEMMA TileMute == ASSUME NEW w, NEW kb PROVE Mute(PrefillBlock(w, kb))
<1> PICK bufs : bufs = {"K", "V", "S", "P", "PV", "m", "l", "resc", "O", "Q"}
  OBVIOUS
<1>1. "out" \notin bufs
  BY ONLY bufs = {"K", "V", "S", "P", "PV", "m", "l", "resc", "O", "Q"}
<1>2. ASSUME NEW B, B \subseteq bufs
      PROVE  /\ \A v, x : Local(Own(B, v, x))
             /\ \A rows, x : Local(ByRow(B, rows, x))
  <2>1. "out" \notin B
    BY <1>1, <1>2
  <2> QED
    BY <2>1, BufsLocal DEF Own, ByRow
<1>3. \A B, C : Local(B) /\ Local(C) => Local(B \cup C)
  BY DEF Local
<1> PICK R2, R3, R4, R5 :
        /\ R2 = All({"Q"}, PrefillWaves, 0) \cup All({"K"}, PrefillWaves, kb)
        /\ R3 = ByRow({"S", "m", "l"}, SoftmaxRows(w), kb)
        /\ R4 = ByRow({"P"}, MTile(w), kb) \cup All({"V"}, PrefillWaves, kb)
        /\ R5 = Own({"O"}, w, kb) \cup ByRow({"resc", "PV"}, 0 .. TileRows - 1, kb)
  OBVIOUS
<1> PICK U1, U2, U3, U4, U5 :
        /\ U1 = Own({"K", "V"}, w, kb)
        /\ U2 = ByRow({"S"}, MTile(w), kb)
        /\ U3 = ByRow({"S", "P", "resc"}, SoftmaxRows(w), kb) \cup ByRow({"m", "l"}, SoftmaxRows(w), kb + 1)
        /\ U4 = ByRow({"PV"}, MTile(w), kb)
        /\ U5 = Own({"O"}, w, kb + 1)
  OBVIOUS
<1>4. {"K", "V"} \subseteq bufs /\ {"S"} \subseteq bufs /\ {"S", "P", "resc"} \subseteq bufs
      /\ {"m", "l"} \subseteq bufs /\ {"PV"} \subseteq bufs /\ {"O"} \subseteq bufs
  BY ONLY bufs = {"K", "V", "S", "P", "PV", "m", "l", "resc", "O", "Q"}
<1>5. Local(U1) /\ Local(U2) /\ Local(U4) /\ Local(U5)
  BY <1>2, <1>4
<1>6. Local(U3)
  BY <1>2, <1>3, <1>4
<1> PICK x : x = IF SoftmaxRows(w) # {} THEN Do(R3, U3) ELSE <<>>
  OBVIOUS
<1>7. Mute(Do({}, U1)) /\ Mute(Do(R2, U2)) /\ Mute(x) /\ Mute(Do(R4, U4)) /\ Mute(Do(R5, U5)) /\ Mute(Sync)
  BY <1>5, <1>6, MuteBasics
<1>8. PrefillBlock(w, kb)
        = Do({}, U1) \o Sync \o Do(R2, U2) \o Sync \o x \o Sync \o Do(R4, U4) \o Sync \o Do(R5, U5) \o Sync
  BY DEF PrefillBlock
<1>9. Mute(Do({}, U1) \o Sync \o Do(R2, U2) \o Sync)
  BY <1>7, MuteThen
<1>10. Mute(Do({}, U1) \o Sync \o Do(R2, U2) \o Sync \o x \o Sync)
  BY ONLY <1>7, <1>9, MuteThen
<1>11. Mute(Do({}, U1) \o Sync \o Do(R2, U2) \o Sync \o x \o Sync \o Do(R4, U4) \o Sync)
  BY ONLY <1>7, <1>10, MuteThen
<1>12. Mute(Do({}, U1) \o Sync \o Do(R2, U2) \o Sync \o x \o Sync \o Do(R4, U4) \o Sync \o Do(R5, U5) \o Sync)
  BY ONLY <1>7, <1>11, MuteThen
<1> QED
  BY <1>8, <1>12

\* The tiles of keys contribute nothing before the rows are stored.
LEMMA TilesMute == ASSUME NEW w, NEW n \in Nat PROVE Mute(PrefillLoop(w, n))
<1> PICK B : B = PrefillBodies(w, n)
  OBVIOUS
<1>1. \A i \in 0 .. n - 1 : Mute(B[i])
  BY TileMute DEF PrefillBodies
<1>2. 0 \in Nat /\ 0 <= n
  OBVIOUS
<1>3. Bodies(0, n, B) /\ \A f : Unrolled(f, 0, n, B) => Mute(f[n])
  BY <1>1, <1>2, MuteLoops
<1>4. PICK f : Unrolled(f, 0, n, B) /\ PrefillLoop(w, n) = f[n]
  BY <1>3, PrefillUnrolls
<1> QED
  BY <1>3, <1>4

\* Nor does the head.
LEMMA PrefillHeadMute == ASSUME NEW w \in PrefillWaves PROVE Mute(PrefillHead(w))
<1> PICK x, y : x = {"m", "l"} /\ y = {"O", "Q"}
  OBVIOUS
<1>1. "out" \notin x /\ "out" \notin y
  OBVIOUS
<1>2. Local(AllOf(x, 0, SoftmaxRows(w), 0)) /\ Local(OwnOf(y, 0, w, 0))
  BY <1>1, BufsLocal
<1>3. HeadV[w] = AllOf(x, 0, SoftmaxRows(w), 0) \cup OwnOf(y, 0, w, 0)
  BY DEF HeadV
<1>4. Local(HeadV[w])
  BY ONLY <1>2, <1>3 DEF Local
<1> QED
  BY <1>4, MuteBasics, MuteThen DEF PrefillHead
-----------------------------------------------------------------------------
HasQueries(l, b) == b[2] * TileRows < l.q[b[3]]
PrefillAt(l, b, w) == IF HasQueries(l, b) THEN {Places4(l, b, w, r) : r \in 0 .. QRows(l, b) - 1} ELSE {}
RowYield(l, b, w) ==
    UNION {Contributions({Places4(l, b, w, r)}, Gathered(l, b, r, KvBlocks(l, b))) : r \in 0 .. QRows(l, b) - 1}
PrefillYield(l, b, w) == IF HasQueries(l, b) THEN RowYield(l, b, w) ELSE {}

\* A wave of flash_prefill contributes the rows it stores, if the tile has any.
LEMMA FlashPrefillYields ==
    ASSUME NEW l, IsPrefillLaunch(l), NEW b, b[2] \in Nat, b[3] \in DOMAIN l.q, NEW w \in PrefillWaves
    PROVE  Yields(FlashPrefill(l, b, w), PrefillYield(l, b, w))
<1>0. HasQueries(l, b) <=> ~(b[2] * TileRows >= l.q[b[3]])
  <2>1. l.q[b[3]] \in Nat /\ TileRows \in Nat
    BY AttnAssumption DEF IsPrefillLaunch, Counts
  <2>2. b[2] * TileRows \in Nat
    BY <2>1
  <2> QED
    BY <2>1, <2>2 DEF HasQueries
<1>1. CASE ~HasQueries(l, b)
  BY <1>0, <1>1, NothingYields DEF FlashPrefill, PrefillYield
<1>2. CASE HasQueries(l, b)
  <2> PICK n, x, y, z : /\ n = KvBlocks(l, b) /\ x = PrefillHead(w) /\ y = PrefillLoop(w, n)
                        /\ z = Do(EndR(l, b, w), EndV(l, b, w))
    OBVIOUS
  <2>1. x = Do({}, ByRow({"m", "l"}, SoftmaxRows(w), 0) \cup Own({"O", "Q"}, w, 0)) \o Sync
    BY DEF PrefillHead, HeadV, ByRow, Own
  <2>2. y = Loop(0, n, LAMBDA kb : PrefillBlock(w, kb))
    BY DEF PrefillLoop
  <2>3. z = Do(ByRow({"l"}, 0 .. QRows(l, b) - 1, n) \cup Own({"O"}, w, n),
               UNION {Result({<<b[3], b[2] * TileRows + r, b[1], w>>}, Gathered(l, b, r, n)) :
                         r \in 0 .. QRows(l, b) - 1})
    BY DEF EndR, EndV, Places4, ByRow, Own
  <2>4. FlashPrefill(l, b, w) = x \o y \o z
    BY <1>0, <1>2, <2>1, <2>2, <2>3 DEF FlashPrefill
  <2>5. Mute(x) /\ Mute(y)
    <3>1. n \in Nat
      BY <1>0, <1>2, PrefillNumbers
    <3> QED
      BY <3>1, PrefillHeadMute, TilesMute
  <2>6. Yields(z, RowYield(l, b, w))
    <3> PICK R, rows, p, X : /\ R = EndR(l, b, w) /\ rows = 0 .. QRows(l, b) - 1
                             /\ p = [r \in rows |-> Places4(l, b, w, r)] /\ X = [r \in rows |-> Gathered(l, b, r, n)]
      OBVIOUS
    <3>1. Yields(Do(R, RowStores(rows, p, X)), RowParts(rows, p, X))
      BY StoresYield
    <3>2. \A r \in rows : p[r] = Places4(l, b, w, r) /\ X[r] = Gathered(l, b, r, n)
      OBVIOUS
    <3>3. EndV(l, b, w) = RowStores(rows, p, X)
      <4>1. {Result({p[r]}, X[r]) : r \in rows} = {Result({Places4(l, b, w, r)}, Gathered(l, b, r, n)) : r \in rows}
        BY <3>2
      <4> QED
        BY <4>1 DEF EndV, RowStores
    <3>4. RowYield(l, b, w) = RowParts(rows, p, X)
      <4>1. {Contributions({p[r]}, X[r]) : r \in rows}
              = {Contributions({Places4(l, b, w, r)}, Gathered(l, b, r, n)) : r \in rows}
        BY <3>2
      <4> QED
        BY <4>1 DEF RowYield, RowParts
    <3> QED
      BY <3>1, <3>3, <3>4
  <2>7. Yields(x \o y \o z, RowYield(l, b, w))
    BY <2>5, <2>6, MuteThen, MuteThenYields
  <2> QED
    BY <1>2, <2>4, <2>7 DEF PrefillYield
<1> QED
  BY <1>1, <1>2
-----------------------------------------------------------------------------
\* The keys query i of sequence s may see.
SeenFrom(l, s, i) ==
    IF l.causal THEN Visible(0 .. l.ctx[s] - 1, Prefix(l, s) + i, l.window) ELSE 0 .. l.ctx[s] - 1

\* A row of a tile that has queries.
RowOf(l, b, r) == b[2] \in Nat /\ b[3] \in DOMAIN l.q /\ HasQueries(l, b) /\ r \in 0 .. QRows(l, b) - 1

\* The numbers of such a row: n rows to a tile, q queries, c keys, k queries from x on in the tile, query i in its row r.
RowNumbers(n, q, c, x, k, r, i) ==
    /\ n \in Nat \ {0} /\ q \in Nat /\ c \in Nat /\ q <= c /\ x \in Nat /\ x < q
    /\ k = Least(n, q - x) /\ r \in 0 .. k - 1 /\ i = x + r

\* A row's number and its key position are in range.
LEMMA RowNumbersAre ==
    ASSUME NEW n, NEW q, NEW c, NEW x, NEW k, NEW r, NEW i, RowNumbers(n, q, c, x, k, r, i)
    PROVE  i \in 0 .. q - 1 /\ r \in 0 .. n - 1 /\ k \in Nat /\ (c - q) + i < (c - q) + x + k /\ (c - q) + i \in 0 .. c - 1
BY DEF RowNumbers, Least

\* A row of a tile with queries is one of the sequence's.
LEMMA RowIs ==
    ASSUME NEW l, IsPrefillLaunch(l), NEW b, NEW r, RowOf(l, b, r)
    PROVE  RowNumbers(TileRows, l.q[b[3]], l.ctx[b[3]], b[2] * TileRows, QRows(l, b), r, b[2] * TileRows + r)
<1>1. Counts(l.ctx) /\ Counts(l.q) /\ DOMAIN l.q = DOMAIN l.ctx /\ l.q[b[3]] <= l.ctx[b[3]]
  BY DEF IsPrefillLaunch, IsDecodeLaunch, RowOf
<1>2. l.q[b[3]] \in Nat /\ l.ctx[b[3]] \in Nat /\ TileRows \in Nat \ {0}
  BY <1>1, AttnAssumption DEF Counts, RowOf
<1>3. b[2] * TileRows \in Nat
  BY <1>2 DEF RowOf
<1> QED
  BY <1>1, <1>2, <1>3 DEF RowNumbers, RowOf, HasQueries, QRows

\* What a row has gathered at the end is what its query may see: its own position always, so that
\* it never ends on masked scores.
LEMMA GatheredIsSeen ==
    ASSUME NEW l, IsPrefillLaunch(l), NEW b, NEW r, RowOf(l, b, r)
    PROVE  Gathered(l, b, r, KvBlocks(l, b)) = SeenFrom(l, b[3], b[2] * TileRows + r)
<1> PICK t, q, c, x, k, i, d, s : /\ t = TileRows /\ q = l.q[b[3]] /\ c = l.ctx[b[3]] /\ x = b[2] * TileRows
                                  /\ k = QRows(l, b) /\ i = x + r /\ d = l.window /\ s = b[3]
  OBVIOUS
<1>1. RowNumbers(t, q, c, x, k, r, i) /\ d \in Nat /\ l.causal \in BOOLEAN
  BY RowIs DEF IsPrefillLaunch, IsDecodeLaunch
<1>2. i \in 0 .. q - 1 /\ r \in 0 .. t - 1 /\ k \in Nat /\ (c - q) + i < (c - q) + x + k /\ (c - q) + i \in 0 .. c - 1
  BY ONLY <1>1, RowNumbersAre
<1>3. t \in Nat \ {0} /\ q \in Nat /\ c \in Nat /\ q <= c /\ x \in Nat /\ r \in 0 .. k - 1
  BY ONLY <1>1 DEF RowNumbers
<1> PICK y, z, a : y = (c - q) + i /\ z = (c - q) + x + k /\ a = KvLimit(l, b)
  OBVIOUS
<1>4. y \in 0 .. c - 1 /\ y < z /\ z \in Nat
  BY ONLY <1>2, <1>3, y = (c - q) + i, z = (c - q) + x + k
<1>5. a = IF l.causal THEN Least(c, z) ELSE c
  BY DEF KvLimit, Prefix
<1>6. a \in Nat /\ a <= c /\ (l.causal => a = c \/ a = z) /\ (~l.causal => a = c)
  BY ONLY <1>1, <1>3, <1>4, <1>5 DEF Least
<1> PICK n, M, V : n = KvBlocks(l, b) /\ M = [kb \in 0 .. n - 1 |-> Unmasked(l, b, r, kb)] /\ V = SeenFrom(l, s, i)
  OBVIOUS
<1>7. n = Ceil(a, t) /\ n \in Nat
  <2>1. n = Ceil(a, t)
    BY DEF KvBlocks
  <2> QED
    BY <1>3, <1>6, <2>1, CeilCovers
<1>8. \A j : j \in V <=> j \in 0 .. c - 1 /\ (l.causal => j <= y /\ (d > 0 => y - j < d))
  <2>1. Prefix(l, s) + i = y
    BY DEF Prefix
  <2> QED
    BY <2>1, <1>1 DEF SeenFrom, Visible
<1>9. \A j \in V : j < a
  BY ONLY <1>3, <1>4, <1>6, <1>8
<1>10. \A kb \in 0 .. n - 1 : \A j : j \in M[kb] <=>
           j \in BlockKeys(kb) /\ j < c /\ (l.causal => j <= y /\ ~(d > 0 /\ y - j >= d))
  <2> SUFFICES ASSUME NEW kb \in 0 .. n - 1
               PROVE  \A j : j \in M[kb] <=>
                         j \in BlockKeys(kb) /\ j < c /\ (l.causal => j <= y /\ ~(d > 0 /\ y - j >= d))
    OBVIOUS
  <2>1. Prefix(l, b[3]) + b[2] * TileRows + r = y
    <3>1. Prefix(l, b[3]) = c - q
      BY DEF Prefix
    <3>2. (c - q) + x + r = y
      BY ONLY <1>3, y = (c - q) + i, i = x + r
    <3> QED
      BY <3>1, <3>2
  <2>2. r < k
    BY ONLY <1>2, <1>3
  <2>3. M[kb] = Unmasked(l, b, r, kb)
    OBVIOUS
  <2> QED
    BY <2>1, <2>2, <2>3 DEF Unmasked
<1>11. \A kb \in 0 .. n - 1 : \A j \in BlockKeys(kb) : j \in Nat
  <2> SUFFICES ASSUME NEW kb \in 0 .. n - 1, NEW j \in BlockKeys(kb) PROVE j \in Nat
    OBVIOUS
  <2>1. PICK e \in Nat : e = kb * t
    BY <1>3, <1>7
  <2>2. j \in e .. e + t - 1
    BY <2>1 DEF BlockKeys
  <2>3. e \in Nat
    OBVIOUS
  <2> QED
    BY ONLY <1>3, <2>2, <2>3
<1>12. ASSUME NEW kb \in 0 .. n - 1, NEW j \in M[kb] PROVE j \in V
  <2>1. j \in Nat /\ j < c /\ (l.causal => j <= y /\ ~(d > 0 /\ y - j >= d))
    BY <1>10, <1>11
  <2>2. j \in 0 .. c - 1 /\ (l.causal => j <= y /\ (d > 0 => y - j < d))
    BY ONLY <1>1, <1>3, <1>4, <2>1
  <2> QED
    BY <1>8, <2>2
<1>13. ASSUME NEW j \in V PROVE \E kb \in 0 .. n - 1 : j \in M[kb]
  <2>1. j \in 0 .. c - 1 /\ j < a /\ (l.causal => j <= y /\ (d > 0 => y - j < d))
    BY <1>8, <1>9
  <2>2. j \in 0 .. a - 1
    BY ONLY <1>6, <2>1
  <2>3. InPiece(a, t, j)
    BY <1>3, <1>6, <2>2, PieceOf
  <2> PICK kb : kb = j \div t
    OBVIOUS
  <2>4. kb \in 0 .. n - 1 /\ j = kb * t + (j % t) /\ j % t \in 0 .. t - 1
    BY <1>7, <2>3 DEF InPiece
  <2>5. j \in BlockKeys(kb)
    <3>1. PICK e \in Nat, f \in 0 .. t - 1 : e = kb * t /\ f = j % t /\ j = e + f
      BY <1>3, <1>7, <2>4
    <3>2. j \in e .. e + t - 1
      BY ONLY <1>3, <3>1
    <3> QED
      BY <3>1, <3>2 DEF BlockKeys
  <2>6. j < c /\ (l.causal => j <= y /\ ~(d > 0 /\ y - j >= d))
    BY ONLY <1>1, <1>3, <1>4, <2>1
  <2> QED
    BY <1>10, <2>4, <2>5, <2>6
<1>14. V # {}
  <2>1. y \in 0 .. c - 1 /\ y <= y /\ (d > 0 => y - y < d)
    BY ONLY <1>1, <1>3, <1>4
  <2> QED
    BY <1>8, <2>1
<1> DEFINE seen == CHOOSE u : u = [e \in 0 .. n |-> IF e = 0 THEN {} ELSE u[e - 1] \cup Unmasked(l, b, r, e - 1)]
<1>15. Gathered(l, b, r, n) = IF seen[n] # {} THEN seen[n] ELSE UNION {BlockKeys(kb) : kb \in 0 .. n - 1}
  BY DEF Gathered
<1>16. ASSUME NEW u
       PROVE  Accumulates(u, n, M) <=> u = [e \in 0 .. n |-> IF e = 0 THEN {} ELSE u[e - 1] \cup Unmasked(l, b, r, e - 1)]
  <2>1. \A e \in 0 .. n : e # 0 => M[e - 1] = Unmasked(l, b, r, e - 1)
    <3> SUFFICES ASSUME NEW e \in 0 .. n, e # 0 PROVE M[e - 1] = Unmasked(l, b, r, e - 1)
      OBVIOUS
    <3>1. e - 1 \in 0 .. n - 1
      BY <1>7
    <3> QED
      BY <3>1
  <2>2. [e \in 0 .. n |-> IF e = 0 THEN {} ELSE u[e - 1] \cup M[e - 1]]
          = [e \in 0 .. n |-> IF e = 0 THEN {} ELSE u[e - 1] \cup Unmasked(l, b, r, e - 1)]
    BY <2>1
  <2> QED
    BY <2>2 DEF Accumulates
<1>17. PICK u : Accumulates(u, n, M)
  BY <1>7, AccumulatesAll
<1>18. Accumulates(seen, n, M)
  BY <1>16, <1>17
<1> HIDE DEF seen
<1>19. \A j : j \in seen[n] <=> \E kb \in 0 .. n - 1 : j \in M[kb]
  BY <1>7, <1>18, AccumulatesAll
<1>20. seen[n] = V
  BY ONLY <1>12, <1>13, <1>19
<1> QED
  BY <1>14, <1>15, <1>20
-----------------------------------------------------------------------------
\* Places of a prefill launch: query i of sequence s, head h, the share of wave w in its row.
PrefillPlaces(k, l) == [b \in AttnBlocks(k, l) |-> [w \in PrefillWaves |-> PrefillAt(l, b, w)]]
PrefillQueries(l) ==
    UNION {{<<s, i, h, w>> : h \in 0 .. l.heads - 1, w \in PrefillWaves, i \in 0 .. l.q[s] - 1} : s \in DOMAIN l.q}
PrefillKeys(l) == [p \in PrefillQueries(l) |-> SeenFrom(l, p[1], p[2])]

\* A query is a sequence, a row of it, a head and a wave.
LEMMA QueriesAre ==
    ASSUME NEW l
    PROVE  \A p : p \in PrefillQueries(l) <=>
               \E s \in DOMAIN l.q : \E i \in 0 .. l.q[s] - 1 : \E h \in 0 .. l.heads - 1 : \E w \in PrefillWaves :
                   p = <<s, i, h, w>>
BY DEF PrefillQueries

\* A block of a prefill launch.
PrefillBlockIs(l, b) ==
    b = <<b[1], b[2], b[3]>> /\ b[1] \in 0 .. l.heads - 1 /\ b[2] \in Nat /\ b[3] \in DOMAIN l.q

\* A block is a head, a tile of rows and a sequence, and every tile has one.
LEMMA PrefillBlocksAre ==
    ASSUME NEW k \in PrefillKernels, NEW l, IsPrefillLaunch(l)
    PROVE  /\ \A b \in AttnBlocks(k, l) : PrefillBlockIs(l, b)
           /\ \A h \in 0 .. l.heads - 1 : \A s \in DOMAIN l.q : \A t \in 0 .. Ceil(l.q[s], TileRows) - 1 :
                  <<h, t, s>> \in AttnBlocks(k, l)
<1>1. k \notin DecodeKernels
  BY DEF PrefillKernels, DecodeKernels
<1>2. \A b : b \in AttnBlocks(k, l) <=> \E h \in 0 .. l.heads - 1 : \E s \in DOMAIN l.q :
          \E t \in UNION {0 .. Ceil(l.q[u], TileRows) - 1 : u \in DOMAIN l.q} : b = <<h, t, s>>
  BY <1>1 DEF AttnBlocks
<1>3. \A t : t \in UNION {0 .. Ceil(l.q[u], TileRows) - 1 : u \in DOMAIN l.q} <=>
          \E u \in DOMAIN l.q : t \in 0 .. Ceil(l.q[u], TileRows) - 1
  OBVIOUS
<1>4. \A u \in DOMAIN l.q : Ceil(l.q[u], TileRows) \in Nat
  <2> SUFFICES ASSUME NEW u \in DOMAIN l.q PROVE Ceil(l.q[u], TileRows) \in Nat
    OBVIOUS
  <2>1. l.q[u] \in Nat /\ TileRows \in Nat \ {0}
    BY AttnAssumption DEF IsPrefillLaunch, Counts
  <2> QED
    BY <2>1, CeilCovers
<1>5. \A u \in DOMAIN l.q : \A t \in 0 .. Ceil(l.q[u], TileRows) - 1 : t \in Nat
  BY <1>4
<1>6. ASSUME NEW b \in AttnBlocks(k, l) PROVE PrefillBlockIs(l, b)
  <2>1. PICK h \in 0 .. l.heads - 1, s \in DOMAIN l.q, t \in UNION {0 .. Ceil(l.q[u], TileRows) - 1 : u \in DOMAIN l.q} :
            b = <<h, t, s>>
    BY <1>2
  <2>2. t \in Nat
    BY <1>3, <1>5
  <2> QED
    BY <2>1, <2>2 DEF PrefillBlockIs
<1> QED
  BY <1>2, <1>3, <1>6

\* The queries of a wave, row by row.
LEMMA PrefillAtIs ==
    ASSUME NEW l, IsPrefillLaunch(l), NEW b, PrefillBlockIs(l, b), NEW w
    PROVE  \A x : x \in PrefillAt(l, b, w) <=>
               \E r : RowOf(l, b, r) /\ x = <<b[3], b[2] * TileRows + r, b[1], w>>
BY DEF PrefillAt, Places4, RowOf, PrefillBlockIs

\* A query of a prefill launch is one wave's of one tile.
LEMMA PrefillOnce ==
    ASSUME NEW k \in PrefillKernels, NEW l, IsPrefillLaunch(l)
    PROVE  Once(AttnBlocks(k, l), PrefillWaves, PrefillPlaces(k, l), PrefillQueries(l))
<1> PICK Bs, W, P, Q, n : /\ Bs = AttnBlocks(k, l) /\ W = PrefillWaves /\ P = PrefillPlaces(k, l)
                          /\ Q = PrefillQueries(l) /\ n = TileRows
  OBVIOUS
<1>1. n \in Nat \ {0}
  BY AttnAssumption
<1>2. \A b \in Bs : PrefillBlockIs(l, b)
  BY PrefillBlocksAre
<1>3. ASSUME NEW b \in Bs, NEW w \in W
      PROVE  \A x : x \in P[b][w] <=> \E r : RowOf(l, b, r) /\ x = <<b[3], b[2] * n + r, b[1], w>>
  <2>1. P[b][w] = PrefillAt(l, b, w)
    BY DEF PrefillPlaces
  <2> QED
    BY <1>2, <2>1, PrefillAtIs
<1>4. ASSUME NEW b \in Bs, NEW r, RowOf(l, b, r)
      PROVE  b[2] * n + r \in 0 .. l.q[b[3]] - 1 /\ r \in 0 .. n - 1 /\ b[2] \in Nat
  <2>1. RowNumbers(n, l.q[b[3]], l.ctx[b[3]], b[2] * n, QRows(l, b), r, b[2] * n + r)
    BY <1>4, RowIs
  <2> QED
    BY <1>4, <2>1, RowNumbersAre DEF RowOf
<1>5. ASSUME NEW b \in Bs, NEW w \in W PROVE P[b][w] \subseteq Q
  <2> SUFFICES ASSUME NEW x \in P[b][w] PROVE x \in Q
    OBVIOUS
  <2>1. PICK r : RowOf(l, b, r) /\ x = <<b[3], b[2] * n + r, b[1], w>>
    BY <1>3
  <2>2. b[2] * n + r \in 0 .. l.q[b[3]] - 1
    BY <1>4, <2>1
  <2>3. b[1] \in 0 .. l.heads - 1 /\ b[3] \in DOMAIN l.q
    BY <1>2 DEF PrefillBlockIs
  <2> QED
    BY <2>1, <2>2, <2>3, QueriesAre
<1>6. ASSUME NEW x \in Q PROVE \E b \in Bs, w \in W : x \in P[b][w]
  <2>1. PICK s \in DOMAIN l.q : \E i \in 0 .. l.q[s] - 1 : \E h \in 0 .. l.heads - 1 : \E w \in W : x = <<s, i, h, w>>
    BY QueriesAre
  <2>2. PICK i \in 0 .. l.q[s] - 1, h \in 0 .. l.heads - 1, w \in W : x = <<s, i, h, w>>
    BY <2>1
  <2> PICK q, t, r : q = l.q[s] /\ t = i \div n /\ r = i % n
    OBVIOUS
  <2>3. q \in Nat
    BY DEF IsPrefillLaunch, Counts
  <2>4. InPiece(q, n, i)
    BY <1>1, <2>3, PieceOf
  <2>5. t \in 0 .. Ceil(q, n) - 1 /\ i = t * n + r /\ r \in 0 .. n - 1
    BY <2>4 DEF InPiece
  <2>6. PICK b \in Bs : b = <<h, t, s>>
    BY <2>5, PrefillBlocksAre
  <2>7. t \in Nat
    BY <1>2, <2>6 DEF PrefillBlockIs
  <2>8. PICK e \in Nat : e = t * n /\ i = e + r
    BY <1>1, <2>5, <2>7
  <2>9. e < q /\ r \in 0 .. Least(n, q - e) - 1
    BY ONLY <1>1, <2>3, <2>5, <2>8, i \in 0 .. l.q[s] - 1, q = l.q[s] DEF Least
  <2>10. RowOf(l, b, r)
    BY <2>6, <2>7, <2>8, <2>9 DEF RowOf, HasQueries, QRows
  <2>11. x = <<b[3], b[2] * n + r, b[1], w>>
    BY <2>2, <2>5, <2>6
  <2> QED
    BY <1>3, <2>10, <2>11
<1>7. ASSUME NEW b \in Bs, NEW c \in Bs, NEW v \in W, NEW w \in W, NEW x, x \in P[b][v], x \in P[c][w]
      PROVE  b = c /\ v = w
  <2>1. PICK r : RowOf(l, b, r) /\ x = <<b[3], b[2] * n + r, b[1], v>>
    BY <1>3, <1>7
  <2>2. PICK e : RowOf(l, c, e) /\ x = <<c[3], c[2] * n + e, c[1], w>>
    BY <1>3, <1>7
  <2>3. b[3] = c[3] /\ b[1] = c[1] /\ v = w /\ b[2] * n + r = c[2] * n + e
    BY <2>1, <2>2
  <2>4. b[2] \in Nat /\ c[2] \in Nat /\ r \in 0 .. n - 1 /\ e \in 0 .. n - 1
    BY <1>4, <2>1, <2>2
  <2>5. SameOnLine(n, b[2], r, c[2], e)
    BY <2>3 DEF SameOnLine
  <2>6. b[2] = c[2]
    BY <1>1, <2>4, <2>5, LineOnce
  <2>7. b = <<b[1], b[2], b[3]>> /\ c = <<c[1], c[2], c[3]>>
    BY <1>2 DEF PrefillBlockIs
  <2> QED
    BY <2>3, <2>6, <2>7
<1>8. Once(Bs, W, P, Q)
  BY <1>5, <1>6, <1>7 DEF Once
<1> QED
  BY <1>8

\* A wave of a prefill kernel weighs the keys its queries may see.
LEMMA PrefillYields ==
    ASSUME NEW k \in PrefillKernels, NEW l, IsPrefillLaunch(l), NEW b \in AttnBlocks(k, l), NEW w \in PrefillWaves
    PROVE  Yields(AttnCode(k, l, b, w), Keyed(PrefillAt(l, b, w), PrefillKeys(l)))
<1> PICK Y, K, n : Y = Keyed(PrefillAt(l, b, w), PrefillKeys(l)) /\ K = PrefillKeys(l) /\ n = KvBlocks(l, b)
  OBVIOUS
<1>1. PrefillBlockIs(l, b)
  BY PrefillBlocksAre
<1>2. AttnCode(k, l, b, w) = FlashPrefill(l, b, w)
  BY DEF AttnCode, PrefillKernels, FlashFp8Prefill
<1>3. Yields(FlashPrefill(l, b, w), PrefillYield(l, b, w))
  BY <1>1, FlashPrefillYields DEF PrefillBlockIs
<1>4. ASSUME NEW r, RowOf(l, b, r) PROVE K[Places4(l, b, w, r)] = Gathered(l, b, r, n)
  <2> PICK p, i, s : p = Places4(l, b, w, r) /\ i = b[2] * TileRows + r /\ s = b[3]
    OBVIOUS
  <2>1. p[1] = s /\ p[2] = i
    BY DEF Places4
  <2>2. RowNumbers(TileRows, l.q[b[3]], l.ctx[b[3]], b[2] * TileRows, QRows(l, b), r, i)
    BY <1>4, RowIs
  <2>3. i \in 0 .. l.q[s] - 1
    BY <2>2, RowNumbersAre
  <2>4. p \in PrefillQueries(l)
    BY <1>1, <2>3, QueriesAre DEF Places4, PrefillBlockIs
  <2>5. K[p] = SeenFrom(l, s, i)
    BY <2>1, <2>4 DEF PrefillKeys
  <2> QED
    BY <1>4, <2>5, GatheredIsSeen
<1>5. PrefillYield(l, b, w) = Y
  <2>1. CASE ~HasQueries(l, b)
    BY <2>1 DEF PrefillYield, PrefillAt, Keyed
  <2>2. CASE HasQueries(l, b)
    <3> PICK rows : rows = 0 .. QRows(l, b) - 1
      OBVIOUS
    <3>1. \A r \in rows : K[Places4(l, b, w, r)] = Gathered(l, b, r, n)
      BY <1>1, <1>4, <2>2 DEF RowOf, PrefillBlockIs
    <3>2. \A x : x \in Y <=> \E p \in PrefillAt(l, b, w) : x \in Contributions({p}, K[p])
      BY DEF Keyed
    <3>3. \A p : p \in PrefillAt(l, b, w) <=> \E r \in rows : p = Places4(l, b, w, r)
      BY <2>2 DEF PrefillAt
    <3>4. \A x : x \in RowYield(l, b, w) <=>
              \E r \in rows : x \in Contributions({Places4(l, b, w, r)}, Gathered(l, b, r, n))
      BY DEF RowYield
    <3>5. \A x : x \in RowYield(l, b, w) <=> x \in Y
      <4>1. ASSUME NEW x \in RowYield(l, b, w) PROVE x \in Y
        <5>1. PICK r \in rows : x \in Contributions({Places4(l, b, w, r)}, Gathered(l, b, r, n))
          BY <3>4
        <5> PICK p : p = Places4(l, b, w, r)
          OBVIOUS
        <5> QED
          BY <3>1, <3>2, <3>3, <5>1
      <4>2. ASSUME NEW x \in Y PROVE x \in RowYield(l, b, w)
        <5>1. PICK p \in PrefillAt(l, b, w) : x \in Contributions({p}, K[p])
          BY <3>2
        <5>2. PICK r \in rows : p = Places4(l, b, w, r)
          BY <3>3
        <5> QED
          BY <3>1, <3>4, <5>1, <5>2
      <4> QED
        BY <4>1, <4>2
    <3> QED
      BY <2>2, <3>5 DEF PrefillYield
  <2> QED
    BY <2>1, <2>2
<1> QED
  BY <1>2, <1>3, <1>5

\* What is wanted of a prefill kernel.
LEMMA PrefillWantedIs ==
    ASSUME NEW k \in PrefillKernels, NEW l
    PROVE  AttnWanted(k, l) = Keyed(PrefillQueries(l), PrefillKeys(l))
<1> PICK A, V, H, W, D : /\ A = AttnWanted(k, l) /\ V = Keyed(PrefillQueries(l), PrefillKeys(l))
                         /\ H = 0 .. l.heads - 1 /\ W = PrefillWaves /\ D = DOMAIN l.q
  OBVIOUS
<1>1. k \notin DecodeKernels
  BY DEF PrefillKernels, DecodeKernels
<1> DEFINE of(s, i) == {<<<<"out", <<s, i, h, w>>>>, j>> : h \in H, w \in W, j \in SeenFrom(l, s, i)}
<1>2. A = UNION {UNION {of(s, i) : i \in 0 .. l.q[s] - 1} : s \in D}
  BY <1>1 DEF AttnWanted, SeenFrom
<1>3. \A s, i, x : x \in of(s, i) <=> \E h \in H : \E w \in W : \E j \in SeenFrom(l, s, i) : PartAt(x, <<s, i, h, w>>, j)
  BY DEF PartAt
<1> HIDE DEF of
<1>4. \A x : x \in A <=> \E s \in D : \E i \in 0 .. l.q[s] - 1 : x \in of(s, i)
  BY <1>2
<1>5. \A s \in D : \A i \in 0 .. l.q[s] - 1 : \A h \in H, w \in W :
          <<s, i, h, w>> \in PrefillQueries(l) /\ PrefillKeys(l)[<<s, i, h, w>>] = SeenFrom(l, s, i)
  BY QueriesAre DEF PrefillKeys
<1>6. \A x : x \in V <=> \E p \in PrefillQueries(l) : \E j \in PrefillKeys(l)[p] : PartAt(x, p, j)
  BY KeyedIs
<1>7. ASSUME NEW x \in A PROVE x \in V
  <2>1. PICK s \in D : \E i \in 0 .. l.q[s] - 1 : x \in of(s, i)
    BY <1>4
  <2>2. PICK i \in 0 .. l.q[s] - 1 : x \in of(s, i)
    BY <2>1
  <2>3. PICK h \in H, w \in W : \E j \in SeenFrom(l, s, i) : PartAt(x, <<s, i, h, w>>, j)
    BY <1>3, <2>2
  <2> PICK p : p = <<s, i, h, w>>
    OBVIOUS
  <2>4. p \in PrefillQueries(l) /\ PrefillKeys(l)[p] = SeenFrom(l, s, i)
    BY <1>5
  <2> QED
    BY <1>6, <2>3, <2>4
<1>8. ASSUME NEW x \in V PROVE x \in A
  <2>1. PICK p \in PrefillQueries(l) : \E j \in PrefillKeys(l)[p] : PartAt(x, p, j)
    BY <1>6
  <2>2. PICK s \in D : \E i \in 0 .. l.q[s] - 1 : \E h \in H : \E w \in W : p = <<s, i, h, w>>
    BY QueriesAre
  <2>3. PICK i \in 0 .. l.q[s] - 1, h \in H, w \in W : p = <<s, i, h, w>>
    BY <2>2
  <2>4. PrefillKeys(l)[p] = SeenFrom(l, s, i)
    BY <1>5, <2>3
  <2>5. x \in of(s, i)
    BY <1>3, <2>1, <2>3, <2>4
  <2> QED
    BY <1>4, <2>5
<1> QED
  BY <1>7, <1>8
-----------------------------------------------------------------------------
\* A launch has finitely many queries.
LEMMA QueriesFinite ==
    ASSUME NEW l, IsPrefillLaunch(l)
    PROVE  IsFiniteSet(PrefillQueries(l))
<1> PICK H, W, D : H = 0 .. l.heads - 1 /\ W = PrefillWaves /\ D = DOMAIN l.q
  OBVIOUS
<1>1. IsFiniteSet(H) /\ IsFiniteSet(W) /\ IsFiniteSet(D) /\ \A s \in D : l.q[s] \in Nat
  <2>1. l.heads \in Nat /\ IsFiniteSet(D) /\ \A s \in D : l.q[s] \in Nat
    BY DEF IsPrefillLaunch, IsDecodeLaunch, Counts
  <2> PICK n, d, m : n = TileRows /\ d = Dim /\ m = n \div d
    OBVIOUS
  <2>2. n \in Nat \ {0} /\ d \in Nat \ {0}
    BY AttnAssumption, TileAssumption
  <2>3. m \in Nat
    BY <2>2, Division
  <2>4. 0 \in Int /\ l.heads - 1 \in Int /\ m - 1 \in Int /\ W = 0 .. m - 1
    BY <2>1, <2>3 DEF PrefillWaves
  <2>5. IsFiniteSet(0 .. m - 1) /\ IsFiniteSet(0 .. l.heads - 1)
    BY <2>4, FS_Interval
  <2> QED
    BY <2>1, <2>4, <2>5
<1> DEFINE of(s) == {s} \X (0 .. l.q[s] - 1)
           f == [s \in D |-> of(s)]
           S == UNION {f[s] : s \in D}
           T == (S \X H) \X W
           g == [z \in T |-> <<z[1][1][1], z[1][1][2], z[1][2], z[2]>>]
<1>2. ASSUME NEW s \in D PROVE IsFiniteSet(of(s))
  <2> PICK one, is : one = {s} /\ is = 0 .. l.q[s] - 1
    OBVIOUS
  <2>1. IsFiniteSet(one)
    BY FS_Singleton
  <2>2. 0 \in Int /\ l.q[s] - 1 \in Int
    BY <1>1
  <2>3. IsFiniteSet(is)
    BY <2>2, FS_Interval
  <2>4. IsFiniteSet(one \X is)
    BY ONLY <2>1, <2>3, FS_Product
  <2> QED
    BY <2>4
<1>3. \A x : x \in S <=> \E s \in D : \E i \in 0 .. l.q[s] - 1 : x = <<s, i>>
  <2>1. \A s, x : x \in of(s) <=> \E i \in 0 .. l.q[s] - 1 : x = <<s, i>>
    OBVIOUS
  <2>2. \A x : x \in S <=> \E s \in D : x \in of(s)
    <3> HIDE DEF of
    <3> QED
      OBVIOUS
  <2> HIDE DEF of, S
  <2> QED
    BY <2>1, <2>2
<1>4. IsFiniteSet(S)
  <2>1. \A s \in D : IsFiniteSet(f[s])
    BY <1>2
  <2> HIDE DEF f
  <2> QED
    BY <1>1, <2>1, FiniteFamily
<1> HIDE DEF S
<1>5. IsFiniteSet(T)
  BY <1>1, <1>4, FS_Product
<1>6. \A z \in T : g[z] = <<z[1][1][1], z[1][1][2], z[1][2], z[2]>>
  OBVIOUS
<1>7. \A z : z \in T <=> \E s \in D : \E i \in 0 .. l.q[s] - 1 : \E h \in H : \E w \in W : z = <<<<<<s, i>>, h>>, w>>
  <2>1. \A z : z \in T <=> \E x \in S : \E h \in H : \E w \in W : z = <<<<x, h>>, w>>
    OBVIOUS
  <2> HIDE DEF T
  <2> QED
    BY <1>3, <2>1
<1>8. g = [z \in T |-> g[z]]
  OBVIOUS
<1> HIDE DEF T, g
<1> PICK Q : Q = PrefillQueries(l)
  OBVIOUS
<1>9. \A p : p \in Q <=> \E s \in D : \E i \in 0 .. l.q[s] - 1 : \E h \in H : \E w \in W : p = <<s, i, h, w>>
  BY QueriesAre
<1>10. ASSUME NEW z \in T PROVE g[z] \in Q
  <2>1. PICK s \in D : \E i \in 0 .. l.q[s] - 1 : \E h \in H : \E w \in W : z = <<<<<<s, i>>, h>>, w>>
    BY <1>7
  <2>2. PICK i \in 0 .. l.q[s] - 1, h \in H, w \in W : z = <<<<<<s, i>>, h>>, w>>
    BY <2>1
  <2>3. g[z] = <<s, i, h, w>>
    BY <1>6, <2>2
  <2> QED
    BY <1>9, <2>3
<1>11. ASSUME NEW p \in Q PROVE \E z \in T : g[z] = p
  <2>1. PICK s \in D : \E i \in 0 .. l.q[s] - 1 : \E h \in H : \E w \in W : p = <<s, i, h, w>>
    BY <1>9
  <2>2. PICK i \in 0 .. l.q[s] - 1, h \in H, w \in W : p = <<s, i, h, w>>
    BY <2>1
  <2>3. PICK z \in T : z = <<<<<<s, i>>, h>>, w>>
    BY <1>7
  <2>4. g[z] = p
    BY <1>6, <2>2, <2>3
  <2> QED
    BY <2>4
<1>12. g \in Surjection(T, Q)
  BY <1>8, <1>10, <1>11 DEF Surjection
<1> QED
  BY <1>5, <1>12, FS_Surjection

\* The prefill kernels share their queries out.
LEMMA PrefillSharedOut ==
    ASSUME NEW k \in PrefillKernels, NEW l, IsPrefillLaunch(l)
    PROVE  /\ SharedOut(AttnBlocks(k, l), AttnWaves(k), AttnTexts(k, l), AttnWanted(k, l))
           /\ IsFiniteSet(AttnWanted(k, l))
<1> PICK Bs, W, t, P, K, Q : /\ Bs = AttnBlocks(k, l) /\ W = AttnWaves(k) /\ t = AttnTexts(k, l)
                             /\ P = PrefillPlaces(k, l) /\ K = PrefillKeys(l) /\ Q = PrefillQueries(l)
  OBVIOUS
<1> PICK Y : Y = KeyedOf(Bs, W, P, K)
  OBVIOUS
<1>1. W = PrefillWaves
  BY DEF AttnWaves, PrefillKernels, DecodeKernels
<1>2. Once(Bs, W, Y, Keyed(Q, K))
  <2>1. Once(Bs, W, P, Q)
    BY <1>1, PrefillOnce
  <2> QED
    BY <2>1, OnceByKeys
<1>3. ASSUME NEW b \in Bs, NEW w \in W PROVE Yields(t[b][w], Y[b][w])
  <2>1. t[b][w] = AttnCode(k, l, b, w)
    BY DEF AttnTexts
  <2>2. Y[b][w] = Keyed(PrefillAt(l, b, w), K)
    BY <1>1 DEF KeyedOf, PrefillPlaces
  <2> QED
    BY <1>1, <2>1, <2>2, PrefillYields
<1>4. Contributes(Bs, W, t, Y)
  BY <1>3 DEF Contributes
<1>5. IsFiniteSet(Keyed(Q, K))
  <2>1. IsFiniteSet(Q)
    BY QueriesFinite
  <2>2. ASSUME NEW p \in Q PROVE IsFiniteSet(K[p])
    <3> PICK s, c : s = p[1] /\ c = l.ctx[s]
      OBVIOUS
    <3>1. K[p] = SeenFrom(l, s, p[2]) /\ s \in DOMAIN l.q
      BY QueriesAre DEF PrefillKeys
    <3>2. c \in Nat
      BY <3>1 DEF IsPrefillLaunch, IsDecodeLaunch, Counts
    <3>3. 0 \in Int /\ c - 1 \in Int
      BY <3>2
    <3>4. IsFiniteSet(0 .. c - 1)
      BY <3>3, FS_Interval
    <3>5. K[p] \in SUBSET (0 .. c - 1)
      BY <3>1 DEF SeenFrom, Visible
    <3> QED
      BY <3>4, <3>5, FS_Subset
  <2> QED
    BY <2>1, <2>2, KeyedFinite
<1>6. AttnWanted(k, l) = Keyed(Q, K)
  BY PrefillWantedIs
<1> QED
  BY <1>2, <1>4, <1>5, <1>6 DEF SharedOut

\* A launch all of whose blocks run.
RunsAttn(g) ==
    /\ IsAttn(g) /\ g = <<g[1], g[2], g[3]>>
    /\ CodeOf(g) = [w \in AttnWaves(g[1]) |-> AttnCode(g[1], g[2], g[3], w)]
WholeAttn(g) ==
    /\ \A b \in AttnBlocks(g[1], g[2]) : <<g[1], g[2], b>> \in Groups
    /\ Wanted(g[1], g[2]) = AttnWanted(g[1], g[2])

\* An attention launch all of whose blocks run.
LEMMA AttnOwned ==
    ASSUME \A g \in Groups : RunsAttn(g) /\ WholeAttn(g), NEW g \in Groups
    PROVE  OwnedOnce(g[1], g[2]) /\ IsFiniteSet(Wanted(g[1], g[2]))
<1> PICK k, l : k = g[1] /\ l = g[2]
  OBVIOUS
<1> PICK Bs, W, t, V : Bs = AttnBlocks(k, l) /\ W = AttnWaves(k) /\ t = AttnTexts(k, l) /\ V = Wanted(k, l)
  OBVIOUS
<1>1. k \in DecodeKernels \cup PrefillKernels /\ IsAttnLaunch(k, l) /\ V = AttnWanted(k, l)
  BY DEF RunsAttn, WholeAttn, IsAttn
<1>2. SharedOut(Bs, W, t, V) /\ IsFiniteSet(V)
  <2>1. CASE k \in DecodeKernels
    BY <1>1, <2>1, DecodeSharedOut DEF IsAttnLaunch
  <2>2. CASE k \in PrefillKernels
    <3>1. k \notin DecodeKernels
      BY <2>2 DEF PrefillKernels, DecodeKernels
    <3> QED
      BY <1>1, <2>2, <3>1, PrefillSharedOut DEF IsAttnLaunch
  <2> QED
    BY <1>1, <2>1, <2>2
<1>3. \A h : h \in LaunchOf(k, l) <=> \E b \in Bs : h = <<k, l, b>>
  <2>1. ASSUME NEW h \in LaunchOf(k, l) PROVE h[3] \in Bs /\ h = <<k, l, h[3]>>
    BY DEF LaunchOf, RunsAttn, IsAttn
  <2>2. ASSUME NEW b \in Bs PROVE <<k, l, b>> \in LaunchOf(k, l)
    BY DEF LaunchOf, WholeAttn
  <2> QED
    BY <2>1, <2>2
<1>4. ASSUME NEW b \in Bs PROVE CodeOf(<<k, l, b>>) = [w \in W |-> t[b][w]]
  <2> PICK h : h = <<k, l, b>>
    OBVIOUS
  <2>1. h \in Groups /\ h[1] = k /\ h[2] = l /\ h[3] = b
    BY <1>3 DEF LaunchOf
  <2>2. CodeOf(h) = [w \in W |-> AttnCode(k, l, b, w)]
    BY <2>1 DEF RunsAttn
  <2> QED
    BY <2>2 DEF AttnTexts
<1>5. LaunchIs(k, l, Bs, W, t)
  BY <1>3, <1>4 DEF LaunchIs
<1> QED
  BY <1>2, <1>5, SharedIsOwned

\* Whatever the sequences, the window and the mask, every query of an attention launch weighs the
\* keys it may see, each once, and no other.
THEOREM AttnOutputsOnce ==
    ASSUME \A g \in Groups : RunsAttn(g) /\ WholeAttn(g)
    PROVE  Spec => []OutputsOnce
<1>1. \A g \in Groups : IsFiniteSet(Wanted(g[1], g[2])) /\ OwnedOnce(g[1], g[2])
  BY AttnOwned
<1> QED
  BY <1>1, OwnersDecideOutputs
=============================================================================
