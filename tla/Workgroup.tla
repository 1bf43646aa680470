---------------------------- MODULE Workgroup ----------------------------
(* One workgroup of a GPU kernel.  Its waves run the kernel's code, each  *)
(* at its own pace; they share the local memory of the workgroup and      *)
(* meet only at __syncthreads.  The lanes of a wave run in lockstep: a    *)
(* wave is one actor here, and its code a sequence of statements,         *)
(*   [sync |-> FALSE, reads |-> R, writes |-> W], what the wave does to   *)
(*       local memory between two points of interest: R and W are sets of *)
(*       <<cell, version>>, the versions it means to read and to leave;   *)
(*   [sync |-> TRUE, ...], a __syncthreads.                               *)
(* A statement runs in one step.  That is no restriction where NoRace     *)
(* holds: nobody then touches the cells of a statement while another wave *)
(* writes them.                                                           *)
EXTENDS Naturals, Sequences, FiniteSets

CONSTANTS
    Groups,      \* the workgroups <<kernel, launch, block>>
    CodeOf(_),   \* the code of each wave of a workgroup
    Wanted(_, _) \* the contributions <<cell, part>> the output of a kernel's launch is made of

ASSUME CodeAssumption ==
    \A g \in Groups : LET c == CodeOf(g) IN \A w \in DOMAIN c :
        /\ Len(c[w]) \in Nat
        /\ \A i \in 1 .. Len(c[w]) : c[w][i].sync \in BOOLEAN

VARIABLES
    group,  \* the workgroup that runs
    code,   \* the code of its waves
    pc,     \* the next statement of each wave
    lds     \* <<cell, version>>: what local memory and the output hold

vars == <<group, code, pc, lds>>
-----------------------------------------------------------------------------
Waves == DOMAIN code
Ended(w) == pc[w] > Len(code[w])
Statement(w) == code[w][pc[w]]
Waits(w) == ~Ended(w) /\ Statement(w).sync
Runs(w) == ~Ended(w) /\ ~Statement(w).sync
CellsOf(s) == {h[1] : h \in s}

\* Local memory starts with what an earlier workgroup left: no version anybody means to read.
Init ==
    /\ group \in Groups
    /\ code = CodeOf(group)
    /\ pc = [w \in DOMAIN code |-> 1]
    /\ lds = {}

Run(w) ==
    /\ Runs(w)
    /\ pc' = [pc EXCEPT ![w] = @ + 1]
    /\ lds' = {h \in lds : h[1] \notin CellsOf(Statement(w).writes)} \cup Statement(w).writes
    /\ UNCHANGED <<group, code>>

\* A hasty barrier: opens for the first that comes.
BarrierBug ==
    /\ \E w \in Waves : Waits(w)
    /\ pc' = [w \in Waves |-> pc[w] + 1]
    /\ UNCHANGED <<group, code, lds>>

\* Every wave must come to the barrier: one that has ended keeps the others waiting for ever.
Barrier ==
    /\ \A w \in Waves : Waits(w)
    /\ pc' = [w \in Waves |-> pc[w] + 1]
    /\ UNCHANGED <<group, code, lds>>

Finished ==
    /\ \A w \in Waves : Ended(w)
    /\ UNCHANGED vars

Next == (\E w \in Waves : Run(w)) \/ Barrier \/ Finished

Spec == Init /\ [][Next]_vars
-----------------------------------------------------------------------------
TypeOK ==
    /\ group \in Groups
    /\ code = CodeOf(group)
    /\ pc \in [Waves -> Nat]
    /\ \A w \in Waves : pc[w] \in 1 .. Len(code[w]) + 1

Conflict(s, t) == CellsOf(s.writes) \cap (CellsOf(t.reads) \cup CellsOf(t.writes)) # {}

\* Two waves that may run now never touch one cell of which one of them writes: between any
\* two uses of a cell by different waves, one of them a write, the kernel has a __syncthreads.
NoRace ==
    \A v, w \in Waves :
        v # w /\ Runs(v) /\ Runs(w) => ~Conflict(Statement(v), Statement(w))

\* What a wave reads next is what the kernel means it to read: the tile of this K group in this
\* half of a double buffer, the matrix that an overlaid region holds now, never a leftover.
ReadsMeant == \A w \in Waves : Runs(w) => Statement(w).reads \subseteq lds

\* No wave ends while another waits at a barrier: no early return and no tail guard in the
\* kernel goes around a __syncthreads that the rest of the workgroup will come to.
NobodyStranded == \A v, w \in Waves : ~(Ended(v) /\ Waits(w))

Parts(c) ==
    UNION {UNION {{<<h[1], p>> : p \in h[2]} : h \in {h \in c[i].writes : h[1][1] = "out"}} : i \in 1 .. Len(c)}
TaggedParts(g) == LET c == CodeOf(g) IN UNION {{<<g, w, p>> : p \in Parts(c[w])} : w \in DOMAIN c}
Launch == {g \in Groups : g[1] = group[1] /\ g[2] = group[2]}

\* Over the grid of a launch every part of every output is contributed once, tails and splits
\* included: no row, column, K group, key or token is left out, none is added twice.
OutputsOnce ==
    (\A w \in Waves : pc[w] = 1) =>
        LET tagged == UNION {TaggedParts(g) : g \in Launch}
            produced == {t[3] : t \in tagged}
        IN /\ produced = Wanted(group[1], group[2])
           /\ Cardinality(tagged) = Cardinality(produced)
-----------------------------------------------------------------------------
\* What can be read off the code without running it, and suffices for NoRace, NobodyStranded and
\* ReadsMeant.
Passed(c, i) == Cardinality({j \in 1 .. i - 1 : c[j].sync})

RaceFree(c) ==
    \A v, w \in DOMAIN c : v # w =>
        \A i \in 1 .. Len(c[v]), j \in 1 .. Len(c[w]) :
            ~c[v][i].sync /\ ~c[w][j].sync /\ Passed(c[v], i) = Passed(c[w], j) => ~Conflict(c[v][i], c[w][j])
BarriersAgree(c) ==
    \A v, w \in DOMAIN c : Passed(c[v], Len(c[v]) + 1) = Passed(c[w], Len(c[w]) + 1)

\* Statement j of wave v always runs before statement i of wave w.
Earlier(c, v, j, w, i) == (v = w /\ j < i) \/ Passed(c[v], j) < Passed(c[w], i)
WritesTo(c, v, j, cell) == ~c[v][j].sync /\ cell \in CellsOf(c[v][j].writes)

\* Whatever is read was written before; what else is written to its cell is older or comes
\* after the reading.
ReadsFollow(c) ==
    \A w \in DOMAIN c : \A i \in 1 .. Len(c[w]) : ~c[w][i].sync =>
        \A h \in c[w][i].reads :
            \E v \in DOMAIN c : \E j \in 1 .. Len(c[v]) :
                /\ ~c[v][j].sync /\ h \in c[v][j].writes /\ Earlier(c, v, j, w, i)
                /\ \A u \in DOMAIN c : \A k \in 1 .. Len(c[u]) : WritesTo(c, u, k, h[1]) =>
                      \/ <<u, k>> \in {<<v, j>>, <<w, i>>}
                      \/ Earlier(c, u, k, v, j)
                      \/ Earlier(c, w, i, u, k)

\* The waves are always between the same two barriers.
SamePhase == \A v, w \in Waves : Passed(code[v], pc[v]) = Passed(code[w], pc[w])
=============================================================================
