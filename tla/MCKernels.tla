----------------------------- MODULE MCKernels -----------------------------
(* Small instances of the kernels: fragments of one row, tiles of two     *)
(* fragments, launches whose M, N and K groups do not divide.             *)
EXTENDS Workgroup, GemmKernels, MoeKernels, AttnKernels, LinearKernels, TLC

Tall(waves) == [bm |-> waves, bn |-> 2, wn |-> 1]
Wide(waves) == [bm |-> 1, bn |-> 2 * waves, wn |-> waves]
MCTile ==
    [k \in {"v2", "v4", "v5", "v6", "v7", "v8", "v9", "v10", "ashuffle", "v12", "v13"} |-> Tall(2)]
    @@ [k \in {"v14", "v15", "v16", "v17"} |-> Wide(2)]
    @@ ("v1" :> Tall(1)) @@ ("tiled" :> [bm |-> 2, bn |-> 2, wn |-> 2])

MCGemv == [waves |-> 2, chunk |-> 2]
Dense == [M : {3}, N : {3}, G : {3}, split : {4}, swiz : BOOLEAN, db : BOOLEAN]
    \cup [M : {1}, N : {5}, G : {5}, split : {4}, swiz : {TRUE}, db : {TRUE}]
DenseGroups == UNION {UNION {{<<k, l, b>> : b \in DenseBlocks(k, l)} : l \in Dense} : k \in DenseKernels}

\* Two tokens, two of three experts each: expert 0 has a row of both, the others pad; the ids
\* have room for more rows than a block divides.  Elsewhere the last expert is on another rank.
MCMoeGemv == [waves |-> 2, cols |-> 2, chunk |-> 2]
Ids(valid, sti) == [P |-> 7, valid |-> valid, sti |-> [r \in 0 .. 6 |-> sti[r + 1]],
                    T |-> 2, top_k |-> 2, bm |-> 2, N |-> 3, G |-> 3, gtile |-> 3, fit |-> 2]
AllLocal == Ids(6, <<0, 3, 1, 4, 2, 4, 4>>)
Elsewhere == Ids(4, <<0, 3, 1, 4, 4, 4, 4>>)
Moe(k) == {AllLocal @@ [scatter |-> s] : s \in IF k \in NoScatter THEN {FALSE} ELSE BOOLEAN}
          \cup {Elsewhere @@ [scatter |-> FALSE]}
MoeGroups == UNION {UNION {{<<k, l, b>> : b \in MoeBlocks(k, l)} : l \in Moe(k)} : k \in MoeKernels}

GroupsOf(kernels, GridOf(_, _), Launches(_)) ==
    UNION {UNION {{<<k, l, b>> : b \in GridOf(k, l)} : l \in Launches(k)} : k \in kernels}

\* Sequences of three keys, one and none; two chunks of queries after a prefix that the window
\* does not reach back to, and a sequence of one query.
AttnLaunches(k) ==
    IF k \in DecodeKernels THEN [ctx : {(0 :> 3 @@ 1 :> 1 @@ 2 :> 0)}, heads : {2}, window : {0, 2}]
    ELSE [q : {(0 :> 3 @@ 1 :> 1)}, ctx : {(0 :> 6 @@ 1 :> 1)}, heads : {1}, causal : {TRUE}, window : {0, 2}]
         \cup [q : {(0 :> 3)}, ctx : {(0 :> 5)}, heads : {2}, causal : {FALSE}, window : {0}]

\* Three sequences of three, two and no tokens, one without a slot; pairs that rotate everybody.
MCPairs == <<<<<<0, 1>>, <<2, 3>>, <<4, 5>>, <<6, 7>>>>, <<<<7, 0>>, <<1, 2>>, <<3, 4>>, <<5, 6>>>>>>
Lengths == (0 :> 3 @@ 1 :> 2 @@ 2 :> 0)
Serving(slot) ==
    [len : {Lengths}, slot : {slot}, init : {(0 :> TRUE @@ 1 :> FALSE @@ 2 :> TRUE)}, heads : {2},
     pad : {(0 :> FALSE @@ 1 :> TRUE @@ 2 :> FALSE)}, l2 : BOOLEAN]
LinearLaunches(k) ==
    CASE k \in RotateKernels -> [rows : {5}, groups : {2}, pairs : {MCPairs}]
      [] k \in CcaKernels -> {l \in Serving(0 :> 3 @@ 1 :> 1 @@ 2 :> 2) : l.l2}
      [] OTHER -> UNION {Serving(s) : s \in {(0 :> 3 @@ 1 :> 1 @@ 2 :> 2), (0 :> 0 @@ 1 :> 2 @@ 2 :> 0)}}

\* The launches are what the theorems about the kernels take them for.
ASSUME LaunchesFormed ==
    /\ \A l \in Dense : IsLaunch(l)
    /\ \A k \in MoeKernels : \A l \in Moe(k) : IsMoeLaunch(l)
    /\ \A k \in DecodeKernels \cup PrefillKernels : \A l \in AttnLaunches(k) : IsAttnLaunch(k, l)

MCGroups == DenseGroups \cup MoeGroups
    \cup GroupsOf(DecodeKernels \cup PrefillKernels, AttnBlocks, AttnLaunches)
    \cup GroupsOf(LinearKernelSet, LinearBlocks, LinearLaunches)
MCCode(g) ==
    CASE g[1] \in DenseKernels -> [w \in DenseWaves(g[1]) |-> DenseCode(g[1], g[2], g[3], w)]
      [] g[1] \in MoeKernels -> [w \in MoeWaves(g[1], g[2]) |-> MoeCode(g[1], g[2], g[3], w)]
      [] g[1] \in LinearKernelSet -> [w \in LinearWaves(g[1]) |-> LinearCode(g[1], g[2], g[3], w)]
      [] OTHER -> [w \in AttnWaves(g[1]) |-> AttnCode(g[1], g[2], g[3], w)]
MCWanted(k, l) ==
    CASE k \in DenseKernels -> DenseWanted(k, l)
      [] k \in MoeKernels -> MoeWanted(k, l)
      [] k \in LinearKernelSet -> LinearWanted(k, l)
      [] OTHER -> AttnWanted(k, l)
=============================================================================
