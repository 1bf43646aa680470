----------------------------- MODULE MoeKernels -----------------------------
(* The grouped products of the mixture of experts in w4a8_fp8_wmma.  A    *)
(* launch is [T, top_k, bm, N, G, P, valid, sti, scatter, gtile, fit]: a  *)
(* slot is a (token, choice) pair, sti the slot of each padded row,       *)
(* blocks of bm rows of one expert, any number that is no slot in the     *)
(* rows that pad, and nothing to do from row valid on.  With scatter, the *)
(* rows are added to their token's output at once; without, they are left *)
(* by row and gathered by a kernel of their own.                          *)
EXTENDS GemmKernels

CONSTANTS MoeBN,     \* columns of a tile
          MaxWarps,  \* MAX_WARPS of a workgroup
          MoeGemv    \* [waves, cols, chunk] of the grouped GEMV

\* A tile is in whole fragments, also when two or four waves share its columns.
ASSUME MoeAssumption ==
    /\ {MoeBN, MaxWarps, MoeGemv.waves, MoeGemv.cols, MoeGemv.chunk} \subseteq Nat \ {0}
    /\ \A n \in {1, 2, 4} : n * Dim <= MoeBN => MoeBN % (n * Dim) = 0
    /\ Dim <= MoeBN

Slots(l) == 0 .. l.T * l.top_k - 1
IsRouted(l, r) == r < l.valid /\ l.sti[r] \in Slots(l)
Routed(l) == {l.sti[r] : r \in {r \in 0 .. l.P - 1 : IsRouted(l, r)}}

\* What moe_align_block_size hands over: whole blocks of valid rows, a slot in one row at most.
IsMoeLaunch(l) ==
    /\ {l.T, l.top_k, l.N, l.P} \subseteq Nat /\ {l.G, l.bm, l.fit} \subseteq Nat \ {0} /\ l.gtile \in Int
    /\ l.bm % Dim = 0 /\ l.valid \in 0 .. l.P /\ l.valid % l.bm = 0
    /\ \A r, s \in 0 .. l.P - 1 : l.sti[r] \in Slots(l) => r < l.valid /\ (l.sti[r] = l.sti[s] => r = s)

\* A row of the product by its slot: added to the token's row, or stored as it is.
Place(l, r, c) == IF l.scatter THEN <<l.sti[r] \div l.top_k, c, l.sti[r]>> ELSE <<r, c>>
Places(l, rows, columns) ==
    {Place(l, r, c) : r \in {r \in rows : l.sti[r] \in Slots(l)}, c \in columns}

\* run_moe_gemm: waves side by side in N fill the workgroup, a power of two of them.
WarpsN(k, l) ==
    LET most == Least(MaxWarps \div (l.bm \div Dim), MoeBN \div Dim)
    IN IF k \notin {"moe_tiled_v5", "moe_tiled_v6"} THEN 1
       ELSE IF most >= 4 THEN 4 ELSE IF most >= 2 THEN 2 ELSE 1
MoeTileWaves(k, l) == 0 .. (l.bm \div Dim) * WarpsN(k, l) - 1

\* K groups between two barriers: at least one, at most all of them and the `fit` that local
\* memory has room for.
GroupsStaged(l) == IF l.gtile < 1 THEN 1 ELSE Least(Least(l.gtile, l.G), l.fit)

MoeRows(k, l, b, w) ==
    LET r0 == b[2] * l.bm + (w \div WarpsN(k, l)) * Dim IN r0 .. r0 + Dim - 1
MoeColumns(k, l, b, w) ==
    LET width == MoeBN \div WarpsN(k, l)
        c0 == b[1] * MoeBN + (w % WarpsN(k, l)) * width
    IN {c \in c0 .. c0 + width - 1 : c < l.N}
MoeEpilogue(k, l, b, w, parts) ==
    Do({}, Result(Places(l, MoeRows(k, l, b, w), MoeColumns(k, l, b, w)), parts))

\* A block past the valid rows returns, all its waves alike.
Busy(l, b, code) == IF b[2] * l.bm >= l.valid THEN <<>> ELSE code
-----------------------------------------------------------------------------
\* The rows of x are the tokens, and for the scattered second product the padded rows.
ActRows(l) == IF l.scatter THEN l.P ELSE l.T
MoeActQuant(l, b, w) == ActQuant([M |-> ActRows(l), N |-> l.G], b, w)

MoeV0(l, b, w) ==
    LET row == b[2] * Square + (w \div Square)
        col == b[1] * Square + (w % Square)
    IN IF col >= l.N \/ ~IsRouted(l, row) THEN <<>>
       ELSE Do({}, Result({Place(l, row, col)}, 0 .. l.G - 1))

\* Activations and weights staged; or the weights alone, several groups at once.
StagedAB(k, l, b, w) ==
    Busy(l, b, Serial(AB, w, MoeTileWaves(k, l), 0, l.G, {}) \o MoeEpilogue(k, l, b, w, 0 .. l.G - 1))
StagedB(k, l, b, w) ==
    Busy(l, b, Grouped({"B_tile"}, w, MoeTileWaves(k, l), 0, l.G, GroupsStaged(l))
               \o MoeEpilogue(k, l, b, w, 0 .. l.G - 1))
MoeV5(l, b, w) == StagedAB("moe_v5", l, b, w)
MoeV6(l, b, w) == StagedB("moe_v6", l, b, w)
MoeTiledV5(l, b, w) == StagedAB("moe_tiled_v5", l, b, w)
MoeTiledV6(l, b, w) == StagedB("moe_tiled_v6", l, b, w)

\* Gate and up products by one block, silu(gate) * up stored.
GateUp(l) == {"gate", "up"} \X (0 .. l.G - 1)
SiluV5(l, b, w) ==
    Busy(l, b, Serial({"A_tile", "Bg_tile", "Bu_tile"}, w, MoeTileWaves("silu_v5", l), 0, l.G, {})
               \o MoeEpilogue("silu_v5", l, b, w, GateUp(l)))
SiluV6(l, b, w) ==
    Busy(l, b, Grouped({"Bg", "Bu"}, w, MoeTileWaves("silu_v6", l), 0, l.G, GroupsStaged(l))
               \o MoeEpilogue("silu_v6", l, b, w, GateUp(l)))

\* One thread lists the block's real rows for everybody; waves own columns, and those past N
\* still stage and meet.
GemvV7(l, b, w) ==
    LET ws == 0 .. MoeGemv.waves - 1
        rows == {<<<<s, 0, 0>>, "rows">> : s \in {"s_src", "s_pad", "s_offs", "s_mreal"}}
        c0 == (b[1] * MoeGemv.waves + w) * MoeGemv.cols
        columns == {c \in c0 .. c0 + MoeGemv.cols - 1 : c < l.N}
        real == b[2] * l.bm .. (b[2] + 1) * l.bm - 1
    IN Busy(l, b,
            (IF w = 0 THEN Do({}, rows) ELSE <<>>) \o Sync
            \o Strides(0, l.G, MoeGemv.chunk, LAMBDA kc :
                 Do(rows, Own({"v7_a"}, w, kc)) \o Sync
                 \o (IF columns # {} THEN Do(rows \cup All({"v7_a"}, ws, kc), {}) ELSE <<>>) \o Sync)
            \o Do(rows, Result(Places(l, real, columns), 0 .. l.G - 1)))

\* 2:4 sparse weights: nothing shared; or one weight tile staged once and only read since.
Sparse(k, l, b, w) == Busy(l, b, MoeEpilogue(k, l, b, w, 0 .. l.G - 1))
Swmmac(l, b, w) == Sparse("swmmac", l, b, w)
SwmmacInt4(l, b, w) == Sparse("swmmac_int4", l, b, w)
SwmmacInt4Tiled(l, b, w) ==
    LET ws == MoeTileWaves("swmmac_tiled", l)
        bufs == {"Wc_lds", "idx_lds"}
    IN Busy(l, b, Do({}, Own(bufs, w, "weights")) \o Sync \o Do(All(bufs, ws, "weights"), {})
                  \o MoeEpilogue("swmmac_tiled", l, b, w, 0 .. l.G - 1))

\* The row of every slot, -1 for a slot no row has; then the sum over a token's slots.
InverseMap(l, b, w) ==
    LET r == b[1] * ActWaves + w
    IN IF r < l.P /\ IsRouted(l, r) THEN Do({}, Result({<<l.sti[r]>>}, {r})) ELSE <<>>
SlotToRow(l) ==
    [s \in Slots(l) |-> IF s \in Routed(l) THEN CHOOSE r \in 0 .. l.P - 1 : IsRouted(l, r) /\ l.sti[r] = s
                        ELSE -1]
GatherReduce(l, b, w) ==
    LET n == b[1] * ActWaves + w
        slots == {s \in b[2] * l.top_k .. b[2] * l.top_k + l.top_k - 1 : SlotToRow(l)[s] >= 0}
    IN IF n < l.N THEN Do({}, Result({<<b[2], n>>}, slots)) ELSE <<>>
-----------------------------------------------------------------------------
\* run_moe_gemm and the launchers.
MoeKernels == {"moe_act", "moe_v0", "moe_v5", "moe_v6", "moe_tiled_v5", "moe_tiled_v6", "silu_v5",
               "silu_v6", "gemv_v7", "swmmac", "swmmac_int4", "swmmac_tiled", "inverse_map", "gather"}
NoScatter == {"silu_v5", "silu_v6", "inverse_map", "gather"}
Grid(xs, ys) == {<<x, y>> : x \in 0 .. xs - 1, y \in 0 .. ys - 1}
MoeBlocks(k, l) ==
    CASE k = "moe_act" -> {<<x>> : x \in 0 .. ActRows(l) - 1}
      [] k = "moe_v0" -> Grid(Ceil(l.N, Square), Ceil(l.P, Square))
      [] k = "gemv_v7" -> Grid(Ceil(l.N, MoeGemv.waves * MoeGemv.cols), l.P \div l.bm)
      [] k = "inverse_map" -> {<<x>> : x \in 0 .. Ceil(l.P, ActWaves) - 1}
      [] k = "gather" -> Grid(Ceil(l.N, ActWaves), l.T)
      [] OTHER -> Grid(Ceil(l.N, MoeBN), l.P \div l.bm)
MoeWaves(k, l) ==
    CASE k \in {"moe_act", "inverse_map", "gather"} -> 0 .. ActWaves - 1
      [] k = "moe_v0" -> 0 .. Square * Square - 1
      [] k = "gemv_v7" -> 0 .. MoeGemv.waves - 1
      [] OTHER -> MoeTileWaves(k, l)
MoeCode(k, l, b, w) ==
    CASE k = "moe_act" -> MoeActQuant(l, b, w)
      [] k = "moe_v0" -> MoeV0(l, b, w)
      [] k = "moe_v5" -> MoeV5(l, b, w)
      [] k = "moe_v6" -> MoeV6(l, b, w)
      [] k = "moe_tiled_v5" -> MoeTiledV5(l, b, w)
      [] k = "moe_tiled_v6" -> MoeTiledV6(l, b, w)
      [] k = "silu_v5" -> SiluV5(l, b, w)
      [] k = "silu_v6" -> SiluV6(l, b, w)
      [] k = "gemv_v7" -> GemvV7(l, b, w)
      [] k = "swmmac" -> Swmmac(l, b, w)
      [] k = "swmmac_int4" -> SwmmacInt4(l, b, w)
      [] k = "swmmac_tiled" -> SwmmacInt4Tiled(l, b, w)
      [] k = "inverse_map" -> InverseMap(l, b, w)
      [] k = "gather" -> GatherReduce(l, b, w)

\* Every routed slot, in every column and from every K group, once.
RoutedPlaces(l) ==
    {<<"out", Place(l, r, c)>> : r \in {r \in 0 .. l.P - 1 : IsRouted(l, r)}, c \in 0 .. l.N - 1}
MoeWanted(k, l) ==
    CASE k = "moe_act" -> {<<<<"out", p>>, 0>> : p \in (0 .. ActRows(l) - 1) \X (0 .. l.G - 1)}
      [] k \in {"silu_v5", "silu_v6"} -> RoutedPlaces(l) \X GateUp(l)
      [] k = "inverse_map" -> {<<<<"out", <<l.sti[r]>>>>, r>> : r \in {r \in 0 .. l.P - 1 : IsRouted(l, r)}}
      [] k = "gather" -> {<<<<"out", <<s \div l.top_k, c>>>>, s>> : s \in Routed(l), c \in 0 .. l.N - 1}
      [] OTHER -> RoutedPlaces(l) \X (0 .. l.G - 1)
=============================================================================
