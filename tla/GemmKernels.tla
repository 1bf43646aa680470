---------------------------- MODULE GemmKernels ----------------------------
(* The dense int4 x fp8 products of w4a8_fp8_wmma: out (M, N) from K in   *)
(* groups of one weight scale.  A launch is [M, N, G, split, swiz]: the   *)
(* output, the K groups, the wanted split of K and whether the grid is    *)
(* swizzled.  Tile[k] is the tile of kernel k: [bm, bn, wn], its rows and *)
(* columns and the waves side by side in N; a wave computes Dim rows.     *)
(* The values of the product (decoding, WMMA, scales) are left out; what  *)
(* stays is which wave stages, reads and writes what and when.            *)
EXTENDS WaveCode, FiniteSets

CONSTANTS Tile,
          ActWaves,  \* waves of the activation quantisation
          Gemv,      \* [waves, chunk]: the waves of v11 and the K groups it stages at once
          Square,    \* v0: the threads of a block are a square of this side
          Chunks,    \* v9: chunks per K group
          Gtile      \* v14: K groups between two barriers

SplitKernels == {"v12", "v13", "v14", "v15", "v16", "v17"}
TiledKernels == {"v1", "v2", "v4", "v5", "tiled", "v6", "v7", "v8", "v9", "v10", "ashuffle"} \cup SplitKernels

ASSUME TileAssumption ==
    /\ {Dim, ActWaves, Gemv.waves, Gemv.chunk, Square, Gtile} \subseteq Nat \ {0} /\ Chunks \in Nat
    /\ \A k \in TiledKernels :
          /\ {Tile[k].bm, Tile[k].bn, Tile[k].wn} \subseteq Nat \ {0}
          /\ Tile[k].bm % Dim = 0 /\ Tile[k].bn % (Dim * Tile[k].wn) = 0

IsLaunch(l) == l.M \in Nat /\ l.N \in Nat /\ l.G \in Nat /\ l.split \in Int

Swizzled(k, l) == k \in {"v7", "v10", "ashuffle"} /\ l.swiz
TileWaves(k) == 0 .. (Tile[k].bm \div Dim) * Tile[k].wn - 1

\* splitk is clamped to [1, K groups] before the launch.
Split(k, l) == IF k \notin SplitKernels \/ l.split < 1 THEN 1 ELSE Least(l.split, l.G)
Blocks(k, l) ==
    LET nm == Ceil(l.M, Tile[k].bm)
        nn == Ceil(l.N, Tile[k].bn)
        xs == IF Swizzled(k, l) THEN nm ELSE nn
        ys == IF Swizzled(k, l) THEN nn ELSE nm
    IN {<<x, y, z>> : x \in 0 .. xs - 1, y \in 0 .. ys - 1, z \in 0 .. Split(k, l) - 1}
BlockM(k, l, b) == (IF Swizzled(k, l) THEN b[1] ELSE b[2]) * Tile[k].bm
BlockN(k, l, b) == (IF Swizzled(k, l) THEN b[2] ELSE b[1]) * Tile[k].bn

GpsBug(k, l) == l.G \div Split(k, l)
\* The K groups g0 .. g1 - 1 of block z; the last blocks may have none and return.
Gps(k, l) == Ceil(l.G, Split(k, l))
G0(k, l, b) == b[3] * Gps(k, l)
G1(k, l, b) == Least(G0(k, l, b) + Gps(k, l), l.G)

\* The output of a wave, guarded at the tails of M and N.
Rows(k, l, b, w) ==
    LET r0 == BlockM(k, l, b) + (w \div Tile[k].wn) * Dim IN {r \in r0 .. r0 + Dim - 1 : r < l.M}
Columns(k, l, b, w) ==
    LET width == Tile[k].bn \div Tile[k].wn
        c0 == BlockN(k, l, b) + (w % Tile[k].wn) * width
    IN {c \in c0 .. c0 + width - 1 : c < l.N}
Epilogue(k, l, b, w, reads) ==
    Do(reads, Result(Rows(k, l, b, w) \X Columns(k, l, b, w), G0(k, l, b) .. G1(k, l, b) - 1))
-----------------------------------------------------------------------------
SerialBug(bufs, w, ws, g0, g1, scales) ==
    Loop(g0, g1, LAMBDA g : Do(scales, Own(bufs, w, g)) \o Sync \o Do(All(bufs, ws, g), {}))
\* One buffer: stage the group, meet, compute from it, meet before it is staged again.
Serial(bufs, w, ws, g0, g1, scales) ==
    Loop(g0, g1, LAMBDA g : Do(scales, Own(bufs, w, g)) \o Sync \o Do(All(bufs, ws, g), {}) \o Sync)

PingPongBug(bufs, w, ws, n) ==
    Do({}, OwnOf(bufs, 0, w, 0)) \o Sync
    \o Loop(0, n, LAMBDA g :
          (IF g + 1 < n THEN Do({}, OwnOf(bufs, (g + 1) % 2, w, g)) ELSE <<>>)
          \o Do(AllOf(bufs, g % 2, ws, g), {}) \o Sync)
\* Two buffers: the next group is staged into one while this group is computed from the other.
PingPong(bufs, w, ws, n) ==
    Do({}, OwnOf(bufs, 0, w, 0)) \o Sync
    \o Loop(0, n, LAMBDA g :
          (IF g + 1 < n THEN Do({}, OwnOf(bufs, (g + 1) % 2, w, g + 1)) ELSE <<>>)
          \o Do(AllOf(bufs, g % 2, ws, g), {}) \o Sync)

\* One buffer filled after the compute: the loop of v10 without double buffering.
Late(bufs, w, ws, n) ==
    Do({}, Own(bufs, w, 0)) \o Sync
    \o Loop(0, n, LAMBDA g :
          Do(All(bufs, ws, g), {}) \o Sync
          \o (IF g + 1 < n THEN Do({}, Own(bufs, w, g + 1)) \o Sync ELSE <<>>))

\* Up to gtile groups side by side in the buffers between two barriers.
Grouped(bufs, w, ws, g0, g1, gtile) ==
    Strides(g0, g1, gtile, LAMBDA gt :
        LET gend == Least(gt + gtile, g1) IN
        Loop(gt, gend, LAMBDA g : Do({}, OwnOf(bufs, g - gt, w, g))) \o Sync
        \o Loop(gt, gend, LAMBDA g : Do(AllOf(bufs, g - gt, ws, g), {})) \o Sync)

\* Each wave owns a strided set of the block's rows, so one barrier ends the scales' prologue.
BlockActScales(w) == Do({}, Own({"act_scale"}, w, "scale")) \o Sync
ActScales(ws) == All({"act_scale"}, ws, "scale")
-----------------------------------------------------------------------------
\* The activations of one row to fp8: every wave a maximum, wave 0 the scale, all of them the row.
ActQuant(l, b, w) ==
    LET ws == 0 .. ActWaves - 1
        scale == {<<<<"warp_maxes", 0, 0>>, "scale">>}
    IN Do({}, Own({"warp_maxes"}, w, "max")) \o Sync
       \o (IF w = 0 THEN Do(All({"warp_maxes"}, ws, "max"), scale) ELSE <<>>) \o Sync
       \o Do(scale, Result({b[1]} \X {c \in 0 .. l.N - 1 : c % ActWaves = w}, {0}))

\* A thread computes one output by itself.
V0(l, b, w) ==
    LET row == b[2] * Square + (w \div Square)
        col == b[1] * Square + (w % Square)
    IN IF row >= l.M \/ col >= l.N THEN <<>> ELSE Do({}, Result({<<row, col>>}, 0 .. l.G - 1))

\* One wave; the group's product and the sum over the groups pass through local memory.
V1(l, b, w) ==
    LET sum(g) == {<<<<"out_acc", 0, w>>, 0 .. g - 1>>}
        bufs == {"a_tile", "b_tile", "wscale"}
    IN Do({}, sum(0))
       \o Loop(0, l.G, LAMBDA g :
             Do({}, Own(bufs, w, g)) \o Sync
             \o Do(Own({"a_tile", "b_tile"}, w, g), Own({"tmp"}, w, g)) \o Sync
             \o Do(Own({"tmp", "wscale"}, w, g) \cup sum(g), sum(g + 1)) \o Sync)
       \o Epilogue("v1", l, b, w, sum(l.G))

AB == {"A_tile", "B_tile"}
V2(l, b, w) == Serial(AB, w, TileWaves("v2"), 0, l.G, {}) \o Epilogue("v2", l, b, w, {})
V4(l, b, w) == Serial(AB, w, TileWaves("v4"), 0, l.G, {}) \o Epilogue("v4", l, b, w, {})
V6(l, b, w) == Serial(AB, w, TileWaves("v6"), 0, l.G, {}) \o Epilogue("v6", l, b, w, {})
V7(l, b, w) == Serial(AB \cup {"wsc"}, w, TileWaves("v7"), 0, l.G, {}) \o Epilogue("v7", l, b, w, {})

\* The rows' scales are read while staging, and by their owner of rows in the epilogue.
FusedSerial(k, l, b, w) ==
    LET ws == TileWaves(k) IN
    BlockActScales(w) \o Serial(AB, w, ws, 0, l.G, ActScales(ws)) \o Epilogue(k, l, b, w, ActScales(ws))
V5(l, b, w) == FusedSerial("v5", l, b, w)
GemmTiled(l, b, w) == FusedSerial("tiled", l, b, w)

V8(l, b, w) == PingPong(AB, w, TileWaves("v8"), l.G) \o Epilogue("v8", l, b, w, {})
\* v9 stages chunks of a group; the accumulator takes a group's scale after its last chunk.
V9(l, b, w) == PingPong(AB, w, TileWaves("v9"), l.G * Chunks) \o Epilogue("v9", l, b, w, {})

\* Activations in registers, weights and their scales in one or two buffers.
FusedShuffle(k, l, b, w) ==
    LET ws == TileWaves(k)
        bufs == {"B_tile", "wsc"}
    IN BlockActScales(w) \o Do(ActScales(ws), {})
       \o (IF l.db THEN PingPong(bufs, w, ws, l.G) ELSE Late(bufs, w, ws, l.G))
       \o Epilogue(k, l, b, w, ActScales(ws))
V10(l, b, w) == FusedShuffle("v10", l, b, w)
GemmTiledAshuffle(l, b, w) == FusedShuffle("ashuffle", l, b, w)

V11Bug(l, b, w) ==
    LET n == b[1] * Gemv.waves + w
        ws == 0 .. Gemv.waves - 1
    IN IF n >= l.N THEN <<>>
       ELSE Strides(0, l.G, Gemv.chunk, LAMBDA kc :
                Do({}, Own({"a"}, w, kc)) \o Sync \o Do(All({"a"}, ws, kc), {}) \o Sync)
            \o Do({}, Result((0 .. l.M - 1) \X {n}, 0 .. l.G - 1))
\* A wave per column; waves beyond N still stage and meet.
V11(l, b, w) ==
    LET n == b[1] * Gemv.waves + w
        ws == 0 .. Gemv.waves - 1
    IN Strides(0, l.G, Gemv.chunk, LAMBDA kc :
           Do({}, Own({"a"}, w, kc)) \o Sync
           \o (IF n < l.N THEN Do(All({"a"}, ws, kc), {}) ELSE <<>>) \o Sync)
       \o (IF n < l.N THEN Do({}, Result((0 .. l.M - 1) \X {n}, 0 .. l.G - 1)) ELSE <<>>)

\* Split K: a block adds the groups of its share to a zeroed sum; one with no share returns.
Shared(k, l, b, code) == IF G0(k, l, b) >= G1(k, l, b) THEN <<>> ELSE code
V12(l, b, w) ==
    Shared("v12", l, b, Serial(AB, w, TileWaves("v12"), G0("v12", l, b), G1("v12", l, b), {})
                        \o Epilogue("v12", l, b, w, {}))
V14(l, b, w) ==
    Shared("v14", l, b, Grouped(AB, w, TileWaves("v14"), G0("v14", l, b), G1("v14", l, b), Gtile)
                        \o Epilogue("v14", l, b, w, {}))
\* v13, v15, v16 and v17 keep both operands in registers: no local memory and no barrier.
RegDirect(k, l, b, w) == Shared(k, l, b, Epilogue(k, l, b, w, {}))
V13(l, b, w) == RegDirect("v13", l, b, w)
V15(l, b, w) == RegDirect("v15", l, b, w)
V16(l, b, w) == RegDirect("v16", l, b, w)
V17(l, b, w) == RegDirect("v17", l, b, w)

\* The sum to fp16, a thread per element.
Cvt(l, b, w) ==
    LET i == b[1] * ActWaves + w
    IN IF i < l.M * l.N THEN Do({}, Result({<<i \div l.N, i % l.N>>}, {0})) ELSE <<>>
-----------------------------------------------------------------------------
\* launch_mmq_fp8_gemm_gfx1201 and the launchers of the register kernels.
DenseKernels == TiledKernels \cup {"actquant", "v0", "v11", "cvt"}
DenseBlocks(k, l) ==
    CASE k = "actquant" -> {<<x>> : x \in 0 .. l.M - 1}
      [] k = "v0" -> {<<x, y>> : x \in 0 .. Ceil(l.N, Square) - 1, y \in 0 .. Ceil(l.M, Square) - 1}
      [] k = "v11" -> {<<x>> : x \in 0 .. Ceil(l.N, Gemv.waves) - 1}
      [] k = "cvt" -> {<<x>> : x \in 0 .. Ceil(l.M * l.N, ActWaves) - 1}
      [] OTHER -> Blocks(k, l)
DenseWaves(k) ==
    CASE k \in {"actquant", "cvt"} -> 0 .. ActWaves - 1
      [] k = "v0" -> 0 .. Square * Square - 1
      [] k = "v11" -> 0 .. Gemv.waves - 1
      [] OTHER -> TileWaves(k)
DenseCode(k, l, b, w) ==
    CASE k = "actquant" -> ActQuant(l, b, w)
      [] k = "v0" -> V0(l, b, w)
      [] k = "v1" -> V1(l, b, w)
      [] k = "v2" -> V2(l, b, w)
      [] k = "v4" -> V4(l, b, w)
      [] k = "v5" -> V5(l, b, w)
      [] k = "tiled" -> GemmTiled(l, b, w)
      [] k = "v6" -> V6(l, b, w)
      [] k = "v7" -> V7(l, b, w)
      [] k = "v8" -> V8(l, b, w)
      [] k = "v9" -> V9(l, b, w)
      [] k = "v10" -> V10(l, b, w)
      [] k = "ashuffle" -> GemmTiledAshuffle(l, b, w)
      [] k = "v11" -> V11(l, b, w)
      [] k = "v12" -> V12(l, b, w)
      [] k = "v13" -> V13(l, b, w)
      [] k = "v14" -> V14(l, b, w)
      [] k = "v15" -> V15(l, b, w)
      [] k = "v16" -> V16(l, b, w)
      [] k = "v17" -> V17(l, b, w)
      [] k = "cvt" -> Cvt(l, b, w)
DenseWanted(k, l) ==
    {<<<<"out", p>>, x>> : p \in (0 .. l.M - 1) \X (0 .. l.N - 1),
                           x \in IF k \in {"actquant", "cvt"} THEN {0} ELSE 0 .. l.G - 1}
=============================================================================
