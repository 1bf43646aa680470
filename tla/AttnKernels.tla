---------------------------- MODULE AttnKernels ----------------------------
(* The attention kernels of attn_decode and attn_prefill_paged.  A part   *)
(* of an output is a key: the softmax of a query must weigh exactly the   *)
(* keys it may see.  A launch of the decode kernels is [ctx, heads,       *)
(* window], ctx[b] the keys of sequence b; one of the prefill kernels is  *)
(* [q, ctx, heads, causal, window], q[s] the new queries of sequence s,   *)
(* the last of its ctx[s] positions.                                      *)
EXTENDS WaveCode, FiniteSets

CONSTANTS NWarps,    \* waves of a decode workgroup
          TileRows   \* BR = BC, the queries and the keys of a prefill tile

ASSUME AttnAssumption == {NWarps, TileRows} \subseteq Nat \ {0} /\ TileRows % Dim = 0

\* Each wave takes every NWarps-th key and skips those the window has left behind.
WarpKeys(l, b, w) ==
    {j \in 0 .. l.ctx[b] - 1 : j % NWarps = w /\ ~(l.window > 0 /\ l.ctx[b] - 1 - j >= l.window)}

\* Every wave leaves its partial softmax, wave 0 merges them.
FlashDecode(l, b, w) ==
    LET ws == 0 .. NWarps - 1
        partial == {"s_m", "s_l", "s_o"}
    IN Do({}, Own(partial, w, "partial")) \o Sync
       \o (IF w = 0 THEN Do(All(partial, ws, "partial"),
                            Result({<<b[2], b[1]>>}, UNION {WarpKeys(l, b[2], u) : u \in ws}))
           ELSE <<>>)
\* Paged: a sequence without context returns; its output is not written.
PagedDecode(l, b, w) == IF l.ctx[b[2]] = 0 THEN <<>> ELSE FlashDecode(l, b, w)
\* The fp8 variants differ in how a key is decoded.
PagedFp8Decode(l, b, w) == PagedDecode(l, b, w)
-----------------------------------------------------------------------------
PrefillWaves == 0 .. TileRows \div Dim - 1
Prefix(l, s) == l.ctx[s] - l.q[s]
QRows(l, b) == Least(TileRows, l.q[b[3]] - b[2] * TileRows)

\* No query of the tile sees beyond its own last position.
KvLimit(l, b) ==
    IF l.causal THEN Least(l.ctx[b[3]], Prefix(l, b[3]) + b[2] * TileRows + QRows(l, b))
    ELSE l.ctx[b[3]]
KvBlocks(l, b) == Ceil(KvLimit(l, b), TileRows)
BlockKeys(kb) == kb * TileRows .. kb * TileRows + TileRows - 1

\* The keys of a block that row r of the tile is not masked from.
Unmasked(l, b, r, kb) ==
    LET qpos == Prefix(l, b[3]) + b[2] * TileRows + r
    IN {j \in BlockKeys(kb) :
          /\ j < l.ctx[b[3]] /\ r < QRows(l, b)
          /\ l.causal => j <= qpos /\ ~(l.window > 0 /\ qpos - j >= l.window)}

\* What a row has gathered after n blocks.  While every score was masked, the maximum is that of
\* a masked score and all of the block's keys weigh alike; the first real score rescales them to 0.
Gathered(l, b, r, n) ==
    LET seen[i \in 0 .. n] == IF i = 0 THEN {} ELSE seen[i - 1] \cup Unmasked(l, b, r, i - 1)
    IN IF seen[n] # {} THEN seen[n] ELSE UNION {BlockKeys(kb) : kb \in 0 .. n - 1}

\* Threads 0 .. BR - 1, a row each, are the lanes of the first half of the waves.
SoftmaxRows(w) == {r \in 0 .. TileRows - 1 : r \div (2 * Dim) = w}
MTile(w) == w * Dim .. w * Dim + Dim - 1
ByRow(bufs, rows, version) == AllOf(bufs, 0, rows, version)

\* One tile of K and V at a time; a wave owns Dim rows of S, P and PV and a strided share of O.
PrefillBlock(w, kb) ==
    LET ws == PrefillWaves
        rows == 0 .. TileRows - 1
    IN Do({}, Own({"K", "V"}, w, kb)) \o Sync
       \o Do(All({"Q"}, ws, 0) \cup All({"K"}, ws, kb), ByRow({"S"}, MTile(w), kb)) \o Sync
       \o (IF SoftmaxRows(w) # {}
           THEN Do(ByRow({"S", "m", "l"}, SoftmaxRows(w), kb),
                   ByRow({"S", "P", "resc"}, SoftmaxRows(w), kb)
                   \cup ByRow({"m", "l"}, SoftmaxRows(w), kb + 1))
           ELSE <<>>) \o Sync
       \o Do(ByRow({"P"}, MTile(w), kb) \cup All({"V"}, ws, kb), ByRow({"PV"}, MTile(w), kb)) \o Sync
       \o Do(Own({"O"}, w, kb) \cup ByRow({"resc", "PV"}, rows, kb), Own({"O"}, w, kb + 1)) \o Sync

FlashPrefill(l, b, w) ==
    LET rows == 0 .. QRows(l, b) - 1
        n == KvBlocks(l, b)
    IN IF b[2] * TileRows >= l.q[b[3]] THEN <<>>
       ELSE Do({}, ByRow({"m", "l"}, SoftmaxRows(w), 0) \cup Own({"O", "Q"}, w, 0)) \o Sync
            \o Loop(0, n, LAMBDA kb : PrefillBlock(w, kb))
            \o Do(ByRow({"l"}, rows, n) \cup Own({"O"}, w, n),
                  UNION {Result({<<b[3], b[2] * TileRows + r, b[1], w>>}, Gathered(l, b, r, n)) : r \in rows})
FlashFp8Prefill(l, b, w) == FlashPrefill(l, b, w)
-----------------------------------------------------------------------------
\* The launchers.
DecodeKernels == {"decode", "decode_paged", "decode_paged_fp8"}
PrefillKernels == {"prefill", "prefill_fp8"}
\* What they are given: the new queries of a prefill are the last positions of a sequence.
Counts(c) == IsFiniteSet(DOMAIN c) /\ \A s \in DOMAIN c : c[s] \in Nat
IsDecodeLaunch(l) == Counts(l.ctx) /\ {l.heads, l.window} \subseteq Nat
IsPrefillLaunch(l) ==
    /\ IsDecodeLaunch(l) /\ Counts(l.q) /\ DOMAIN l.q = DOMAIN l.ctx /\ l.causal \in BOOLEAN
    /\ \A s \in DOMAIN l.q : l.q[s] <= l.ctx[s]
IsAttnLaunch(k, l) == IF k \in DecodeKernels THEN IsDecodeLaunch(l) ELSE IsPrefillLaunch(l)

AttnBlocks(k, l) ==
    IF k \in DecodeKernels THEN {<<h, b>> : h \in 0 .. l.heads - 1, b \in DOMAIN l.ctx}
    ELSE {<<h, t, s>> : h \in 0 .. l.heads - 1, s \in DOMAIN l.q,
                        t \in UNION {0 .. Ceil(l.q[u], TileRows) - 1 : u \in DOMAIN l.q}}
AttnWaves(k) == IF k \in DecodeKernels THEN 0 .. NWarps - 1 ELSE PrefillWaves
AttnCode(k, l, b, w) ==
    CASE k = "decode" -> FlashDecode(l, b, w)
      [] k = "decode_paged" -> PagedDecode(l, b, w)
      [] k = "decode_paged_fp8" -> PagedFp8Decode(l, b, w)
      [] k = "prefill" -> FlashPrefill(l, b, w)
      [] k = "prefill_fp8" -> FlashFp8Prefill(l, b, w)

\* A query sees the keys up to its own position, the last `window` of them.
Visible(keys, qpos, window) == {j \in keys : j <= qpos /\ (window > 0 => qpos - j < window)}
AttnWanted(k, l) ==
    IF k \in DecodeKernels
    THEN UNION {{<<<<"out", <<b, h>>>>, j>> : h \in 0 .. l.heads - 1,
                    j \in Visible(0 .. l.ctx[b] - 1, l.ctx[b] - 1, l.window)} : b \in DOMAIN l.ctx}
    ELSE UNION {UNION {{<<<<"out", <<s, i, h, w>>>>, j>> : h \in 0 .. l.heads - 1, w \in PrefillWaves,
                    j \in IF l.causal THEN Visible(0 .. l.ctx[s] - 1, Prefix(l, s) + i, l.window)
                          ELSE 0 .. l.ctx[s] - 1} : i \in 0 .. l.q[s] - 1} : s \in DOMAIN l.q}
=============================================================================
