--------------------------- MODULE LinearKernels ---------------------------
(* The kernels of the layers that carry a state: the gated delta net      *)
(* (gdn_hip), compressed convolutional attention (cca_hip), and the       *)
(* pairwise rotation of activations (rotation_hip).  A part of an output  *)
(* is a token it depends on, so that an output is right when it holds the *)
(* tokens up to its own, after the state the sequence came with.          *)
(* A gdn launch is [len, slot, init, heads, l2], len[n] the tokens of     *)
(* sequence n; a cca one [len, slot, pad, heads]; a rotation [rows,       *)
(* groups, pairs], pairs[r][t] the channels thread t turns in round r.    *)
(* An actor is one thread of the recurrent, convolution, norm and         *)
(* rotation kernels: finer than the lockstep of their waves.              *)
EXTENDS WaveCode

CONSTANTS Threads,  \* V: threads of the recurrent kernels, a row of the state each
          Chunk,    \* tokens of a chunk
          Warps,    \* warps of the WMMA kernel, a column tile each
          Taps,     \* TP, W - 1: the tokens a convolution looks back
          HeadWaves \* waves of a head

\* Places: <<sequence, token, head, share>> of the output, <<Kept, slot, head, share>> of the state.
Kept == -1
Before == -1   \* the part of an output that is the state from before
Nought == -2   \* an output that is nought because the sequence has no slot
History(init, t) == 0 .. t \cup (IF init THEN {Before} ELSE {})
\* A convolution's window at token t and what is left of it for the next call; what lies before
\* the first token comes from the state.
Window(init, t) == {p \in t - Taps .. t : p >= 0 \/ init}
Rolled(init, t) == Window(init, t) \ {t - Taps}

\* Cells of a buffer that is cut in several ways: by flat index, by tile, by scratch.
Cut(bufs, us, ts, ss, version) == {<<<<b, <<u, t>>, s>>, version>> : b \in bufs, u \in us, t \in ts, s \in ss}
-----------------------------------------------------------------------------
\* The tree of additions over red[0 .. n - 1]: what red[u] has added up after round i.
Half(n, i) == n \div 2 ^ i
Added(n) ==
    LET held[i \in 0 .. n, u \in 0 .. n - 1] ==
            IF i = 0 THEN {u}
            ELSE held[i - 1, u] \cup (IF u < Half(n, i) THEN held[i - 1, u + Half(n, i)] ELSE {})
    IN held
Red(u, version) == {<<<<"red", 0, u>>, version>>}
TreeSum(n, t) ==
    LET held == Added(n) IN
    Loop(1, n + 1, LAMBDA i :
        IF Half(n, i) = 0 THEN <<>>
        ELSE (IF t < Half(n, i)
              THEN Do(Red(t, held[i - 1, t]) \cup Red(t + Half(n, i), held[i - 1, t + Half(n, i)]), Red(t, held[i, t]))
              ELSE <<>>) \o Sync)

\* gdn_inv_l2: everybody reads the whole sum, and leaves red to the next caller.
InvL2(buf, version, t) ==
    Do(Own({buf}, t, version), Red(t, {t})) \o Sync \o TreeSum(Threads, t)
    \o Do(Red(0, 0 .. Threads - 1), {}) \o Sync

\* One token: q and k loaded, normed and scaled by all threads, then a row of the state by each.
Recurrence(l, tok, t, places, parts) ==
    LET ts == 0 .. Threads - 1
        loaded == IF l.l2 THEN <<tok, "normed">> ELSE <<tok, "raw">>
    IN Do({}, Own({"q_s", "k_s"}, t, <<tok, "raw">>)) \o Sync
       \o (IF l.l2 THEN InvL2("q_s", <<tok, "raw">>, t) \o InvL2("k_s", <<tok, "raw">>, t)
                        \o Do(Own({"q_s", "k_s"}, t, <<tok, "raw">>), Own({"q_s", "k_s"}, t, loaded)) \o Sync
           ELSE <<>>)
       \o Do(Own({"q_s"}, t, loaded), Own({"q_s"}, t, <<tok, "scaled">>)) \o Sync
       \o Do(All({"q_s"}, ts, <<tok, "scaled">>) \cup All({"k_s"}, ts, loaded), Result(places, parts))

\* A sequence without a slot has a zero for output and no state.
GdnDecode(l, b, t) ==
    LET out == <<b[1], 0, b[2], t>> IN
    IF l.slot[b[1]] <= 0 THEN Recurrence(l, 0, t, {out}, {Nought})
    ELSE Recurrence(l, 0, t, {out, <<Kept, l.slot[b[1]], b[2], t>>}, History(TRUE, 0))

Skipped(l, n) == l.slot[n] <= 0 \/ l.len[n] = 0
FinalState(l, b, t) == Result({<<Kept, l.slot[b[1]], b[2], t>>}, History(l.init[b[1]], l.len[b[1]] - 1))

\* The state row stays in registers; q_s and k_s are used again for the next token.
GdnPrefill(l, b, t) ==
    IF Skipped(l, b[1]) THEN <<>>
    ELSE Loop(0, l.len[b[1]], LAMBDA tok :
             Recurrence(l, tok, t, {<<b[1], tok, b[2], t>>}, History(l.init[b[1]], tok)) \o Sync)
         \o Do({}, FinalState(l, b, t))

\* By chunks: staged by flat index, normed by one thread per token, multiplied by flat index.
ChunkLen(l, n, c) == Least(Chunk, l.len[n] - c * Chunk)
ChunkOutputs(l, b, c, t) ==
    UNION {Result({<<b[1], c * Chunk + j, b[2], t>>}, History(l.init[b[1]], c * Chunk + j)) :
              j \in 0 .. ChunkLen(l, b[1], c) - 1}
ChunkedStep(l, b, c, t) ==
    LET ts == 0 .. Threads - 1
        rows == 0 .. ChunkLen(l, b[1], c) - 1
        mine == {j \in rows : j % Threads = t}
        KQ(us, js, state) == Cut({"ks", "qs"}, us, js, {0}, <<c, state>>)
        gates == IF t = 0 THEN Own({"gam", "bet"}, 0, c) ELSE {}
    IN Do({}, KQ({t}, rows, "raw")) \o Sync
       \o Do(KQ(ts, mine, "raw"), KQ(ts, mine, "normed") \cup gates) \o Sync
       \o Do(KQ(ts, rows, "normed"), Own({"KK", "KQ"}, t, c)) \o Sync
       \o Do(KQ(ts, rows, "normed") \cup All({"KK", "KQ"}, ts, c) \cup Own({"gam", "bet"}, 0, c),
             ChunkOutputs(l, b, c, t)) \o Sync
GdnPrefillChunked(l, b, t) ==
    IF Skipped(l, b[1]) THEN <<>>
    ELSE Loop(0, Ceil(l.len[b[1]], Chunk), LAMBDA c : ChunkedStep(l, b, c, t))
         \o Do({}, FinalState(l, b, t))
-----------------------------------------------------------------------------
\* The matrix cores' version: three regions and Mf hold one matrix after another.  A flat loop
\* takes share u of a buffer, a product tile t, a warp's scratch share s; Sh is cut by flat index,
\* row tile and column tile.
Ws == 0 .. Warps - 1
Flat(bufs, w, version) == Cut(bufs, {w}, Ws, Ws, version)
Tiled(bufs, tiles, version) == Cut(bufs, Ws, tiles, Ws, version)
Scratch(bufs, w, version) == Cut(bufs, Ws, Ws, {w}, version)
Whole(bufs, version) == Cut(bufs, Ws, Ws, Ws, version)
SolveTiles(w) == {t \in Ws : t \div 2 = w}   \* Dv threads, a column each: half of the warps

WmmaStep(l, b, c, w) ==
    LET V(name) == <<c, name>>
        gates == All({"clog", "bet", "invk", "invq", "gamC"}, {0}, c)
    IN Do({}, Flat({"R2"}, w, V("rawk")) \cup Flat({"R3"}, w, V("rawq"))) \o Sync
       \o (IF w = 0 THEN Do(Whole({"R2"}, V("rawk")) \cup Whole({"R3"}, V("rawq")), gates) ELSE <<>>) \o Sync
       \o Do(Flat({"R2"}, w, V("rawk")) \cup Flat({"R3"}, w, V("rawq")) \cup gates,
             Flat({"kk"}, w, V("k")) \cup Flat({"R1"}, w, V("qq"))) \o Sync
       \o Do(Whole({"kk"}, V("k")) \cup Whole({"R1"}, V("qq")) \cup Tiled({"Sh"}, {w}, c),
             Tiled({"R2"}, {w}, V("KS0")) \cup Tiled({"R3"}, {w}, V("QS0"))
             \cup (IF w = 0 THEN Whole({"Mf"}, V("G")) ELSE {})
             \cup (IF w = 1 THEN Whole({"Af"}, V("Aqk")) ELSE {})) \o Sync
       \o Do(Flat({"R2"}, w, V("KS0")) \cup Flat({"Mf"}, w, V("G")) \cup gates,
             Flat({"R2"}, w, V("B")) \cup Flat({"Mf"}, w, V("L"))) \o Sync
       \o (IF SolveTiles(w) # {}
           THEN Do(Tiled({"R2"}, SolveTiles(w), V("B")) \cup Whole({"Mf"}, V("L")),
                   Tiled({"R1"}, SolveTiles(w), V("U")))
           ELSE <<>>) \o Sync
       \o Do(Flat({"Af"}, w, V("Aqk")) \cup gates, Flat({"Mf"}, w, V("Atril"))) \o Sync
       \o Do(Whole({"Mf"}, V("Atril")) \cup Tiled({"R1"}, {w}, V("U")), Tiled({"R2"}, {w}, V("O"))) \o Sync
       \o Do(Flat({"R3"}, w, V("QS0")) \cup Flat({"R2"}, w, V("O")) \cup gates, ChunkOutputs(l, b, c, w)) \o Sync
       \o Do(Flat({"R1"}, w, V("U")) \cup gates, Flat({"R1"}, w, V("decayed"))) \o Sync
       \o Do(Whole({"R1"}, V("decayed")) \cup Whole({"kk"}, V("k")) \cup Scratch({"Sh"}, w, c) \cup gates,
             Scratch({"R3"}, w, V("scr")) \cup Scratch({"Sh"}, w, c + 1)) \o Sync
GdnPrefillWmma(l, b, w) ==
    LET n == Ceil(l.len[b[1]], Chunk) IN
    IF Skipped(l, b[1]) THEN <<>>
    ELSE Do({}, Flat({"Sh"}, w, 0)) \o Sync \o Loop(0, n, LAMBDA c : WmmaStep(l, b, c, w))
         \o Do(Flat({"Sh"}, w, n), FinalState(l, b, w))

\* A thread per channel: no local memory; the window is rolled in place.
Conv1dUpdate(l, b, t) ==
    LET kept == l.slot[b[1]] > 0 IN
    Do({}, Result({<<b[1], 0, 0, t>>}, Window(kept, 0))
           \cup (IF kept THEN Result({<<Kept, l.slot[b[1]], 0, t>>}, Rolled(TRUE, 0)) ELSE {}))
Conv1dFwd(l, b, t) ==
    LET kept == l.slot[b[1]] > 0
        init == l.init[b[1]] /\ kept
        n == l.len[b[1]]
    IN Do({}, UNION {Result({<<b[1], j, 0, t>>}, Window(init, j)) : j \in 0 .. n - 1}
              \cup (IF kept THEN Result({<<Kept, l.slot[b[1]], 0, t>>}, Rolled(init, n - 1)) ELSE {}))

RmsnormGated(l, b, t) ==
    Do({}, Red(t, {t})) \o Sync \o TreeSum(Threads, t)
    \o Do(Red(0, 0 .. Threads - 1), Result({<<b[1], 0, 0, t>>}, {0}))
-----------------------------------------------------------------------------
\* One token of a sequence through both convolutions: window and first convolution, the second
\* one, and the window rolled by one; a token that pads leaves zeros.
Seen(l, n, parts) == IF l.pad[n] THEN {} ELSE parts
CcaConvStateDecode(l, b, w) ==
    LET ws == 0 .. HeadWaves - 1
        n == b[1]
    IN Do({}, Own({"win"}, w, "window")) \o Sync
       \o Do(All({"win"}, ws, "window"), Own({"mid"}, w, "mid")) \o Sync
       \o Do(All({"mid"}, ws, "mid"), Result({<<n, 0, 0, w>>}, Seen(l, n, Window(TRUE, 0))))
       \o Do(All({"win"}, ws, "window"), Result({<<Kept, l.slot[n], 0, w>>}, Seen(l, n, Rolled(TRUE, 0))))

\* A head's channels: own windows, everybody's first convolution, the sum of squares of all waves.
CcaHead(w, results) ==
    LET ws == 0 .. HeadWaves - 1 IN
    Do({}, Own({"win", "mid"}, w, "own")) \o Sync
    \o Do(All({"mid"}, ws, "own"), Own({"red"}, w, "sq")) \o Sync
    \o Do(All({"red"}, ws, "sq") \cup Own({"win"}, w, "own"), results)
CcaDecodeQk(l, b, w) ==
    CcaHead(w, Result({<<b[2], 0, b[1], w>>}, Seen(l, b[2], Window(TRUE, 0)))
               \cup Result({<<Kept, l.slot[b[2]], b[1], w>>}, Seen(l, b[2], Rolled(TRUE, 0))))

\* Prefill: a token of the packed batch knows its request and its position in it; its window
\* reaches into a copy of the state before, the request's last token leaves the new one.
Packed(l) == UNION {{n} \X (0 .. l.len[n] - 1) : n \in DOMAIN l.len}
CcaPrefillQk(l, b, w) ==
    LET n == b[2][1]
        p == b[2][2]
    IN CcaHead(w, Result({<<n, p, b[1], w>>}, Window(TRUE, p))
                  \cup (IF p = l.len[n] - 1
                        THEN Result({<<Kept, l.slot[n], b[1], w>>}, Rolled(TRUE, p)) ELSE {}))
-----------------------------------------------------------------------------
\* Rotation: rounds of pairs of channels; within a round no thread waits for another.
GroupSize == 2 * Threads
RowsAtOnce == 4   \* CTA_M
Channels(k, t) == IF k = "rotate_float" THEN {t, t + Threads} ELSE {2 * t, 2 * t + 1}
XGrp(channels, round) == All({"x_grp"}, channels, round)
Rotate(k, l, b, t) ==
    LET rounds == Len(l.pairs)
        Pair(r) == {l.pairs[r + 1][t + 1][1], l.pairs[r + 1][t + 1][2]}
    IN Do({}, XGrp(Channels(k, t), 0)) \o Sync
       \o Loop(0, rounds, LAMBDA r : Do(XGrp(Pair(r), r), XGrp(Pair(r), r + 1)) \o Sync)
       \o Do(XGrp(Channels(k, t), rounds),
             Result({r \in b[1] * RowsAtOnce .. (b[1] + 1) * RowsAtOnce - 1 : r < l.rows}
                    \X {b[2] * GroupSize + c : c \in Channels(k, t)}, {0}))
-----------------------------------------------------------------------------
\* The launchers.
GdnKernels == {"gdn_decode", "gdn_prefill", "gdn_chunked", "gdn_wmma", "conv1d_update", "conv1d_fwd", "rmsnorm"}
CcaKernels == {"cca_state", "cca_decode", "cca_prefill"}
RotateKernels == {"rotate_float", "rotate_half"}
Plain == {"conv1d_update", "conv1d_fwd", "rmsnorm"}
LinearKernelSet == GdnKernels \cup CcaKernels \cup RotateKernels
LinearBlocks(k, l) ==
    CASE k \in GdnKernels -> (DOMAIN l.len) \X (IF k \in Plain THEN {0} ELSE 0 .. l.heads - 1)
      [] k = "cca_state" -> {<<n>> : n \in DOMAIN l.pad}
      [] k = "cca_decode" -> (0 .. l.heads - 1) \X (DOMAIN l.pad)
      [] k = "cca_prefill" -> (0 .. l.heads - 1) \X Packed(l)
      [] k \in RotateKernels -> (0 .. Ceil(l.rows, RowsAtOnce) - 1) \X (0 .. l.groups - 1)
LinearWaves(k) ==
    CASE k = "gdn_wmma" -> Ws
      [] k \in CcaKernels -> 0 .. HeadWaves - 1
      [] OTHER -> 0 .. Threads - 1
LinearCode(k, l, b, w) ==
    CASE k = "gdn_decode" -> GdnDecode(l, b, w)
      [] k = "gdn_prefill" -> GdnPrefill(l, b, w)
      [] k = "gdn_chunked" -> GdnPrefillChunked(l, b, w)
      [] k = "gdn_wmma" -> GdnPrefillWmma(l, b, w)
      [] k = "conv1d_update" -> Conv1dUpdate(l, b, w)
      [] k = "conv1d_fwd" -> Conv1dFwd(l, b, w)
      [] k = "rmsnorm" -> RmsnormGated(l, b, w)
      [] k = "cca_state" -> CcaConvStateDecode(l, b, w)
      [] k = "cca_decode" -> CcaDecodeQk(l, b, w)
      [] k = "cca_prefill" -> CcaPrefillQk(l, b, w)
      [] OTHER -> Rotate(k, l, b, w)

\* The tokens of the sequences a launch computes: one each when decoding, else all of those with
\* a slot; the convolution serves sequences without a slot too.
Decoding == {"gdn_decode", "conv1d_update", "rmsnorm", "cca_state", "cca_decode"}
Served(k, l) ==
    IF k \in Decoding THEN (DOMAIN l.slot) \X {0}
    ELSE {np \in Packed(l) : k \in {"gdn_prefill", "gdn_chunked", "gdn_wmma"} => l.slot[np[1]] > 0}
LastToken(k, l, n) == IF k \in Decoding THEN 0 ELSE l.len[n] - 1
Heads(k, l) == IF k \in Plain \cup {"cca_state"} THEN {0} ELSE 0 .. l.heads - 1

\* What an output and a kept state of sequence n are to hold at token t.
Hears(k, l, n, t) ==
    CASE k = "gdn_decode" -> IF l.slot[n] > 0 THEN History(TRUE, t) ELSE {Nought}
      [] k \in {"gdn_prefill", "gdn_chunked", "gdn_wmma"} -> History(l.init[n], t)
      [] k = "conv1d_update" -> Window(l.slot[n] > 0, t)
      [] k = "conv1d_fwd" -> Window(l.init[n] /\ l.slot[n] > 0, t)
      [] k = "rmsnorm" -> {0}
      [] k = "cca_prefill" -> Window(TRUE, t)
      [] OTHER -> Seen(l, n, Window(TRUE, t))
Keeps(k, l, n) ==
    LET t == LastToken(k, l, n) IN
    CASE k = "rmsnorm" \/ (k \notin CcaKernels /\ l.slot[n] <= 0) -> {}
      [] k \in {"gdn_prefill", "gdn_chunked", "gdn_wmma", "cca_prefill"} /\ l.len[n] = 0 -> {}
      [] k \in GdnKernels \ Plain -> Hears(k, l, n, t)
      [] OTHER -> Hears(k, l, n, t) \ {t - Taps}
LinearWanted(k, l) ==
    IF k \in RotateKernels
    THEN {<<<<"out", p>>, 0>> : p \in (0 .. l.rows - 1) \X (0 .. l.groups * GroupSize - 1)}
    ELSE UNION {{<<<<"out", <<np[1], np[2], h, w>>>>, x>> : x \in Hears(k, l, np[1], np[2])} :
                    np \in Served(k, l), h \in Heads(k, l), w \in LinearWaves(k)}
         \cup UNION {{<<<<"out", <<Kept, l.slot[n], h, w>>>>, x>> : x \in Keeps(k, l, n)} :
                    n \in DOMAIN l.slot, h \in Heads(k, l), w \in LinearWaves(k)}
=============================================================================
