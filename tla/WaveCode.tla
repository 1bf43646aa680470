----------------------------- MODULE WaveCode -----------------------------
(* The words the kernels are written in: statements of a wave over cells  *)
(* <<buffer, slot, share>> of local memory: the slots of a buffer lie     *)
(* side by side (the halves of a double buffer), its share is what one    *)
(* wave stages.  Staging loops run over a flat index with the stride of   *)
(* the workgroup: a row or a column of a tile lies in all waves' shares.  *)
EXTENDS Integers, Sequences

CONSTANT Dim   \* rows and columns of a WMMA fragment; a wave has 2 * Dim lanes

Do(reads, writes) == <<[sync |-> FALSE, reads |-> reads, writes |-> writes]>>
Sync == <<[sync |-> TRUE, reads |-> {}, writes |-> {}]>>

\* The share of wave w in a slot of each of the buffers, and the whole slots, in one version.
OwnOf(bufs, slot, w, version) == {<<<<b, slot, w>>, version>> : b \in bufs}
AllOf(bufs, slot, ws, version) == {<<<<b, slot, u>>, version>> : b \in bufs, u \in ws}
Own(bufs, w, version) == OwnOf(bufs, 0, w, version)
All(bufs, ws, version) == AllOf(bufs, 0, ws, version)
Result(places, parts) == {<<<<"out", p>>, parts>> : p \in places}

\* for (i = first; i < end; ++i) and for (i = first; i < end; i += step)
Loop(first, end, Body(_)) ==
    LET upto[i \in first .. end] == IF i = first THEN <<>> ELSE upto[i - 1] \o Body(i - 1)
    IN upto[end]
Ceil(a, b) == (a + b - 1) \div b
Strides(first, end, step, Body(_)) == Loop(0, Ceil(end - first, step), LAMBDA i : Body(first + i * step))
Least(a, b) == IF a < b THEN a ELSE b
=============================================================================
