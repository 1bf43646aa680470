------------------------------- MODULE HetTp --------------------------------
(***************************************************************************)
(* The proportional split of patches/het_tp.py: an intermediate dimension  *)
(* is cut into one shard per rank, in whole tiles of `align` elements, in  *)
(* proportion to the ranks' compute units.  Every operator is a function   *)
(* of its arguments; what the Python raises is a predicate of its own.     *)
(***************************************************************************)
EXTENDS Integers, Sequences, FiniteSets

CONSTANT Floor   \* HET_ALIGN_FLOOR

ASSUME FloorAssumption == Floor \in Nat \ {0}

\* get_cu_weights: <<>> stands for None, the even split.
CuWeights(raw, tp) ==
    IF Len(raw) = tp /\ \A i \in DOMAIN raw : raw[i] > 0 THEN raw ELSE <<>>

\* The ranks of weights w: rank i has w[i+1].
Parts(w) == 0..Len(w)-1

\* f[0] + ... + f[n-1]
Sum(n, f) ==
    LET sum[i \in 0..n] == IF i = 0 THEN 0 ELSE sum[i-1] + f[i-1]
    IN  sum[n]

-----------------------------------------------------------------------------
(* partition_sizes: largest remainders.  Two remainders that are equal are  *)
(* compared as floating point numbers and may differ there in either        *)
(* direction: `lean`, an order of the ranks, says how, and is the same      *)
(* wherever the same split is computed.                                     *)

Whole(units, w, wsum, i) == (units * w[i+1]) \div wsum
Rest(units, w, wsum, i)  == (units * w[i+1]) % wsum

\* mutant: the smallest remainders first
BeforeBug(units, w, wsum, lean, i, j) ==
    \/ Rest(units, w, wsum, i) < Rest(units, w, wsum, j)
    \/ Rest(units, w, wsum, i) = Rest(units, w, wsum, j) /\ lean[i] < lean[j]

Before(units, w, wsum, lean, i, j) ==
    \/ Rest(units, w, wsum, i) > Rest(units, w, wsum, j)
    \/ Rest(units, w, wsum, i) = Rest(units, w, wsum, j) /\ lean[i] < lean[j]

Ahead(units, w, wsum, lean, i) == {j \in Parts(w) : Before(units, w, wsum, lean, j, i)}

\* The tiles of rank i when `left` tiles are left over by the whole parts.
Tiles(units, w, wsum, left, lean, i) ==
    Whole(units, w, wsum, i)
      + IF Cardinality(Ahead(units, w, wsum, lean, i)) < left THEN 1 ELSE 0

Splits(total, w, align) == total % align = 0 /\ total \div align >= Len(w)

PartitionSize(total, w, align, lean, i) ==
    LET units == total \div align
        wsum  == Sum(Len(w), [k \in Parts(w) |-> w[k+1]])
        left  == units - Sum(Len(w), [k \in Parts(w) |-> Whole(units, w, wsum, k)])
    IN  Tiles(units, w, wsum, left, lean, i) * align

PartitionOffset(total, w, align, lean, i) ==
    Sum(i, [k \in Parts(w) |-> PartitionSize(total, w, align, lean, k)])

-----------------------------------------------------------------------------
(* What the layers and the weight loaders ask for. *)

LeastMultiple(a, b) == CHOOSE m \in 1..a*b :
    m % a = 0 /\ m % b = 0 /\ \A k \in 1..m-1 : k % a # 0 \/ k % b # 0

HetAlign(group) == LeastMultiple(group, Floor)

\* A shard in the units of an axis, u elements per unit.
Unit(total, axis) == total \div axis

AxisShardable(total, w, align, axis, lean, i) ==
    /\ total % axis = 0 /\ Splits(total, w, align)
    /\ PartitionOffset(total, w, align, lean, i) % Unit(total, axis) = 0
    /\ PartitionOffset(total, w, align, lean, i+1) % Unit(total, axis) = 0

\* het_axis_offset looks at the start alone.
AxisPlaceable(total, w, align, axis, lean, i) ==
    /\ total % axis = 0 /\ Splits(total, w, align)
    /\ PartitionOffset(total, w, align, lean, i) % Unit(total, axis) = 0

AxisStart(total, w, align, axis, lean, i) ==
    PartitionOffset(total, w, align, lean, i) \div Unit(total, axis)

AxisSize(total, w, align, axis, lean, i) ==
    PartitionSize(total, w, align, lean, i) \div Unit(total, axis)

=============================================================================
