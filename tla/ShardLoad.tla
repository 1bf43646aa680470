----------------------------- MODULE ShardLoad ------------------------------
(***************************************************************************)
(* The ranks of one tensor-parallel group build a gated FFN or the experts *)
(* of a mixture, and each loads its shards of the checkpoint on its own:   *)
(* routed_experts.py and the het-TP patch of vLLM.  The layer is right     *)
(* when the shards of gate, up and down meet in the same intermediate      *)
(* channels, with their scales, and the all-reduce counts each channel     *)
(* once.  A checkpoint tensor is known by the channels it covers.          *)
(***************************************************************************)
EXTENDS HetTp

CONSTANTS N,        \* ranks of the group
          Configs   \* the layers that are built

VARIABLES
    cfg,      \* the layer, its checkpoint and VLLM_TP_CU_WEIGHTS
    lean,     \* see HetTp
    st,       \* each rank: "init", "loading", "ready" or "raised"
    todo,     \* the tensors of the checkpoint a rank has yet to load
    held      \* its parameters: in each slot the unit of the checkpoint

vars == <<cfg, lean, st, todo, held>>

Ranks == 0..N-1

\* A checkpoint has whole packs and whole quantisation groups, and it is the parameters of
\* the experts that are padded.
Layer == [layer : {"moe", "ep", "mlp"}, inter : Nat \ {0}, raw : Seq(Int),
          pack : Nat \ {0}, group : Nat \ {0}, pad : Nat]

ASSUME ShardAssumption ==
    /\ N \in Nat \ {0}
    /\ \A c \in Configs : /\ c \in Layer
                          /\ c.inter % c.pack = 0 /\ c.inter % c.group = 0
                          /\ c.layer = "mlp" => c.pad = 0

Unset == -1
Kinds == {"weight", "scale"}

\* Elements of the intermediate dimension in one unit of a tensor's axis.
Elts(kind) == IF kind = "weight" THEN cfg.pack ELSE cfg.group
AxisTotal(kind) == cfg.inter \div Elts(kind)

TpSize  == IF cfg.layer = "ep" THEN 1 ELSE N
TpRank(r) == IF cfg.layer = "ep" THEN 0 ELSE r
Weights == CuWeights(cfg.raw, TpSize)
Active  == Weights # <<>>

Experts == IF cfg.layer = "ep" THEN 0..1 ELSE {0}
\* expert_map: which experts a rank has.
Local(r, e) == cfg.layer = "ep" => e % N = r

\* The tensors, in the order of the file.
Checkpoint ==
    LET ofExpert(e) == <<<<e, "w1", "weight">>, <<e, "w1", "scale">>, <<e, "w3", "weight">>,
                         <<e, "w3", "scale">>, <<e, "w2", "weight">>, <<e, "w2", "scale">>>>
    IN  IF cfg.layer = "ep" THEN ofExpert(0) \o ofExpert(1) ELSE ofExpert(0)

-----------------------------------------------------------------------------
(* Sizes *)

Align == IF cfg.layer = "mlp" THEN HetAlign(cfg.group) ELSE Floor

\* Does this half of the layer split in proportion?  The columns of gate and up
\* are looked at together.
HetHalf(half) ==
    Active /\ (IF cfg.layer = "mlp" /\ half = "w13" THEN 2 * cfg.inter ELSE cfg.inter) % Align = 0

Sizable(half) ==
    IF HetHalf(half) THEN Splits(cfg.inter, Weights, Align) ELSE cfg.inter % TpSize = 0

PerPartition(r, half) ==
    IF HetHalf(half)
    THEN PartitionSize(cfg.inter, Weights, Align, lean, TpRank(r))
    ELSE cfg.inter \div TpSize

\* Slots of one of w1, w3 and w2 in the parameters, rounded up for the kernels.
Slots(r, half, kind) == (PerPartition(r, half) + cfg.pad) \div Elts(kind)

\* create_weights: whole packs and groups
Creatable(r, half) == \A kind \in Kinds : PerPartition(r, half) % Elts(kind) = 0

Empty(r, half, kind) ==
    [p \in 0..((IF half = "w13" THEN 2 ELSE 1) * Slots(r, half, kind)) - 1 |-> Unset]

-----------------------------------------------------------------------------
(* Shards *)

\* mutant: the even start for ranks of different size
MoeStartBug(r, kind) == TpRank(r) * (AxisTotal(kind) \div TpSize)

MoeStart(r, kind) ==
    IF Active THEN AxisStart(cfg.inter, Weights, Floor, AxisTotal(kind), lean, TpRank(r))
    ELSE TpRank(r) * (AxisTotal(kind) \div TpSize)

MoeSize(r, kind) ==
    IF Active THEN AxisSize(cfg.inter, Weights, Floor, AxisTotal(kind), lean, TpRank(r))
    ELSE AxisTotal(kind) \div TpSize

MoeShardable(r, kind) ==
    Active => AxisShardable(cfg.inter, Weights, Floor, AxisTotal(kind), lean, TpRank(r))

LinearStart(r, half, kind) ==
    IF HetHalf(half) THEN AxisStart(cfg.inter, Weights, Align, AxisTotal(kind), lean, r)
    ELSE r * Slots(r, half, kind)

LinearPlaceable(r, half, kind) ==
    HetHalf(half) => AxisPlaceable(cfg.inter, Weights, Align, AxisTotal(kind), lean, r)

\* Half of the layer that holds a tensor, and where it begins there.
Half(shard) == IF shard = "w2" THEN "w2" ELSE "w13"

\* mutant: the second half begins where the unpadded first one ends
BaseBug(r, shard, kind) ==
    IF shard = "w3" THEN PerPartition(r, "w13") \div Elts(kind) ELSE 0

Base(r, shard, kind) == IF shard = "w3" THEN Slots(r, "w13", kind) ELSE 0

\* Units start.. of the checkpoint go to the slots base..base+size-1.
Placed(param, base, start, size) ==
    [p \in DOMAIN param |-> IF p \in base..base+size-1 THEN start + p - base ELSE param[p]]

-----------------------------------------------------------------------------
(* Actions *)

Raises(r) == st' = [st EXCEPT ![r] = "raised"] /\ UNCHANGED <<cfg, lean, todo, held>>

Create(r) ==
    /\ st[r] = "init"
    /\ \A half \in {"w13", "w2"} : Sizable(half) /\ Creatable(r, half)
    /\ held' = [held EXCEPT ![r] =
                  [e \in {x \in Experts : Local(r, x)} |->
                     [half \in {"w13", "w2"} |-> [kind \in Kinds |-> Empty(r, half, kind)]]]]
    /\ st' = [st EXCEPT ![r] = "loading"]
    /\ UNCHANGED <<cfg, lean, todo>>

CreateRaises(r) ==
    /\ st[r] = "init"
    /\ \E half \in {"w13", "w2"} : ~Sizable(half) \/ ~Creatable(r, half)
    /\ Raises(r)

\* The next tensor, in the order of the checkpoint.
Upcoming(r, e, shard, kind) == st[r] = "loading" /\ todo[r] # <<>> /\ Head(todo[r]) = <<e, shard, kind>>

Advance(r) == todo' = [todo EXCEPT ![r] = Tail(@)] /\ UNCHANGED <<cfg, lean, st>>

Skip(r, e, shard, kind) ==
    /\ Upcoming(r, e, shard, kind) /\ ~Local(r, e)
    /\ Advance(r) /\ UNCHANGED held

Stored(r, e, shard, kind, start, size) ==
    held' = [held EXCEPT ![r][e][Half(shard)][kind] =
               Placed(@, Base(r, shard, kind), start, size)]

\* _load_w13 and _load_w2: cut the shard, narrow the padded parameter to it.
LoadMoe(r, e, shard, kind) ==
    LET start == MoeStart(r, kind)
        avail == AxisTotal(kind) - start
        size  == IF MoeSize(r, kind) < avail THEN MoeSize(r, kind) ELSE avail
    IN  /\ Upcoming(r, e, shard, kind) /\ cfg.layer # "mlp" /\ Local(r, e)
        /\ IF ~MoeShardable(r, kind) \/ size > Slots(r, Half(shard), kind)
             THEN Raises(r)
             ELSE /\ IF avail <= 0 THEN UNCHANGED held ELSE Stored(r, e, shard, kind, start, size)
                  /\ Advance(r)

\* load_merged_column_weight and load_row_parallel_weight: the shapes must agree.
LoadLinear(r, shard, kind) ==
    LET start == LinearStart(r, Half(shard), kind)
        size  == Slots(r, Half(shard), kind)
    IN  /\ Upcoming(r, 0, shard, kind) /\ cfg.layer = "mlp"
        /\ IF ~LinearPlaceable(r, Half(shard), kind) \/ start + size > AxisTotal(kind)
             THEN Raises(r)
             ELSE Stored(r, 0, shard, kind, start, size) /\ Advance(r)

\* mutant: the model is used before its weights are all there
ReadyBug(r) ==
    /\ st[r] = "loading"
    /\ st' = [st EXCEPT ![r] = "ready"]
    /\ UNCHANGED <<cfg, lean, todo, held>>

Ready(r) ==
    /\ st[r] = "loading" /\ todo[r] = <<>>
    /\ st' = [st EXCEPT ![r] = "ready"]
    /\ UNCHANGED <<cfg, lean, todo, held>>

Done == (\A r \in Ranks : st[r] \in {"ready", "raised"}) /\ UNCHANGED vars

-----------------------------------------------------------------------------

Orders == {o \in [Ranks -> Ranks] : \A i, j \in Ranks : o[i] = o[j] => i = j}

Init ==
    /\ cfg \in Configs /\ lean \in Orders
    /\ st = [r \in Ranks |-> "init"]
    /\ todo = [r \in Ranks |-> Checkpoint]
    /\ held = [r \in Ranks |-> <<>>]

Next ==
    \/ \E r \in Ranks : Create(r) \/ CreateRaises(r) \/ Ready(r)
    \/ \E r \in Ranks, e \in Experts, shard \in {"w1", "w3", "w2"}, kind \in Kinds :
          Skip(r, e, shard, kind) \/ LoadMoe(r, e, shard, kind)
    \/ \E r \in Ranks, shard \in {"w1", "w3", "w2"}, kind \in Kinds : LoadLinear(r, shard, kind)
    \/ Done

Spec == Init /\ [][Next]_vars

-----------------------------------------------------------------------------
(* Properties *)

\* Type invariant.
TypeOK ==
    /\ cfg \in Layer
    /\ lean \in Orders
    /\ st \in [Ranks -> {"init", "loading", "ready", "raised"}]
    /\ \A r \in Ranks :
        /\ todo[r] \in Seq(Experts \X {"w1", "w3", "w2"} \X Kinds)
        /\ st[r] = "ready" => todo[r] = <<>>
        /\ st[r] \in {"loading", "ready"} =>
             \A e \in DOMAIN held[r] : \A half \in {"w13", "w2"}, kind \in Kinds :
                \A p \in DOMAIN held[r][e][half][kind] :
                   held[r][e][half][kind][p] \in (0..AxisTotal(kind)-1) \cup {Unset}

\* The unit that the kernels find for a slot of w1, w3 or w2: w13 is read as two halves.
Found(r, e, shard, kind, slot) ==
    LET param == held[r][e][Half(shard)][kind]
    IN  param[IF shard = "w3" THEN (Cardinality(DOMAIN param) \div 2) + slot ELSE slot]

\* The intermediate channel that a rank's p-th one is, by one of the three weights.
Channel(r, e, shard, p) ==
    (Found(r, e, shard, "weight", p \div cfg.pack) * cfg.pack) + (p % cfg.pack)

\* On a rank that has loaded, the p-th output of gate, the p-th of up and the p-th input
\* of down are the same channel, and the scale of its group is the one that is applied.
SlotsMeet ==
    \A r \in Ranks : st[r] = "ready" =>
        /\ PerPartition(r, "w13") = PerPartition(r, "w2")
        /\ \A e \in DOMAIN held[r], p \in 0..PerPartition(r, "w2")-1, shard \in {"w1", "w3", "w2"} :
            /\ Channel(r, e, shard, p) = Channel(r, e, "w2", p)
            /\ Found(r, e, shard, "scale", p \div cfg.group) = Channel(r, e, "w2", p) \div cfg.group

\* When all ranks have loaded, the all-reduce adds every channel of every expert once.
EachOnce ==
    (\A r \in Ranks : st[r] = "ready") =>
        \A e \in Experts, c \in 0..cfg.inter-1 :
            Cardinality({x \in Ranks \X (0..cfg.inter-1) :
                /\ e \in DOMAIN held[x[1]] /\ x[2] < PerPartition(x[1], "w2")
                /\ Channel(x[1], e, "w2", x[2]) = c}) = 1

\* The card with more compute units never gets the smaller shard, whichever way equal
\* remainders are rounded (het_tp.py:229).
BiggerNotLess ==
    \A r, s \in 0..TpSize-1, half \in {"w13", "w2"} :
        HetHalf(half) /\ Weights[r+1] >= Weights[s+1] /\ Weights[r+1] # Weights[s+1] =>
            PerPartition(r, half) >= PerPartition(s, half)

=============================================================================
