---------------------------- MODULE MCShardLoad -----------------------------
(* ShardLoad on three ranks, in tiles of four. *)
EXTENDS ShardLoad

Layers(layer, inters, raws, groups, pads) ==
    [layer : {layer}, inter : inters, raw : raws, pack : {2}, group : groups, pad : pads]

Weighted == {<<3, 2, 1>>, <<2, 2, 3>>}

ThreeRanks ==
    \* mixtures: whole tiles, tiles that are less than a group, too few tiles, no tiles
    Layers("moe", {24, 32}, Weighted, {2, 8}, {0, 8})
      \cup Layers("moe", {8, 18}, Weighted, {2}, {0})
    \* weights that are unset, malformed or for another number of ranks; padding
      \cup Layers("moe", {12, 24}, {<<>>, <<2, 1>>, <<1, 0, 1>>}, {2}, {0, 4})
      \cup Layers("ep", {12}, {<<>>, <<3, 2, 1>>, <<5>>}, {4}, {0, 4})
    \* dense layers
      \cup Layers("mlp", {24, 32}, Weighted \cup {<<>>}, {2, 8}, {0})
      \cup Layers("mlp", {20}, Weighted \cup {<<>>}, {2}, {0})
      \cup Layers("mlp", {18}, Weighted, {2}, {0})
=============================================================================
