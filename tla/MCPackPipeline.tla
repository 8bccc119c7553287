--------------------------- MODULE MCPackPipeline ---------------------------
(***************************************************************************)
(* Instance of PackPipeline: three shards, a dense layer and two layers    *)
(* with experts.  Layer 1 crosses from shard 1 to 2 in its experts, layer  *)
(* 2 from 2 to 3; the vision tensors share shard 3 with the last globals.  *)
(***************************************************************************)
EXTENDS PackPipeline

MCSource ==
    [k \in Set(AllTrunk) \cup Set(AllExperts) \cup Set(VisionSpec) |->
        CASE k[1] = "vision"                 -> {3}
          [] k[1] = "trunk" /\ k[2] = -1     -> IF k[3] = 1 THEN {1} ELSE {3}
          [] k[1] = "trunk"                  -> IF k[2] = 2 THEN {2} ELSE {1}
          [] k[1] = "experts"                -> IF k[2] = 1 THEN {1, 2} ELSE {2, 3}]

\* This checkpoint is laid out as TwoShards needs it.
ASSUME NeighboursAssumption == Neighbours
=============================================================================
