-------------------------- MODULE MCPruningScreen --------------------------
(***************************************************************************)
(* Two layers of three experts, one routed a token; two calibration        *)
(* prompts, one held-out prompt and one image.                             *)
(***************************************************************************)
EXTENDS PruningScreen

MCLastLayer == 2
MCExperts == 0 .. 2
MCTopK == 1
MCCalibration == <<"c1", "c2">>
MCHeldOut == <<"t1">>
MCCases == <<"v1">>
MCScores == [p \in {"c1", "c2", "t1", "v1"} |->
               LET falling == [e \in MCExperts |-> -e]
                   raised  == [falling EXCEPT ![2] = 1]
               IN IF p = "c1" THEN {falling} ELSE {falling, raised}]
MCWeight == [p \in {"c1", "c2"} |-> IF p = "c1" THEN 1 ELSE 3]
MCKeeps == <<2, 1>>
MCCap == 1
MCLists == {<<{<<1, 0>>}>>, <<{<<1, 2>>, <<2, 0>>}>>, <<{<<1, 0>>}, {<<1, 0>>, <<2, 2>>}>>,
            <<{<<1, 0>>}, {<<1, 1>>, <<2, 1>>}>>, <<{<<1, 1>>}, {<<1, 1>>, <<1, 2>>}>>}
MCEnvMasks == {{}, {<<1, 0>>}}
MCTools == {"phase_a", "phase_b", "multi", "sentinel", "guard", "vl_phase_b"}
MCMaxRuns == 2
=============================================================================
