---------------------------- MODULE MCExpertStore ----------------------------
(***************************************************************************)
(* Instance of ExpertStore: three routed experts; a full source in an      *)
(* order of its own, a sparse one, and one shorter than its index says.    *)
(***************************************************************************)
EXTENDS ExpertStore

MCSources == {[recs |-> <<2, 1, 3>>, sized |-> TRUE],
              [recs |-> <<3, 2>>,    sized |-> TRUE],
              [recs |-> <<1, 2, 3>>, sized |-> FALSE]}
MCMaps == {<<1, 1, 3>>, <<3, 3, 3>>, <<1, 3, 3>>}
=============================================================================
