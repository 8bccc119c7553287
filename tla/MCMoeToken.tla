----------------------------- MODULE MCMoeToken -----------------------------
(***************************************************************************)
(* Instance of MoeToken: two routed layers of five experts, three of them  *)
(* routed at a time; routes overlap, and the heaviest expert comes first,  *)
(* in the middle, or ties.  MCSparse leaves one record out.                *)
(***************************************************************************)
EXTENDS MoeToken, TLC

MCLayers  == 0 .. 2
MCExperts == 0 .. 4
MCRecords == {1, 2} \X MCExperts
MCOffset  == [k \in MCRecords |-> 5 * k[1] + (4 - k[2])]
MCSparse  == MCRecords \ {<<2, 3>>}
MCSparseOffset == [k \in MCSparse |-> MCOffset[k]]
MCRoutes  == {[id |-> <<0, 1, 2>>, weight |-> <<3, 2, 1>>],
              [id |-> <<3, 0, 4>>, weight |-> <<3, 1, 2>>],
              [id |-> <<4, 1, 3>>, weight |-> <<1, 1, 1>>]}
=============================================================================
