--------------------------- MODULE MCExpertCache ---------------------------
(***************************************************************************)
(* Instance of ExpertCache: two layers of two experts, one of the four     *)
(* records absent (a sparse store), file order unlike key order.           *)
(***************************************************************************)
EXTENDS ExpertCache, TLC

MCLayers  == {0, 1}
MCExperts == {0, 1}
MCRecords == Keys \ {<<1, 1>>}
MCOffset  == (<<0, 0>> :> 2) @@ (<<0, 1>> :> 1) @@ (<<1, 0>> :> 0)
=============================================================================
