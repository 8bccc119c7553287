---------------------------- MODULE MCApiServer ----------------------------
(***************************************************************************)
(* Instance of ApiServer.  The requests are interchangeable: a run without *)
(* liveness uses that as symmetry, the one with it has one stream and one  *)
(* plain request.  Requests meet at the lock only, so what two of a kind   *)
(* could do to each other is left to the symmetric run and to the proofs.  *)
(***************************************************************************)
EXTENDS ApiServer, TLC

MCSymmetry == Permutations(Requests)

MCFirst == CHOOSE r \in Requests : TRUE

MCInit == Init /\ \A r \in Requests : kind[r] = "stream" <=> r = MCFirst

MCFairSpec == MCInit /\ [][Next]_vars /\ Fairness
=============================================================================
