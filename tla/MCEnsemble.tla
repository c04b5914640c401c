----------------------------- MODULE MCEnsemble -----------------------------
(***************************************************************************)
(* Instances of the ensemble runner for TLC: two candidates as configured  *)
(* by default (max_candidates_per_node = 2, quorum_ratio = 0.5), the       *)
(* second one with the smaller weight, in tenths.                          *)
(***************************************************************************)
EXTENDS Ensemble, TLC

MCWeight == (1 :> 10) @@ (2 :> 8)

MCSymmetry == Permutations(Node)
=============================================================================
