--------------------------- MODULE MCApplyService ---------------------------
(* Small instances of ApplyService. *)
EXTENDS ApplyRefinement, TLC

CONSTANTS plain, dnsTLS, docA, docD

MCCompile == [s \in Core |-> IF s = dnsTLS THEN docD ELSE docA]

CallerSymmetry == Permutations(Callers)
=============================================================================
