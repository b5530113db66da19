--------------------------- MODULE MCMergeAccount ---------------------------
(* Instances of MergeAccount for TLC.                                       *)
EXTENDS MergeAccount, TLC

CallerSymmetry == Permutations(Callers)
=============================================================================
