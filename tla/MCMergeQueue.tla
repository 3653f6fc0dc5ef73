---------------------------- MODULE MCMergeQueue ----------------------------
(***************************************************************************)
(* Instances of MergeQueue for TLC, with all cards on one branch.          *)
(***************************************************************************)
EXTENDS MergeQueue, TLC

OneBranch == [c \in Cards |-> CHOOSE k \in Keys : TRUE]

MCSymmetry == Permutations(Workers)

=============================================================================
