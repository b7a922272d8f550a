----------------------------- MODULE MCWorktree -----------------------------
(* Instances of Worktree for TLC.                                           *)
EXTENDS Worktree, TLC

CONSTANTS p1, p2

(* Nothing tells two paths apart, and no liveness is checked.               *)
PathSymmetry == Permutations(Paths)

=============================================================================
