--------------------------- MODULE MCGitPreflight ---------------------------
(* Two runs in one worktree, under any two policies. *)
EXTENDS GitPreflight
Symmetry == Permutations(Runs)
=============================================================================
