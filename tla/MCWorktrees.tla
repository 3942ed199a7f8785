----------------------------- MODULE MCWorktrees -----------------------------
(* Instances of Worktrees for TLC. *)
EXTENDS Worktrees, TLC
CONSTANTS s1, s2, n1

(* No checkout and no owner is special. *)
Symmetry == Permutations(Owners) \cup Permutations(Names)
=============================================================================
