-------------------------- MODULE MCTalkootRouter --------------------------
(* Instances of TalkootRouter for TLC. *)
EXTENDS TalkootRouter, TLC
CONSTANTS m1, m2, d1, d2

(* No member and no dispatch is special. *)
Symmetry == Permutations(Members) \cup Permutations(Loops)
=============================================================================
