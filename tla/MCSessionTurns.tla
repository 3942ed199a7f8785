--------------------------- MODULE MCSessionTurns ---------------------------
(* Instances of SessionTurns for TLC. *)
EXTENDS SessionTurns, TLC

Symmetry == Permutations(Threads) \cup Permutations(Texts \ Deliveries)
ThreadSymmetry == Permutations(Threads)
=============================================================================
