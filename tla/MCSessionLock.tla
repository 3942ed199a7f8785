---------------------------- MODULE MCSessionLock ----------------------------
(* Instances of SessionLock for TLC: two doors of one terva, one of another. *)
EXTENDS SessionLock, TLC

CONSTANTS a1, a2, b1, p, q

MCProcessOf == a1 :> p @@ a2 :> p @@ b1 :> q
MCTwoProcesses == a1 :> p @@ b1 :> q
=============================================================================
