------------------------------- MODULE MCSwarm -------------------------------
(* An instance of Swarm for TLC. *)
EXTENDS Swarm

CONSTANTS a1
=============================================================================
