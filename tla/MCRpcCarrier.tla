---------------------------- MODULE MCRpcCarrier ----------------------------
(* Instances of RpcCarrier for TLC. *)
EXTENDS RpcCarrier
CONSTANT d1
=============================================================================
