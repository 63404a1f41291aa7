---------------------------- MODULE MCRpcClient ----------------------------
(***************************************************************************)
(* Instances of RpcClient for TLC.                                         *)
(***************************************************************************)
EXTENDS RpcClient

CONSTANTS c1, c2
=============================================================================
