---------------------------- MODULE MCRpcSession ----------------------------
(***************************************************************************)
(* Values of RpcSession's constants for TLC.                               *)
(***************************************************************************)
EXTENDS RpcSession
=============================================================================
