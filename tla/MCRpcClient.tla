---------------------------- MODULE MCRpcClient ----------------------------
(* Two references and a few calls.                                         *)
EXTENDS RpcClient
=============================================================================
