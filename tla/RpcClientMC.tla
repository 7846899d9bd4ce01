---------------------------- MODULE RpcClientMC ----------------------------
(* RpcClient with model values for the calls and the commands *)
EXTENDS RpcClient
=============================================================================
