------------------------------ MODULE MCRpcIdles ------------------------------
(* Two workers that dispatch at the same time and two consumers.            *)
EXTENDS RpcIdles
=============================================================================
