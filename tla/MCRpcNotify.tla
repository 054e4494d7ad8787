----------------------------- MODULE MCRpcNotify -----------------------------
(* Two pushers and three tasks: both critical sections contended, a queue   *)
(* of every length up to three, and nodes that are pushed again.            *)
EXTENDS RpcNotify
=============================================================================
