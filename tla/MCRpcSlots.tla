----------------------------- MODULE MCRpcSlots -----------------------------
(* One worker and one consumer, one fault, and two configurations: the      *)
(* processes of the second one start while those of the first still run.    *)
EXTENDS RpcSlots
=============================================================================
