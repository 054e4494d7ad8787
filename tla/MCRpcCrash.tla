----------------------------- MODULE MCRpcCrash -----------------------------
(* One worker and one consumer, one fault, and either a reload and one      *)
(* request or two requests.  The reload finds the pool of the first         *)
(* configuration, and a directive that is too small is refused.             *)
EXTENDS RpcCrash
=============================================================================
