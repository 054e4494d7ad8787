----------------------------- MODULE MCRpcSystem -----------------------------
(***************************************************************************)
(* RpcSystem for model checking.  Processes of one kind and requests are   *)
(* interchangeable; the symmetry is used in the runs without liveness.     *)
(***************************************************************************)
EXTENDS RpcSystem, TLC

Symmetry == Permutations(Workers) \union Permutations(Consumers)
                \union Permutations(Requests)
=============================================================================
