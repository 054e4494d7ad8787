--------------------------- MODULE MCRpcTaskBufs ---------------------------
(* Two calls in a pool of chunks of two bytes: bodies that fill their chunk *)
(* or do not, in one buffer, in two, or with the rest in a file; messages   *)
(* that are empty and that need two buffers; answers of subrequests that    *)
(* are empty or have three buffers, so that a node which one call has freed *)
(* can become a node of the other's with more behind it; and a pool that    *)
(* becomes full in the middle of every handler that allocates.              *)
EXTENDS RpcTaskBufs, TLC

Mem(n) == [len |-> n, file |-> FALSE]
File == [len |-> 0, file |-> TRUE]

MCBodies == {<<Mem(1)>>, <<Mem(2)>>, <<Mem(1), File>>, <<Mem(1), Mem(1)>>}
MCOuts == {<<>>, <<Mem(1), Mem(1), Mem(1)>>}

(* A bound: after a free that went wrong the memory of the calls is no      *)
(* longer what they take it for, and the model is not followed further.     *)
BeforeWrong == ~wrong

(* The first free chunk. *)
MCSlab(F) == SelectSeq([k \in 1 .. NChunks |-> k], LAMBDA k : k \in F)

Symmetry == Permutations(Calls)
=============================================================================
