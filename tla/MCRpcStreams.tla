---------------------------- MODULE MCRpcStreams ----------------------------
(* Writing: buffers of 2, 4 and 6 bytes and messages of up to nine bytes:   *)
(* none, one, two and three buffers, filled exactly or not, and a second    *)
(* message that starts in the rest of a buffer or at its end.               *)
(* Reading: every chain of up to three buffers of up to two bytes, empty    *)
(* ones and ones in a file among them.                                      *)
EXTENDS RpcStreams
=============================================================================
