----------------------------- MODULE RpcMailbox -----------------------------
(***************************************************************************)
(* What a notify object promises to the processes that share it, and no    *)
(* more: a first-in first-out mailbox with many senders and one receiver,  *)
(* in which a node is never lost, never duplicated and is always taken.    *)
(* There are no pointers, no lock and no eventfd here; RpcNotify has them  *)
(* and is shown to implement this specification.                           *)
(***************************************************************************)
EXTENDS Sequences

CONSTANTS Senders,   \* the processes that push
          Nodes,     \* the queue nodes of the tasks
          None       \* "no node"

VARIABLES out,       \* the node a sender is pushing
          box,       \* the nodes in the mailbox, oldest first
          got        \* the node the receiver is working on

vars == <<out, box, got>>

Contents == {box[i] : i \in DOMAIN box}

Init == /\ out = [s \in Senders |-> None]
        /\ box = <<>>
        /\ got = None

\* A sender starts to push a node that nobody else has.
Begin(s, n) == /\ out[s] = None
               /\ n \notin Contents
               /\ n # got
               /\ \A t \in Senders : out[t] # n
               /\ out' = [out EXCEPT ![s] = n]
               /\ UNCHANGED <<box, got>>

\* The push takes effect.
Put(s) == /\ out[s] # None
          /\ box' = Append(box, out[s])
          /\ out' = [out EXCEPT ![s] = None]
          /\ UNCHANGED got

\* The receiver takes the oldest node.
Take == /\ got = None
        /\ box # <<>>
        /\ got' = Head(box)
        /\ box' = Tail(box)
        /\ UNCHANGED out

\* The receiver has handled the node and gives it away.
Done == /\ got # None
        /\ got' = None
        /\ UNCHANGED <<out, box>>

Next == \/ \E s \in Senders : Put(s) \/ \E n \in Nodes : Begin(s, n)
        \/ Take
        \/ Done

SafeSpec == Init /\ [][Next]_vars

Fairness == /\ \A s \in Senders : WF_vars(Put(s))
            /\ WF_vars(Take)
            /\ WF_vars(Done)

Spec == SafeSpec /\ Fairness
=============================================================================
