------------------------------- MODULE RpcIdles -------------------------------
(***************************************************************************)
(* The list of idle consumers (ngx_rpc_queue_t.idles): the workers take a  *)
(* consumer from it for each request, the ngx_proc_rpc processes put       *)
(* themselves back at the end of every cycle.  The list is modelled with   *)
(* its links because the code never asks whether a consumer is already     *)
(* listed: a wake-up runs the cycle at least twice, so the same node is    *)
(* inserted again while it is linked, and the list becomes a loop.         *)
(*                                                                         *)
(* The tasks themselves are left out (RpcNotify has their queue, RpcSystem *)
(* their life): work says whether the queue of a consumer is not empty.    *)
(***************************************************************************)
EXTENDS Integers, FiniteSets

CONSTANTS Workers,     \* worker processes: they dispatch
          Consumers,   \* ngx_proc_rpc processes, and their nodes notify->idles
          Idles,       \* the list head &queue->idles
          None         \* NULL, and "lock is free"

ASSUME DisjointAssumption == Workers \intersect Consumers = {}
ASSUME HeadAssumption == Idles \notin Consumers
ASSUME NoneAssumption == None \notin Workers \union Consumers
ASSUME ConsumersAssumption == IsFiniteSet(Consumers)

VARIABLES next, prev,   \* the links of the list
          idles_lock,   \* the process that holds idles_lock, or None
          pc,
          node,         \* the worker's proc_notify_node, then its target
          signal,       \* the consumer's event_fd counter is not zero
          armed,        \* the consumer's write event is registered
          ret,          \* ret > 0 in the consumer's read handler
          work,         \* the consumer's task queue is not empty
          forwarded     \* consumers that may have a call waiting for a subrequest

vars == <<next, prev, idles_lock, pc, node, signal, armed, ret, work, forwarded>>

Procs == Workers \union Consumers
Links == Consumers \union {Idles}

\* Every variable in its range.  A worker's node is a consumer or NULL: a
\* dispatch never takes the list head itself for a consumer.
TypeOK == /\ next \in [Links -> Links]
          /\ prev \in [Links -> Links]
          /\ idles_lock \in Procs \union {None}
          /\ pc \in [Procs -> {"idle", "test", "unlink", "push", "signal",
                               "wait", "read", "write", "cycle", "lock",
                               "insert"}]
          /\ node \in [Workers -> Consumers \union {None}]
          /\ signal \in [Consumers -> BOOLEAN]
          /\ armed \in [Consumers -> BOOLEAN]
          /\ ret \in [Consumers -> BOOLEAN]
          /\ work \in [Consumers -> BOOLEAN]
          /\ forwarded \in SUBSET Consumers

\* ngx_rpc_queue_create has initialised the list and every notify node; the
\* consumers have registered and none has run a cycle yet.
Init == /\ next = [n \in Links |-> n]
        /\ prev = [n \in Links |-> n]
        /\ idles_lock = None
        /\ pc = [p \in Procs |-> IF p \in Workers THEN "idle" ELSE "wait"]
        /\ node = [w \in Workers |-> None]
        /\ signal = [c \in Consumers |-> FALSE]
        /\ armed = [c \in Consumers |-> TRUE]
        /\ ret = [c \in Consumers |-> FALSE]
        /\ work = [c \in Consumers |-> FALSE]
        /\ forwarded = {}

Goto(p, l) == pc' = [pc EXCEPT ![p] = l]
-----------------------------------------------------------------------------
(* ngx_rpc_queue_push_and_notify, in a worker *)

DispatchCall(w) ==
    /\ pc[w] = "idle"
    /\ idles_lock' = w
    /\ Goto(w, "test")
    /\ UNCHANGED <<next, prev, node, signal, armed, ret, work, forwarded>>

DispatchLock(w) == idles_lock = None /\ DispatchCall(w)

\* ngx_queue_empty: no consumer, the request is answered 500 by the caller.
Refuse(w) ==
    /\ pc[w] = "test"
    /\ prev[Idles] = Idles
    /\ idles_lock' = None
    /\ Goto(w, "idle")
    /\ UNCHANGED <<next, prev, node, signal, armed, ret, work, forwarded>>

\* proc_notify_node = idles.next
DispatchTake(w) ==
    /\ pc[w] = "test"
    /\ prev[Idles] # Idles
    /\ node' = [node EXCEPT ![w] = next[Idles]]
    /\ Goto(w, "unlink")
    /\ UNCHANGED <<next, prev, idles_lock, signal, armed, ret, work, forwarded>>

\* Mutant of Unlinked: the chain behind a self-linked node is dropped.
UnlinkedAll(n) == [next EXCEPT ![Idles] = IF next[n] = n THEN Idles ELSE next[n]]

\* idles.next = node->next
Unlinked(n) == [next EXCEPT ![Idles] = next[n]]

\* The same, then node->next->prev = &idles and the unlock; the task gets its
\* proc_notify.
DispatchUnlink(w) ==
    /\ pc[w] = "unlink"
    /\ next' = Unlinked(node[w])
    /\ prev' = [prev EXCEPT ![next[node[w]]] = Idles]
    /\ idles_lock' = None
    /\ Goto(w, "push")
    /\ UNCHANGED <<node, signal, armed, ret, work, forwarded>>

\* ngx_rpc_notify_push_task: the task is in the consumer's queue ...
Push(w) ==
    /\ pc[w] = "push"
    /\ work' = [work EXCEPT ![node[w]] = TRUE]
    /\ Goto(w, "signal")
    /\ UNCHANGED <<next, prev, idles_lock, node, signal, armed, ret, forwarded>>

\* ... and its eventfd is written.
Notify(w) ==
    /\ pc[w] = "signal"
    /\ signal' = [signal EXCEPT ![node[w]] = TRUE]
    /\ node' = [node EXCEPT ![w] = None]
    /\ Goto(w, "idle")
    /\ UNCHANGED <<next, prev, idles_lock, armed, ret, work, forwarded>>

\* ngx_http_rpc_subrequest_done_handler pushes to task->proc_notify, which it
\* does not take from the list.
NotifyAgain(w, c) ==
    /\ pc[w] = "idle"
    /\ c \in forwarded
    /\ node' = [node EXCEPT ![w] = c]
    /\ Goto(w, "push")
    /\ UNCHANGED <<next, prev, idles_lock, signal, armed, ret, work, forwarded>>
-----------------------------------------------------------------------------
(* A consumer: the event handlers of RpcNotify around process_one_cycle *)

Wake(c) ==
    /\ pc[c] = "wait"
    /\ armed[c] \/ signal[c]
    /\ Goto(c, IF signal[c] THEN "read" ELSE "write")
    /\ UNCHANGED <<next, prev, idles_lock, node, signal, armed, ret, work, forwarded>>

ReadFd(c) ==
    /\ pc[c] = "read"
    /\ ret' = [ret EXCEPT ![c] = signal[c]]
    /\ signal' = [signal EXCEPT ![c] = FALSE]
    /\ Goto(c, "cycle")
    /\ UNCHANGED <<next, prev, idles_lock, node, armed, work, forwarded>>

WriteReady(c) ==
    /\ pc[c] = "write"
    /\ armed' = [armed EXCEPT ![c] = FALSE]
    /\ Goto(c, "cycle")
    /\ UNCHANGED <<next, prev, idles_lock, node, signal, ret, work, forwarded>>

\* The do-while loop of the read handler, then the write event.
AfterCycle(c) == IF ret[c] THEN "read" ELSE IF armed[c] THEN "write" ELSE "wait"

\* The loop of ngx_proc_rpc_process_one_cycle runs every task in the queue;
\* any of them may be a call that is forwarded.
Drain(c) ==
    /\ pc[c] = "cycle"
    /\ work' = [work EXCEPT ![c] = FALSE]
    /\ forwarded' = IF work[c] THEN forwarded \union {c} ELSE forwarded
    /\ Goto(c, "lock")
    /\ UNCHANGED <<next, prev, idles_lock, node, signal, armed, ret>>

CycleDone(c) ==
    /\ pc[c] = "lock"
    /\ idles_lock' = c
    /\ Goto(c, "insert")
    /\ UNCHANGED <<next, prev, node, signal, armed, ret, work, forwarded>>

\* It found its queue empty and takes idles_lock.
IdleLock(c) == idles_lock = None /\ CycleDone(c)

\* notify->idles.next = idles.next; ...; idles.next = &notify->idles
LinkedFirst(c) == [next EXCEPT ![c] = next[Idles], ![Idles] = c]

\* Mutant of IdleInsert: a node whose link is in use counts as listed.
InsertUnlinked(c) ==
    /\ pc[c] = "insert"
    /\ next' = IF next[c] = c THEN LinkedFirst(c) ELSE next
    /\ prev' = IF next[c] = c THEN [prev EXCEPT ![next[Idles]] = c, ![c] = Idles]
                              ELSE prev
    /\ idles_lock' = None
    /\ Goto(c, AfterCycle(c))
    /\ UNCHANGED <<node, signal, armed, ret, work, forwarded>>

\* The consumer links itself in front, listed or not, and releases the lock.
IdleInsert(c) ==
    /\ pc[c] = "insert"
    /\ next' = LinkedFirst(c)
    /\ prev' = [prev EXCEPT ![next[Idles]] = c, ![c] = Idles]
    /\ idles_lock' = None
    /\ Goto(c, AfterCycle(c))
    /\ UNCHANGED <<node, signal, armed, ret, work, forwarded>>
-----------------------------------------------------------------------------
WorkerStep(w) == \/ DispatchLock(w) \/ Refuse(w) \/ DispatchTake(w)
                 \/ DispatchUnlink(w) \/ Push(w) \/ Notify(w)
                 \/ \E c \in Consumers : NotifyAgain(w, c)

ConsumerStep(c) == \/ Wake(c) \/ ReadFd(c) \/ WriteReady(c)
                   \/ Drain(c) \/ IdleLock(c) \/ IdleInsert(c)

Next == \/ \E w \in Workers : WorkerStep(w)
        \/ \E c \in Consumers : ConsumerStep(c)

Spec == Init /\ [][Next]_vars
-----------------------------------------------------------------------------
(* Properties *)

\* A consumer that has something to do, or is about to be told: it will run a
\* cycle and list itself again.
Engaged(c) == \/ pc[c] # "wait" \/ armed[c] \/ signal[c]
              \/ \E w \in Workers : pc[w] \in {"push", "signal"} /\ node[w] = c

\* The two links of the head agree on whether the list is empty, so the test
\* on prev (ngx_queue_empty) is right about next, which is what is forwarded.
HeadConsistent == next[Idles] = Idles <=> prev[Idles] = Idles

\* A request is refused with 500 only when no consumer is idle: every one has
\* work, a signal, or a worker about to send it one.  In spite of the double
\* insertions the empty list always means that all are engaged.
NoWrongRefusal == next[Idles] = Idles => \A c \in Consumers : Engaged(c)

\* No task is sent to a process that has not run its first cycle: the links
\* that can be reached from the head never lead to an unregistered node.
StartedOnly == \A w \in Workers : node[w] # None => ~armed[node[w]]

\* A set of consumers that the chain has entered and cannot leave.
Trap(S) == next[Idles] \in S /\ \A n \in S : next[n] \in S
Looped == \E S \in SUBSET Consumers : Trap(S)

\* Once the list has become a loop no step of any process opens it again: it
\* is never empty after that, so no request is refused any more.
LoopStays == [][Looped => Looped']_vars

\* rank is 0 for a consumer that is not listed and counts the listed ones from
\* the end of the chain, which is a plain list.
Shape(rank) ==
    /\ next[Idles] = Idles => \A c \in Consumers : rank[c] = 0
    /\ next[Idles] # Idles =>
          /\ rank[next[Idles]] > 0
          /\ \A c \in Consumers : rank[c] <= rank[next[Idles]]
    /\ \A c \in Consumers : rank[c] = 1 => next[c] = Idles
    /\ \A c \in Consumers : rank[c] > 1 =>
          next[c] # Idles /\ rank[next[c]] = rank[c] - 1
    /\ \A c, d \in Consumers : rank[c] = rank[d] /\ rank[c] > 0 => c = d

\* Such a list, with every idle consumer in it.
Chain(rank) == Shape(rank) /\ \A c \in Consumers : ~Engaged(c) => rank[c] > 0

LockInv ==
    /\ \A w \in Workers : pc[w] \in {"idle", "test", "unlink", "push", "signal"}
    /\ \A c \in Consumers : pc[c] \in {"wait", "read", "write", "cycle", "lock",
                                        "insert"}
    /\ \A p \in Procs : pc[p] \in {"test", "unlink", "insert"} <=> idles_lock = p
    /\ \A w \in Workers : node[w] # None <=> pc[w] \in {"unlink", "push", "signal"}
    /\ \A w \in Workers : pc[w] = "unlink" =>
          node[w] = next[Idles] /\ prev[Idles] # Idles

\* Whatever is linked behind the head has run its first cycle.
StartedInv ==
    /\ next[Idles] # Idles => ~armed[next[Idles]]
    /\ \A c \in Consumers : ~armed[c] /\ next[c] \in Consumers => ~armed[next[c]]
    /\ \A c \in Consumers : armed[c] =>
          pc[c] \in {"wait", "write"} /\ ~signal[c] /\ next[c] = c
    /\ \A c \in forwarded : ~armed[c]
    /\ \A w \in Workers : node[w] # None => ~armed[node[w]]

\* The inductive invariant, for ranks in R: the list is a loop that cannot be
\* left, or a chain that holds every idle consumer.
IndInv(R) ==
    /\ TypeOK /\ LockInv /\ StartedInv /\ HeadConsistent
    /\ Looped \/ \E rank \in [Consumers -> R] : Chain(rank)

\* At any time the list of idle consumers is a loop that no dispatch leaves or
\* a plain chain with every idle consumer on it, no longer than there are
\* consumers; and who holds idles_lock is the only one between reading and
\* writing its links.
LoopOrChain == IndInv(0..Cardinality(Consumers))

\* The consumers that dispatches would take one after the other.
Reach == LET R[i \in 0..Cardinality(Consumers)] ==
               IF i = 0 THEN {next[Idles]}
               ELSE R[i - 1] \union {next[n] : n \in R[i - 1] \ {Idles}}
         IN  R[Cardinality(Consumers)] \ {Idles}

\* ngx_rpc_queue.h:28 says of the list: "all idles proce ngx_rpc_processor_t".
\* Read as: every idle consumer is on the list, so that a dispatch can come to it.
IdlesAreListed == \A c \in Consumers : ~Engaged(c) => c \in Reach
=============================================================================
