------------------------------ MODULE RpcNotify ------------------------------
(***************************************************************************)
(* One notify object (ngx_rpc_notify.c): the circular list of tasks under  *)
(* queue_lock, the eventfd that wakes its owner, and the event handlers of *)
(* the process that owns it (a worker or an ngx_proc_rpc process).  The    *)
(* processes in Pushers push into it.                                      *)
(*                                                                         *)
(* The writes inside the two critical sections are separate steps, so the  *)
(* list is seen in its half-linked states and only the lock protects it.   *)
(* The eventfd counter is read and reset as a whole, so what matters of it *)
(* is whether it is zero: signal is TRUE when it is not.                   *)
(*                                                                         *)
(* box is a history variable: the nodes in the order their pushes took     *)
(* effect.  No guard and no other variable depends on it, except that a    *)
(* pusher starts only with a node that is nowhere (see RpcSystem, where    *)
(* that is a property and not an assumption).                              *)
(***************************************************************************)
EXTENDS Sequences, Integers

CONSTANTS Pushers,      \* processes that call ngx_rpc_notify_push_task
          Owner,        \* the process that registered the notify object
          Nodes,        \* the nodes of the tasks
          QueueHead,    \* &notify->queue_head
          None          \* NULL, and "lock is free"

ASSUME OwnerAssumption == Owner \notin Pushers
ASSUME HeadAssumption  == QueueHead \notin Nodes
ASSUME NoneAssumption  == /\ None \notin Nodes
                          /\ None # Owner
                          /\ None \notin Pushers

VARIABLES next, prev,   \* the links of the list, one pair per node
          queue_lock,   \* the process that holds queue_lock, or None
          signal,       \* the counter of event_fd is not zero
          armed,        \* the write event of notify_conn is registered
          pc, node,     \* where each process is, and its local pointer node
          ret,          \* ret > 0 in the owner's read handler
          box           \* history: the nodes in the queue

vars == <<next, prev, queue_lock, signal, armed, pc, node, ret, box>>

Procs == Pushers \union {Owner}
Links == Nodes \union {QueueHead}

\* Every variable in its range.  A node in a process's hands is a task: a pop
\* never hands out the list head.
TypeOK == /\ next \in [Links -> Links]
          /\ prev \in [Links -> Links]
          /\ queue_lock \in Procs \union {None}
          /\ signal \in BOOLEAN
          /\ armed \in BOOLEAN
          /\ pc \in [Procs -> {"idle", "link", "linknext", "signal", "wait",
                               "read", "write", "pop", "test", "unlink", "run"}]
          /\ node \in [Procs -> Nodes \union {None}]
          /\ ret \in BOOLEAN
          /\ box \in Seq(Nodes)

\* ngx_rpc_notify_create and ngx_rpc_notify_register: an empty list, a free
\* lock, an eventfd at zero, and both events added to epoll by ngx_add_conn.
Init == /\ next = [n \in Links |-> n]
        /\ prev = [n \in Links |-> n]
        /\ queue_lock = None
        /\ signal = FALSE
        /\ armed = TRUE
        /\ pc = [p \in Procs |-> IF p = Owner THEN "wait" ELSE "idle"]
        /\ node = [p \in Procs |-> None]
        /\ ret = FALSE
        /\ box = <<>>

Goto(p, l) == pc' = [pc EXCEPT ![p] = l]

Queued == {box[i] : i \in DOMAIN box}
-----------------------------------------------------------------------------
(* ngx_rpc_notify_push_task *)

\* The caller has a node that is in no queue and in no other hand.
PushCall(p, n) ==
    /\ pc[p] = "idle"
    /\ n \notin Queued
    /\ \A q \in Procs : node[q] # n
    /\ node' = [node EXCEPT ![p] = n]
    /\ queue_lock' = p
    /\ Goto(p, "link")
    /\ UNCHANGED <<next, prev, signal, armed, ret, box>>

\* ngx_shmtx_lock lets one process in.
PushLock(p, n) == queue_lock = None /\ PushCall(p, n)

\* node->prev = queue_head.prev; queue_head.prev = node
PushPrev(p) ==
    /\ pc[p] = "link"
    /\ prev' = [prev EXCEPT ![node[p]] = prev[QueueHead],
                            ![QueueHead] = node[p]]
    /\ Goto(p, "linknext")
    /\ UNCHANGED <<next, queue_lock, signal, armed, node, ret, box>>

\* Mutant of PushedLinks: the node is put at the head of the next chain.
LinksAtHead(n) == [next EXCEPT ![n] = next[QueueHead], ![QueueHead] = n]

\* node->prev->next = node; node->next = &queue_head
PushedLinks(n) == [next EXCEPT ![prev[n]] = n, ![n] = QueueHead]

\* The rest of the critical section and the unlock.  From here on the node
\* is the queue's.
PushNext(p) ==
    /\ pc[p] = "linknext"
    /\ next' = PushedLinks(node[p])
    /\ queue_lock' = None
    /\ box' = Append(box, node[p])
    /\ node' = [node EXCEPT ![p] = None]
    /\ Goto(p, "signal")
    /\ UNCHANGED <<prev, signal, armed, ret>>

\* Mutant of Signal: the push returns without the eventfd_write.
NoSignal(p) ==
    /\ pc[p] = "signal"
    /\ Goto(p, "idle")
    /\ UNCHANGED <<next, prev, queue_lock, signal, armed, node, ret, box>>

\* eventfd_write, after the lock was released.
Signal(p) ==
    /\ pc[p] = "signal"
    /\ signal' = TRUE
    /\ Goto(p, "idle")
    /\ UNCHANGED <<next, prev, queue_lock, armed, node, ret, box>>
-----------------------------------------------------------------------------
(* The owner's event handlers *)

\* epoll_wait returns.  The fd is always writable, so while the write event
\* is registered it is reported, together with EPOLLIN if the counter is not
\* zero; the read handler runs first.  Once the write event is deleted the fd
\* is polled level-triggered for EPOLLIN alone.
Wake == /\ pc[Owner] = "wait"
        /\ armed \/ signal
        /\ Goto(Owner, IF signal THEN "read" ELSE "write")
        /\ UNCHANGED <<next, prev, queue_lock, signal, armed, node, ret, box>>

\* ret = read(event_fd): resets the counter, and fails with EAGAIN at zero.
ReadFd == /\ pc[Owner] = "read"
          /\ ret' = signal
          /\ signal' = FALSE
          /\ Goto(Owner, "pop")
          /\ UNCHANGED <<next, prev, queue_lock, armed, node, box>>

\* ngx_rpc_notify_write_handler: delete the write event, run write_hanlder.
WriteReady == /\ pc[Owner] = "write"
              /\ armed' = FALSE
              /\ Goto(Owner, "pop")
              /\ UNCHANGED <<next, prev, queue_lock, signal, node, ret, box>>

\* Where the owner goes when its handler has emptied the queue: the do-while
\* loop of the read handler goes on as long as the read returned something;
\* then the write event of the same epoll_wait is handled.
AfterHandler == IF ret THEN "read" ELSE IF armed THEN "write" ELSE "wait"
-----------------------------------------------------------------------------
(* ngx_rpc_notify_pop_task, called in a loop by the handler of the owner *)

PopCall ==
    /\ pc[Owner] = "pop"
    /\ queue_lock' = Owner
    /\ Goto(Owner, "test")
    /\ UNCHANGED <<next, prev, signal, armed, node, ret, box>>

PopLock == queue_lock = None /\ PopCall

\* ngx_queue_empty compares the head with its prev link; the loop of the
\* handler ends.
PopEmpty ==
    /\ pc[Owner] = "test"
    /\ prev[QueueHead] = QueueHead
    /\ queue_lock' = None
    /\ Goto(Owner, AfterHandler)
    /\ UNCHANGED <<next, prev, signal, armed, node, ret, box>>

\* *node = queue_head.next
PopTake ==
    /\ pc[Owner] = "test"
    /\ prev[QueueHead] # QueueHead
    /\ node' = [node EXCEPT ![Owner] = next[QueueHead]]
    /\ Goto(Owner, "unlink")
    /\ UNCHANGED <<next, prev, queue_lock, signal, armed, ret, box>>

\* queue_head.next = node->next; queue_head.next->prev = &queue_head; unlock
PopUnlink ==
    /\ pc[Owner] = "unlink"
    /\ next' = [next EXCEPT ![QueueHead] = next[node[Owner]]]
    /\ prev' = [prev EXCEPT ![next[node[Owner]]] = QueueHead]
    /\ queue_lock' = None
    /\ box' = Tail(box)
    /\ Goto(Owner, "run")
    /\ UNCHANGED <<signal, armed, node, ret>>

\* Mutant of RunTask: the handler pops one task per call instead of all.
RunOneTask ==
    /\ pc[Owner] = "run"
    /\ node' = [node EXCEPT ![Owner] = None]
    /\ Goto(Owner, AfterHandler)
    /\ UNCHANGED <<next, prev, queue_lock, signal, armed, ret, box>>

\* The handler of the task returns and the loop goes on; the node belongs to
\* whoever the handler of the task gave it to.
RunTask ==
    /\ pc[Owner] = "run"
    /\ node' = [node EXCEPT ![Owner] = None]
    /\ Goto(Owner, "pop")
    /\ UNCHANGED <<next, prev, queue_lock, signal, armed, ret, box>>
-----------------------------------------------------------------------------
PushStep(p) == PushPrev(p) \/ PushNext(p) \/ Signal(p)

OwnerStep == \/ Wake \/ ReadFd \/ WriteReady
             \/ PopLock \/ PopEmpty \/ PopTake \/ PopUnlink \/ RunTask

Next == \/ \E p \in Pushers : PushStep(p) \/ \E n \in Nodes : PushLock(p, n)
        \/ OwnerStep

\* A process that has started a push goes on with it, and the owner's event
\* loop runs.  Nobody has to push.
Spec == /\ Init
        /\ [][Next]_vars
        /\ \A p \in Pushers : WF_vars(PushStep(p))
        /\ WF_vars(OwnerStep)
-----------------------------------------------------------------------------
(* Properties *)

\* The list seen from position i of s, with the head at both ends.
At(s, i) == IF i \in DOMAIN s THEN s[i] ELSE QueueHead

NextChain(s) == \A i \in 0..Len(s) : next[At(s, i)] = At(s, i + 1)
PrevChain(s) == \A i \in 1..(Len(s) + 1) : prev[At(s, i)] = At(s, i - 1)

Distinct(s) == \A i, j \in DOMAIN s : s[i] = s[j] => i = j

\* Whenever queue_lock is free, the two chains of the list spell the queue
\* forwards and backwards, each node once: no interleaving of pushes and pops
\* leaves a lost, doubled or half-linked node behind.
QueueWellFormed == queue_lock = None =>
    /\ NextChain(box)
    /\ PrevChain(box)
    /\ Distinct(box)

\* The owner never sleeps in epoll_wait on a queue with a task in it unless
\* the eventfd is already readable or a pusher is about to write it: pushing
\* before signalling, and draining after reading, loses no wake-up.
NoLostWakeup ==
    (pc[Owner] = "wait" /\ ~armed /\ box # <<>>) =>
        signal \/ \E p \in Pushers : pc[p] = "signal"

Holds(p) == pc[p] \in {"link", "linknext", "test", "unlink"}

PcInv == /\ \A p \in Pushers : pc[p] \in {"idle", "link", "linknext", "signal"}
         /\ pc[Owner] \in {"wait", "read", "write", "pop", "test", "unlink", "run"}
         /\ \A p \in Procs : Holds(p) <=> queue_lock = p

HandInv ==
    /\ \A p \in Pushers : node[p] # None <=> pc[p] \in {"link", "linknext"}
    /\ node[Owner] # None <=> pc[Owner] \in {"unlink", "run"}
    /\ \A p \in Pushers : node[p] \notin Queued
    /\ pc[Owner] = "run" => node[Owner] \notin Queued
    /\ \A p, q \in Procs : node[p] = node[q] /\ node[p] # None => p = q

ChainInv ==
    /\ Distinct(box)
    /\ NextChain(box)
    /\ (\A p \in Pushers : pc[p] # "linknext") => PrevChain(box)
    /\ \A p \in Pushers : pc[p] = "linknext" => PrevChain(Append(box, node[p]))
    /\ pc[Owner] = "unlink" => box # <<>> /\ node[Owner] = box[1]

\* Who holds the lock and where it is in its critical section says exactly
\* which links are out of step with the queue: the inductive invariant from
\* which QueueWellFormed, NoLostWakeup and the refinement follow.
IndInv == TypeOK /\ PcInv /\ HandInv /\ ChainInv /\ NoLostWakeup

Mailbox == INSTANCE RpcMailbox
    WITH Senders <- Pushers,
         out <- [p \in Pushers |-> node[p]],
         got <- IF pc[Owner] = "run" THEN node[Owner] ELSE None

\* The pointers, the lock and the handlers implement a first-in first-out
\* mailbox: each push appends once, each pop hands out the oldest node.
MailboxFifo == Mailbox!SafeSpec

\* A task that was pushed is handed to the owner's handler in the end.
Delivered == \A n \in Nodes :
    (n \in Queued) ~> (pc[Owner] = "run" /\ node[Owner] = n)
=============================================================================
