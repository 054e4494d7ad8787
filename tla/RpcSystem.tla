------------------------------ MODULE RpcSystem ------------------------------
(***************************************************************************)
(* The whole path of a request: the HTTP side in the workers               *)
(* (ngx_http_rpc.c), the ngx_proc_rpc processes (ngx_rpc_process.c), the   *)
(* channels and the method handlers that run in them (ngx_rpc_channel.cpp, *)
(* ngx_http_inspect_module.cpp, inspect_impl.h), and the task that travels *)
(* between them (ngx_rpc_task.c) through the notify objects and the list   *)
(* of idle consumers.                                                      *)
(*                                                                         *)
(* A process takes one step per access to shared memory: the critical      *)
(* sections are atomic here (RpcNotify shows that the task queue is a      *)
(* first-in first-out mailbox, RpcIdles has the list with its lock).       *)
(* The HTTP core of nginx is external: it starts requests, runs            *)
(* subrequests, sends answers and closes connections.                      *)
(* No process dies here, not even on the assert that RpcStreams finds in   *)
(* the shared writer: RpcCrash has what a death does to the others.        *)
(*                                                                         *)
(* A request stands for the ngx_http_request_t, its rpc_ctx and its task.  *)
(***************************************************************************)
EXTENDS Sequences, Integers, FiniteSets

CONSTANTS Workers,     \* worker processes
          Consumers,   \* ngx_proc_rpc processes
          Requests,    \* the requests that may ever come: the bound of a model
          Idles,       \* the list head &queue->idles
          None         \* NULL

ASSUME DisjointAssumption == Workers \intersect Consumers = {}
ASSUME HeadAssumption == Idles \notin Consumers
ASSUME NoneAssumption == None \notin Workers \union Consumers \union Requests

VARIABLES
    \* shared memory
    next, prev,     \* the links of the list of idle consumers
    queue,          \* the tasks in each notify object, oldest first
    signal,         \* the event_fd of a notify object is readable
    \* each process
    armed,          \* the write event of its notify object is registered
    pc, ret,        \* where it is; ret > 0 in its read handler
    inside,         \* it is inside a handler of its notify object
    cur, target,    \* the task in its hands and the notify object to push it to
    \* each request, and its task
    state,          \* "new", "reading", "pending", "answered", "closed"
    method,         \* the method that its URI names
    home,           \* the worker that serves it: task->done_notify
    parent,         \* the request it is a subrequest of
    sub,            \* its subrequest, when another server runs it
    answer,         \* the status that was sent
    closure, finish,\* task->closure.handler, task->finish.handler
    status,         \* task->response_states
    proc,           \* task->proc_notify
    channel,        \* the process in whose heap the RpcChannel of the call is
    forward         \* the same for the RpcChannel of forward_request

listVars == <<next, prev>>
procVars == <<armed, ret, inside>>
taskVars == <<closure, finish, status, proc, channel, forward>>
reqVars  == <<state, method, home, parent, sub, answer>>
vars == <<listVars, queue, signal, procVars, pc, cur, target, reqVars, taskVars>>

Procs == Workers \union Consumers
Links == Consumers \union {Idles}

\* response_states: 0 is what task_create and an unfinished subrequest leave.
OK == 200
BadRequest == 400
ServerError == 500
Unset == 0
Statuses == {OK, ServerError, Unset}

ASSUME UnsentAssumption == None \notin Statuses \union {BadRequest}

\* The type invariant: the links stay among the list's nodes, queues hold
\* tasks, the handlers of a task are the ones the code installs, and a process
\* that runs or pushes a task has one, and a notify object to push it to.
TypeOK ==
    /\ next \in [Links -> Links] /\ prev \in [Links -> Links]
    /\ queue \in [Procs -> Seq(Requests)]
    /\ signal \in [Procs -> BOOLEAN] /\ armed \in [Procs -> BOOLEAN]
    /\ pc \in [Procs -> {"wait", "read", "write", "pop", "run", "push",
                         "signal", "insert", "hung"}]
    /\ ret \in [Procs -> BOOLEAN] /\ inside \in [Procs -> BOOLEAN]
    /\ cur \in [Procs -> Requests \union {None}]
    /\ target \in [Procs -> Procs \union {None}]
    /\ state \in [Requests -> {"new", "reading", "pending", "answered", "closed"}]
    /\ method \in [Requests -> {"interface", "requeststatus"}]
    /\ home \in [Requests -> Workers \union {None}]
    /\ parent \in [Requests -> Requests \union {None}]
    /\ sub \in [Requests -> {"none", "upstream", "failed"}]
    /\ answer \in [Requests -> Statuses \union {BadRequest, None}]
    /\ closure \in [Requests -> {"none", "method", "foward_done"}]
    /\ finish \in [Requests -> {"none", "request_finish", "request_foward"}]
    /\ status \in [Requests -> Statuses]
    /\ proc \in [Requests -> Consumers \union {None}]
    /\ channel \in [Requests -> Consumers \union {None}]
    /\ forward \in [Requests -> Consumers \union {None}]
    /\ \A p \in Procs : /\ pc[p] \in {"run", "push", "hung"} => cur[p] # None
                        /\ pc[p] \in {"push", "signal"} => target[p] # None

\* Every process has registered its notify object and sits in epoll_wait.
Init ==
    /\ next = [n \in Links |-> n] /\ prev = [n \in Links |-> n]
    /\ queue = [p \in Procs |-> <<>>]
    /\ signal = [p \in Procs |-> FALSE] /\ armed = [p \in Procs |-> TRUE]
    /\ pc = [p \in Procs |-> "wait"]
    /\ ret = [p \in Procs |-> FALSE] /\ inside = [p \in Procs |-> FALSE]
    /\ cur = [p \in Procs |-> None] /\ target = [p \in Procs |-> None]
    /\ state = [t \in Requests |-> "new"]
    /\ method = [t \in Requests |-> "interface"]
    /\ home = [t \in Requests |-> None] /\ parent = [t \in Requests |-> None]
    /\ sub = [t \in Requests |-> "none"]
    /\ answer = [t \in Requests |-> None]
    /\ closure = [t \in Requests |-> "none"]
    /\ finish = [t \in Requests |-> "none"]
    /\ status = [t \in Requests |-> Unset]
    /\ proc = [t \in Requests |-> None]
    /\ channel = [t \in Requests |-> None]
    /\ forward = [t \in Requests |-> None]

Goto(p, l) == pc' = [pc EXCEPT ![p] = l]

\* A process is about to push task t to the notify object of process q.
HandOver(p, t, q) == /\ cur' = [cur EXCEPT ![p] = t]
                     /\ target' = [target EXCEPT ![p] = q]
                     /\ Goto(p, "push")

\* A process has let go of its task: it goes on popping, or waits for events.
Resume(p) == IF inside[p] THEN "pop" ELSE "wait"
Release(p) == /\ cur' = [cur EXCEPT ![p] = None]
              /\ target' = [target EXCEPT ![p] = None]
              /\ Goto(p, Resume(p))
-----------------------------------------------------------------------------
(* ngx_http_rpc.c: the worker *)

\* A mutant: the result goes to any consumer.
SubrequestToAny(w, t, st) ==
    /\ status' = [status EXCEPT ![t] = st]
    /\ \E c \in Consumers : HandOver(w, t, c)

\* A mutant: a failed subrequest ends without a push.
SubrequestOKOnly(w, t, st) ==
    /\ status' = [status EXCEPT ![t] = st]
    /\ IF st = OK THEN HandOver(w, t, proc[t]) ELSE Release(w)

\* ngx_http_rpc_subrequest_done_handler: the status of the subrequest, or what
\* stands there if it was never set, goes into the task of the parent, and the
\* task back to its consumer.  (When nginx calls it with NGX_AGAIN, because the
\* subrequest has only started, it does nothing.)
SubrequestDone(w, t, st) ==
    /\ status' = [status EXCEPT ![t] = st]
    /\ HandOver(w, t, proc[t])

\* A mutant: the status of the subrequest is not copied to the parent's task.
AnswerAlone(w, t, st, pr) ==
    /\ state' = [state EXCEPT ![t] = "answered"]
    /\ answer' = [answer EXCEPT ![t] = st]
    /\ status' = [status EXCEPT ![t] = st]
    /\ IF pr = None THEN Release(w) ELSE HandOver(w, pr, proc[pr])

\* ngx_http_rpc_request_finish: the answer is sent and the request finalized;
\* for a subrequest of pr nginx then calls the done handler, see SubrequestDone.
Answer(w, t, st, pr) ==
    /\ state' = [state EXCEPT ![t] = "answered"]
    /\ answer' = [answer EXCEPT ![t] = st]
    /\ \/ /\ pr = None
          /\ status' = [status EXCEPT ![t] = st]
          /\ Release(w)
       \/ /\ pr # None
          /\ status' = [status EXCEPT ![t] = st, ![pr] = st]
          /\ HandOver(w, pr, proc[pr])

\* A mutant: the consumer is not recorded in task->proc_notify.
DispatchUnrecorded(w, t, pr) ==
    /\ prev[Idles] # Idles
    /\ next' = [next EXCEPT ![Idles] = next[next[Idles]]]
    /\ prev' = [prev EXCEPT ![next[next[Idles]]] = Idles]
    /\ HandOver(w, t, next[Idles])
    /\ closure' = [closure EXCEPT ![t] = "method"]
    /\ state' = [state EXCEPT ![t] = "pending"]
    /\ UNCHANGED <<proc, answer, status>>

\* ngx_http_rpc_post_async_handler and ngx_rpc_queue_push_and_notify: take a
\* consumer off the list of idle ones, or answer 500 if it is empty.
Dispatch(w, t, pr) ==
    /\ closure' = [closure EXCEPT ![t] = "method"]
    /\ \/ /\ prev[Idles] = Idles
          /\ Answer(w, t, ServerError, pr)
          /\ UNCHANGED <<listVars, proc>>
       \/ /\ prev[Idles] # Idles
          /\ next' = [next EXCEPT ![Idles] = next[next[Idles]]]
          /\ prev' = [prev EXCEPT ![next[next[Idles]]] = Idles]
          /\ proc' = [proc EXCEPT ![t] = next[Idles]]
          /\ HandOver(w, t, next[Idles])
          /\ state' = [state EXCEPT ![t] = "pending"]
          /\ UNCHANGED <<answer, status>>

\* ngx_http_rpc_http_handler: the context is allocated and registered for
\* cleanup with the connection; the body is read asynchronously.
NewRequest(w, t, m) ==
    /\ pc[w] = "wait"
    /\ state[t] = "new"
    /\ state' = [state EXCEPT ![t] = "reading"]
    /\ method' = [method EXCEPT ![t] = m]
    /\ home' = [home EXCEPT ![t] = w]
    /\ UNCHANGED <<listVars, queue, signal, procVars, pc, cur, target, parent,
                   sub, answer, taskVars>>

\* The slab pool has no room for the context.
NoMemory(w, t) ==
    /\ pc[w] = "wait"
    /\ state[t] = "new"
    /\ state' = [state EXCEPT ![t] = "answered"]
    /\ answer' = [answer EXCEPT ![t] = ServerError]
    /\ home' = [home EXCEPT ![t] = w]
    /\ UNCHANGED <<listVars, queue, signal, procVars, pc, cur, target, method,
                   parent, sub, taskVars>>

\* The post handler finds no body: the request is answered without a task.
NoBody(w, t) ==
    /\ pc[w] = "wait"
    /\ state[t] = "reading" /\ home[t] = w
    /\ state' = [state EXCEPT ![t] = "answered"]
    /\ answer' = [answer EXCEPT ![t] = BadRequest]
    /\ UNCHANGED <<listVars, queue, signal, procVars, pc, cur, target, method,
                   home, parent, sub, taskVars>>

\* The body is complete.
Post(w, t) ==
    /\ pc[w] = "wait"
    /\ state[t] = "reading" /\ home[t] = w
    /\ Dispatch(w, t, None)
    /\ UNCHANGED <<queue, signal, procVars, method, home, parent, sub, finish,
                   channel, forward>>

\* ngx_http_rpc_process_notify_task runs task->finish.
RunFinish(w) ==
    /\ pc[w] = "run"
    /\ finish[cur[w]] = "request_finish"
    /\ Answer(w, cur[w], status[cur[w]], parent[cur[w]])
    /\ UNCHANGED <<listVars, queue, signal, procVars, method, home, parent, sub,
                   closure, finish, proc, channel, forward>>

\* ngx_http_rpc_request_foward: the subrequest goes to an upstream server, or
\* nginx cannot start it, which the code only logs.
FowardUpstream(w, how) ==
    /\ pc[w] = "run"
    /\ finish[cur[w]] = "request_foward"
    /\ sub' = [sub EXCEPT ![cur[w]] = how]
    /\ Release(w)
    /\ UNCHANGED <<listVars, queue, signal, procVars, state, method, home,
                   parent, answer, taskVars>>

\* A mutant: the done handler also pushes the parent's task when the subrequest
\* has only started and rc is NGX_AGAIN.
FowardAgain(w, u) ==
    /\ pc[w] = "run"
    /\ finish[cur[w]] = "request_foward"
    /\ state[u] = "new"
    /\ home' = [home EXCEPT ![u] = w]
    /\ parent' = [parent EXCEPT ![u] = cur[w]]
    /\ queue' = [queue EXCEPT ![proc[cur[w]]] = Append(@, cur[w])]
    /\ signal' = [signal EXCEPT ![proc[cur[w]]] = TRUE]
    /\ Dispatch(w, u, cur[w])
    /\ UNCHANGED <<procVars, method, sub, finish, channel, forward>>

\* ngx_http_rpc_request_foward, when the path is served by this module: the
\* subrequest u runs at once, with the body of the parent, up to its dispatch.
FowardLocal(w, u) ==
    /\ pc[w] = "run"
    /\ finish[cur[w]] = "request_foward"
    /\ state[u] = "new"
    /\ home' = [home EXCEPT ![u] = w]
    /\ parent' = [parent EXCEPT ![u] = cur[w]]
    /\ Dispatch(w, u, cur[w])
    /\ UNCHANGED <<queue, signal, procVars, method, sub, finish, channel, forward>>

\* The subrequest ends at once, for want of memory for its context: its status
\* was never set when ngx_http_rpc_subrequest_done_handler reads it.
FowardNoMemory(w) ==
    /\ pc[w] = "run"
    /\ finish[cur[w]] = "request_foward"
    /\ SubrequestDone(w, cur[w], Unset)
    /\ UNCHANGED <<listVars, queue, signal, procVars, reqVars, closure, finish,
                   proc, channel, forward>>

\* The upstream server has answered, failed, or never produced a status:
\* ngx_http_rpc_subrequest_done_handler.
UpstreamDone(w, t, st) ==
    /\ pc[w] = "wait"
    /\ sub[t] = "upstream" /\ home[t] = w
    /\ sub' = [sub EXCEPT ![t] = "none"]
    /\ SubrequestDone(w, t, st)
    /\ UNCHANGED <<listVars, queue, signal, procVars, state, method, home,
                   parent, answer, closure, finish, proc, channel, forward>>

\* The connection is closed: ngx_http_rpc_ctx_destroy and
\* ngx_http_rpc_task_destory free what the request and its subrequests had.
Close(w, t) ==
    /\ pc[w] = "wait"
    /\ state[t] = "answered" /\ home[t] = w /\ parent[t] = None
    /\ state' = [u \in Requests |->
                    IF u = t \/ parent[u] = t THEN "closed" ELSE state[u]]
    /\ UNCHANGED <<listVars, queue, signal, procVars, pc, cur, target, method,
                   home, parent, sub, answer, taskVars>>
-----------------------------------------------------------------------------
(* ngx_rpc_channel.cpp and the method handlers: a consumer runs the task *)

\* A mutant: the result goes to any worker.
FinishAnywhere(c, t, st) ==
    /\ status' = [status EXCEPT ![t] = st]
    /\ finish' = [finish EXCEPT ![t] = "request_finish"]
    /\ channel' = [channel EXCEPT ![t] = None]
    /\ \E w \in Workers : HandOver(c, t, w)

\* RpcChannel::finish_request: the result goes into the task, the task to the
\* worker, and the channel of the call is deleted.  (The code deletes it after
\* the push; the heap is this process's own, so no other one can tell.)
FinishRequest(c, t, st) ==
    /\ status' = [status EXCEPT ![t] = st]
    /\ finish' = [finish EXCEPT ![t] = "request_finish"]
    /\ channel' = [channel EXCEPT ![t] = None]
    /\ HandOver(c, t, home[t])

\* The request cannot be parsed, or the method is interface, which answers at
\* once.
RunInterface(c, st) ==
    /\ pc[c] = "run"
    /\ closure[cur[c]] = "method"
    /\ st = OK => method[cur[c]] = "interface"
    /\ FinishRequest(c, cur[c], st)
    /\ UNCHANGED <<listVars, queue, signal, procVars, reqVars, closure, proc,
                   forward>>

\* RpcChannel::forward_request: the task is used again, to ask the worker for a
\* subrequest; a second channel stays in this process until it is done.
ForwardRequest(c, t) ==
    /\ forward' = [forward EXCEPT ![t] = c]
    /\ finish' = [finish EXCEPT ![t] = "request_foward"]
    /\ closure' = [closure EXCEPT ![t] = "foward_done"]
    /\ HandOver(c, t, home[t])

\* The method is requeststatus, which forwards to interface and keeps the
\* channel of the call for the answer.
RunRequestStatus(c) ==
    /\ pc[c] = "run"
    /\ closure[cur[c]] = "method"
    /\ method[cur[c]] = "requeststatus"
    /\ channel' = [channel EXCEPT ![cur[c]] = c]
    /\ ForwardRequest(c, cur[c])
    /\ UNCHANGED <<listVars, queue, signal, procVars, reqVars, status, proc>>

\* A mutant: the channel of the forwarding is not deleted.
FowardLeak(c) ==
    /\ pc[c] = "run"
    /\ closure[cur[c]] = "foward_done"
    /\ FinishRequest(c, cur[c], status[cur[c]])
    /\ UNCHANGED <<listVars, queue, signal, procVars, reqVars, closure, proc,
                   forward>>

\* requeststatus_forward_done: the status of the subrequest becomes the status
\* of the call.
RequestStatusForwardDone(c, t) == FinishRequest(c, t, status[t])

\* RpcChannel::foward_done: the continuation runs, which deletes the channel of
\* the call, and then the channel of the forwarding is deleted.
RunFowardDone(c) ==
    /\ pc[c] = "run"
    /\ closure[cur[c]] = "foward_done"
    /\ RequestStatusForwardDone(c, cur[c])
    /\ forward' = [forward EXCEPT ![cur[c]] = None]
    /\ UNCHANGED <<listVars, queue, signal, procVars, reqVars, closure, proc>>

\* The parser of the request, or of the subrequest's answer, has read two memory
\* buffers: NgxChainBufferReader::Next never returns (RpcStreams).  All three
\* handlers begin with it.
Hangs(c) ==
    /\ pc[c] = "run"
    /\ Goto(c, "hung")
    /\ UNCHANGED <<listVars, queue, signal, procVars, cur, target, reqVars,
                   taskVars>>

\* A mutant: do { ... } while(ret >= 0).
ReadForEver(p) == "read"

\* The end of ngx_proc_rpc_process_one_cycle; then the read handler's loop.
AfterHandler(p) == IF ret[p] THEN "read" ELSE IF armed[p] THEN "write" ELSE "wait"

IdleInsert(c) ==
    /\ pc[c] = "insert"
    /\ next' = [next EXCEPT ![c] = next[Idles], ![Idles] = c]
    /\ prev' = [prev EXCEPT ![next[Idles]] = c, ![c] = Idles]
    /\ inside' = [inside EXCEPT ![c] = FALSE]
    /\ Goto(c, AfterHandler(c))
    /\ UNCHANGED <<queue, signal, armed, ret, cur, target, reqVars, taskVars>>
-----------------------------------------------------------------------------
(* ngx_rpc_notify.c: every process *)

\* epoll_wait returns and the first handler runs: the read handler if the eventfd
\* is readable, else the write handler, as long as its event is registered.
CanRead(p)  == pc[p] = "read" \/ (pc[p] = "wait" /\ signal[p])
CanWrite(p) == pc[p] = "write" \/ (pc[p] = "wait" /\ armed[p] /\ ~signal[p])

ReadFd(p) ==
    /\ CanRead(p)
    /\ ret' = [ret EXCEPT ![p] = signal[p]]
    /\ signal' = [signal EXCEPT ![p] = FALSE]
    /\ inside' = [inside EXCEPT ![p] = TRUE]
    /\ Goto(p, "pop")
    /\ UNCHANGED <<listVars, queue, armed, cur, target, reqVars, taskVars>>

WriteReady(p) ==
    /\ CanWrite(p)
    /\ armed' = [armed EXCEPT ![p] = FALSE]
    /\ inside' = [inside EXCEPT ![p] = TRUE]
    /\ Goto(p, "pop")
    /\ UNCHANGED <<listVars, queue, signal, ret, cur, target, reqVars, taskVars>>

\* ngx_rpc_notify_pop_task in the loops of process_notify_task and
\* process_one_cycle.
Pop(p) ==
    /\ pc[p] = "pop"
    /\ queue[p] # <<>>
    /\ cur' = [cur EXCEPT ![p] = Head(queue[p])]
    /\ queue' = [queue EXCEPT ![p] = Tail(@)]
    /\ Goto(p, "run")
    /\ UNCHANGED <<listVars, signal, procVars, target, reqVars, taskVars>>

\* The queue is empty: a consumer lists itself, a worker is done.
PopEmpty(p) ==
    /\ pc[p] = "pop"
    /\ queue[p] = <<>>
    /\ inside' = [inside EXCEPT ![p] = p \in Consumers]
    /\ Goto(p, IF p \in Consumers THEN "insert" ELSE AfterHandler(p))
    /\ UNCHANGED <<listVars, queue, signal, armed, ret, cur, target, reqVars,
                   taskVars>>

\* ngx_rpc_notify_push_task: from here on the task is the receiver's.
Push(p) ==
    /\ pc[p] = "push"
    /\ queue' = [queue EXCEPT ![target[p]] = Append(@, cur[p])]
    /\ cur' = [cur EXCEPT ![p] = None]
    /\ Goto(p, "signal")
    /\ UNCHANGED <<listVars, signal, procVars, target, reqVars, taskVars>>

Signal(p) ==
    /\ pc[p] = "signal"
    /\ signal' = [signal EXCEPT ![target[p]] = TRUE]
    /\ Release(p)
    /\ UNCHANGED <<listVars, queue, procVars, reqVars, taskVars>>
-----------------------------------------------------------------------------
NotifyStep(p) == \/ ReadFd(p) \/ WriteReady(p)
                 \/ Pop(p) \/ PopEmpty(p) \/ Push(p) \/ Signal(p)

WorkerStep(w) == \/ NotifyStep(w)
                 \/ RunFinish(w)
                 \/ \E how \in {"upstream", "failed"} : FowardUpstream(w, how)
                 \/ \E u \in Requests : FowardLocal(w, u)
                 \/ FowardNoMemory(w)

ConsumerStep(c) == \/ NotifyStep(c)
                   \/ \E st \in {OK, ServerError} : RunInterface(c, st)
                   \/ RunRequestStatus(c) \/ RunFowardDone(c)
                   \/ Hangs(c) \/ IdleInsert(c)

ClientStep(w, t) == \/ \E m \in {"interface", "requeststatus"} : NewRequest(w, t, m)
                    \/ NoMemory(w, t) \/ NoBody(w, t) \/ Post(w, t) \/ Close(w, t)

UpstreamStep(t) == \E w \in Workers, st \in Statuses : UpstreamDone(w, t, st)

Next == \/ \E w \in Workers : WorkerStep(w)
        \/ \E c \in Consumers : ConsumerStep(c)
        \/ \E w \in Workers, t \in Requests : ClientStep(w, t)
        \/ \E t \in Requests : UpstreamStep(t)

\* The event loops run, and an upstream server answers or times out.
Spec == /\ Init
        /\ [][Next]_vars
        /\ \A w \in Workers : WF_vars(WorkerStep(w))
        /\ \A c \in Consumers : WF_vars(ConsumerStep(c))
        /\ \A t \in Requests : WF_vars(UpstreamStep(t))
-----------------------------------------------------------------------------
(* Properties *)

\* Where the task of t is: in a queue, in a process's hands, or waiting for a
\* subrequest that this module serves or another server does.
Slots == UNION {{p} \X DOMAIN queue[p] : p \in Procs}
Places(t) ==
    {<<"queue", s>> : s \in {x \in Slots : queue[x[1]][x[2]] = t}}
        \union {<<"hands", p>> : p \in {q \in Procs : cur[q] = t}}
        \union {<<"local", u>> : u \in {v \in Requests : parent[v] = t
                                                         /\ state[v] = "pending"}}
        \union {<<"server", s>> : s \in {sub[t]} \ {"none"}}

\* The task of a request in flight is in exactly one place, although one task
\* is the message of both directions and of the forwarding in between: no two
\* processes work on it, it is never linked into two queues with its one node,
\* and once the request is answered, so that the closing connection may free
\* the task (ngx_http_rpc_task_destory), nobody has it.
OnePlace ==
    \A t \in Requests :
        Cardinality(Places(t)) = IF state[t] = "pending" THEN 1 ELSE 0

\* The shared task points to the ngx_http_request_t, which is in the heap of one
\* worker: it is that worker which runs task->finish, after any forwarding.
RequestIsLocal == \A w \in Workers : pc[w] = "run" => home[cur[w]] = w

\* The shared task points to channels in the heap of the consumer that started
\* the forwarding: when the subrequest is over, it is that consumer which runs
\* RpcChannel::foward_done, and both channels are still there.
ChannelIsLocal ==
    \A c \in Consumers :
        (pc[c] = "run" /\ closure[cur[c]] = "foward_done") =>
            channel[cur[c]] = c /\ forward[cur[c]] = c

\* Channels are not leaked: between two handlers a process has channels only
\* for calls that wait for the end of their subrequest.
ChannelsReleased ==
    \A t \in Requests :
        /\ (channel[t] # None \/ forward[t] # None) =>
               state[t] = "pending" /\ closure[t] = "foward_done"
        /\ (channel[t] = None) = (forward[t] = None)

\* A call that was forwarded to this module answers what its subrequest
\* answered, whichever processes the two went through.
ForwardedAnswer ==
    \A t, u \in Requests :
        (parent[u] = t /\ state[t] \in {"answered", "closed"}) =>
            answer[u] # None /\ answer[t] = answer[u]

\* A process sits in epoll_wait, and none of its events will wake it.
Sleeps(p) == pc[p] = "wait" /\ ~armed[p] /\ ~signal[p]

\* The processes do not all go to sleep over a task: when nothing is left to do
\* on this machine, every queue is empty, and a request without an answer is one
\* whose subrequest another server has, or nginx could not start.
RestsWhenDone ==
    (\A p \in Procs : Sleeps(p)) =>
        /\ \A p \in Procs : queue[p] = <<>>
        /\ \A t \in Requests : state[t] = "pending" => sub[t] # "none"

\* The task of t is with a consumer whose parser hangs: in its hands or behind
\* that, in its queue.
Held(t) ==
    \E c \in Consumers :
        pc[c] = "hung" /\ (cur[c] = t \/ \E i \in DOMAIN queue[c] : queue[c][i] = t)

\* Every request in flight is answered in the end, unless nginx could not start
\* its subrequest, or its task or that of its subrequest ends up with a consumer
\* that hangs in the parser.
Answered ==
    \A t \in Requests :
        state[t] = "pending" ~> \/ state[t] = "answered"
                                \/ sub[t] = "failed"
                                \/ Held(t)
                                \/ \E u \in Requests : parent[u] = t /\ Held(u)

\* When no more requests come the processes come to rest, with nothing in
\* their queues: the read loop on the eventfd and the signals that a process
\* sends to another die out.  Only a consumer that hangs in the parser, and so
\* never returns from a handler, does not rest.
Quiesces ==
    <>[](\A p \in Procs : pc[p] = "hung" \/ (pc[p] = "wait" /\ queue[p] = <<>>))

\* The requests as the HTTP core sees them.
Service == INSTANCE RpcService
    WITH Errors <- {BadRequest, ServerError}, Results <- Statuses

\* Whatever way a task takes through queues and processes, the requests live as
\* RpcService promises: one answer each, a subrequest before its parent and with
\* the same status, and no connection is closed over a request in flight.
ServiceKept == Service!Spec

\* The notify object of process q as the mailbox of RpcMailbox: the tasks that
\* are being pushed to it, its queue, and the task that q works on.
Pushing(q) == [p \in Procs |-> IF pc[p] = "push" /\ target[p] = q THEN cur[p] ELSE None]
Handling(q) == IF pc[q] \in {"run", "hung"} THEN cur[q] ELSE None

Mailbox(q) == INSTANCE RpcMailbox
    WITH Senders <- Procs, Nodes <- Requests,
         out <- Pushing(q), box <- queue[q], got <- Handling(q)
=============================================================================
