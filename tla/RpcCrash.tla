------------------------------ MODULE RpcCrash ------------------------------
(***************************************************************************)
(* The traffic of requests through the processes of RpcSlots while these   *)
(* crash, are replaced, and quit: a process may die between any two steps, *)
(* with a task in its hands or inside a critical section.                  *)
(*                                                                         *)
(* Calls are answered by the consumer itself; RpcSystem has the forwarded  *)
(* ones.  Two things are taken from the other modules: a task queue is     *)
(* first in first out (RpcNotify), and the list of idle consumers gives    *)
(* only consumers that have linked themselves (RpcIdles!StartedOnly), or   *)
(* none: which one it gives is left open here, as is whether the list has  *)
(* lost some.                                                              *)
(*                                                                         *)
(* Reading a body of two memory buffers never ends (RpcStreams!            *)
(* SpinsAfterTwo), so any call may be the last thing its consumer does.    *)
(* The assertion that a long answer may fail (RpcStreams!AssertHolds) is a *)
(* death like any other.                                                   *)
(*                                                                         *)
(* A notify object is <<c, i>>: entry i of the notify_slot of              *)
(* configuration c.                                                        *)
(***************************************************************************)
EXTENDS RpcSlots

CONSTANTS
    MaxTasks,   \* bound: requests
    MaxTurns,   \* bound: configurations and requests together
    Free,       \* a lock word that is 0
    Nobody      \* one that no process will ever set to 0

ASSUME TrafficAssumption == MaxTasks \in Nat /\ MaxTurns \in Nat

VARIABLES
    idles_lock, \* by configuration: Free, the slot of the holder, or Nobody
    started,    \* by configuration: the entries that have been linked as idle
    queue_lock, \* by notify object
    queue,      \* by notify object: its tasks, oldest first
    event,      \* by notify object: epoll has something to report
    at,         \* where the process of a slot is
    hand,       \* the task in its hands
    to,         \* the notify object it pushes it to
    status,     \* of a task: "new", "open", "answered"; "refused": answered
                \* with 500; "lost": its consumer has died with it; "gone":
                \* its worker has died or quit
    home,       \* the slot of the worker that has the client's connection
    done,       \* task->done_notify
    mute        \* tasks in a queue whose pusher died before eventfd_write

shared == <<idles_lock, started, queue_lock, queue, event>>
private == <<at, hand, to>>
requests == <<status, home, done, mute>>
traffic == <<shared, private, requests>>
allVars == <<vars, traffic>>

Tasks == 1..MaxTasks        \* numbered in the order in which they come
Cycles == 1..MaxCycles
Objects == Cycles \X (0..(notify_num - 1))
Locks == Slots \union {Free, Nobody}

CycleOf(s) == table[s].cycle
Own(s) == <<table[s].cycle, notify[s]>>
IsWorker(s) == table[s].role = "worker"

InitTraffic ==
    /\ idles_lock = [c \in Cycles |-> Free]
    /\ started = [c \in Cycles |-> {}]
    /\ queue_lock = [o \in Objects |-> Free]
    /\ queue = [o \in Objects |-> <<>>]
    /\ event = [o \in Objects |-> FALSE]
    /\ at = [s \in Slots |-> "idle"]
    /\ hand = [s \in Slots |-> None] /\ to = [s \in Slots |-> None]
    /\ status = [t \in Tasks |-> "new"]
    /\ home = [t \in Tasks |-> None] /\ done = [t \in Tasks |-> None]
    /\ mute = {}

\* Process s goes on at l with task t, which it will push to o.
Goto(s, l, t, o) ==
    /\ at' = [at EXCEPT ![s] = l]
    /\ hand' = [hand EXCEPT ![s] = t]
    /\ to' = [to EXCEPT ![s] = o]

Turns == Cycle + Cardinality({t \in Tasks : status[t] # "new"})

Runs(s, l) == pc[s] = "up" /\ at[s] = l
-----------------------------------------------------------------------------
(* Births and faults *)

\* Of a queue in memory that was used before, any lock may start as taken.
MakeQueue(d, q) ==
    /\ Turns < MaxTurns
    /\ MasterInit(d, q)
    /\ LET c == Cycle + 1
           words == IF q = "dirty" THEN {Free, Nobody} ELSE {Free}
       IN  /\ \E w \in words : idles_lock' = [idles_lock EXCEPT ![c] = w]
           /\ \E w \in [Objects -> words] :
                queue_lock' = [o \in Objects |-> IF o[1] = c THEN w[o] ELSE queue_lock[o]]
    /\ UNCHANGED <<started, queue, event, private, requests>>

\* The master unlocks the mutexes of nginx for a dead process, not these.
LeftLocked(lock, s) == [x \in DOMAIN lock |-> IF lock[x] = s THEN Nobody ELSE lock[x]]

\* The memory of process s is gone: the connections of a worker, and the task
\* that a consumer had in its hands.  A task in a queue stays there.
Dies(s) ==
    /\ idles_lock' = LeftLocked(idles_lock, s)
    /\ queue_lock' = LeftLocked(queue_lock, s)
    /\ status' = [t \in Tasks |->
                    IF status[t] # "open" THEN status[t]
                    ELSE IF home[t] = s THEN "gone"
                    ELSE IF hand[s] = t /\ at[s] # "signal" THEN "lost"
                    ELSE status[t]]
    /\ mute' = IF at[s] = "signal" THEN mute \union {hand[s]} ELSE mute
    /\ Goto(s, "idle", None, None)
    /\ UNCHANGED <<started, queue, event, home, done>>

CrashNow(s) == Crash(s) /\ Dies(s)

\* The eventfd is writable and epoll reports it at once, which runs the handler.
Wakes(s) == event' = [event EXCEPT ![Own(s)'] = TRUE]

RegisterNow(s) ==
    \E added \in BOOLEAN :
        /\ Register(s, added)
        /\ IF pc'[s] = "up" THEN Wakes(s) ELSE UNCHANGED event
        /\ UNCHANGED <<idles_lock, started, queue_lock, queue, private, requests>>

\* A process looks at the signal between two events.  A worker waits for the
\* timers of its connections, and a request whose task is away has none: it is
\* dropped.  A consumer leaves what is in its queue.
ExitNow(s) ==
    /\ Exit(s) /\ at[s] = "idle"
    /\ status' = [t \in Tasks |->
                    IF status[t] = "open" /\ home[t] = s THEN "gone" ELSE status[t]]
    /\ UNCHANGED <<shared, private, home, done, mute>>

\* The loop of ngx_master_process_cycle: what it does of itself.
MasterLoop ==
    /\ \/ SignalOld \/ MasterExit
       \/ \E s \in Slots : Spawn(s) \/ Respawn(s) \/ Reap(s)
    /\ UNCHANGED traffic
-----------------------------------------------------------------------------
(* The steps of a process *)

\* ngx_http_rpc_post_async_handler; a worker that quits accepts no connection.
Request(s, t) ==
    /\ Runs(s, "idle") /\ IsWorker(s) /\ s \notin exiting
    /\ status[t] = "new" /\ \A u \in 1..(t - 1) : status[u] # "new"
    /\ Turns < MaxTurns
    /\ status' = [status EXCEPT ![t] = "open"]
    /\ home' = [home EXCEPT ![t] = s]
    /\ done' = [done EXCEPT ![t] = Own(s)]
    /\ Goto(s, "dispatch", t, None)
    /\ UNCHANGED <<shared, mute>>

LockIdles(s, l, next) ==
    /\ Runs(s, l) /\ idles_lock[CycleOf(s)] = Free
    /\ idles_lock' = [idles_lock EXCEPT ![CycleOf(s)] = s]
    /\ Goto(s, next, hand[s], to[s])
    /\ UNCHANGED <<started, queue_lock, queue, event, requests>>

DispatchLock(s) == LockIdles(s, "dispatch", "take")
IdleLock(s) == LockIdles(s, "insert", "link")

UnlockIdles(s) == idles_lock' = [idles_lock EXCEPT ![CycleOf(s)] = Free]

\* ngx_rpc_queue_push_and_notify gives a consumer, or nobody and NGX_ERROR,
\* whereupon the request is finished with 500.
Take(s) ==
    /\ Runs(s, "take") /\ UnlockIdles(s)
    /\ \/ \E i \in started[CycleOf(s)] :
            /\ Goto(s, "push", hand[s], <<CycleOf(s), i>>)
            /\ UNCHANGED status
       \/ /\ status' = [status EXCEPT ![hand[s]] = "refused"]
          /\ Goto(s, "idle", None, None)
    /\ UNCHANGED <<started, queue_lock, queue, event, home, done, mute>>

\* Mutant of IdleInsert: ngx_shmtx_unlock is missing.
IdleInsertLocked(s) ==
    /\ Runs(s, "link")
    /\ started' = [started EXCEPT ![CycleOf(s)] = @ \union {notify[s]}]
    /\ Goto(s, "idle", None, None)
    /\ UNCHANGED <<idles_lock, queue_lock, queue, event, requests>>

\* End of ngx_proc_rpc_process_one_cycle.
IdleInsert(s) ==
    /\ Runs(s, "link") /\ UnlockIdles(s)
    /\ started' = [started EXCEPT ![CycleOf(s)] = @ \union {notify[s]}]
    /\ Goto(s, "idle", None, None)
    /\ UNCHANGED <<queue_lock, queue, event, requests>>

LockQueue(s, o, l, next) ==
    /\ Runs(s, l) /\ queue_lock[o] = Free
    /\ queue_lock' = [queue_lock EXCEPT ![o] = s]
    /\ Goto(s, next, hand[s], to[s])
    /\ UNCHANGED <<idles_lock, started, queue, event, requests>>

PushLock(s) == LockQueue(s, to[s], "push", "pushing")
PopLock(s) == LockQueue(s, Own(s), "pop", "popping")

PushTail(s) ==
    /\ Runs(s, "pushing")
    /\ queue' = [queue EXCEPT ![to[s]] = Append(@, hand[s])]
    /\ queue_lock' = [queue_lock EXCEPT ![to[s]] = Free]
    /\ Goto(s, "signal", hand[s], to[s])
    /\ UNCHANGED <<idles_lock, started, event, requests>>

\* Mutant of Signal: one task for one wake-up.
SignalOnce(s) ==
    /\ Runs(s, "signal")
    /\ event' = [event EXCEPT ![to[s]] = TRUE]
    /\ Goto(s, "idle", None, None)
    /\ UNCHANGED <<idles_lock, started, queue_lock, queue, requests>>

\* eventfd_write; a worker returns to its events, a consumer pops again.
Signal(s) ==
    /\ Runs(s, "signal")
    /\ event' = [event EXCEPT ![to[s]] = TRUE]
    /\ Goto(s, IF IsWorker(s) THEN "idle" ELSE "pop", None, None)
    /\ UNCHANGED <<idles_lock, started, queue_lock, queue, requests>>

\* The read or the write handler of the notify object.
Wake(s) ==
    /\ Runs(s, "idle") /\ event[Own(s)]
    /\ event' = [event EXCEPT ![Own(s)] = FALSE]
    /\ Goto(s, "pop", None, None)
    /\ UNCHANGED <<idles_lock, started, queue_lock, queue, requests>>

\* Mutant of PopHead: the task is read and left in the queue.
PopHeadPeeks(s) ==
    /\ Runs(s, "popping")
    /\ queue_lock' = [queue_lock EXCEPT ![Own(s)] = Free]
    /\ IF queue[Own(s)] = <<>>
         THEN Goto(s, IF IsWorker(s) THEN "idle" ELSE "insert", None, None)
         ELSE Goto(s, "run", Head(queue[Own(s)]), None)
    /\ UNCHANGED <<idles_lock, started, queue, event, requests>>

PopHead(s) ==
    /\ Runs(s, "popping")
    /\ queue_lock' = [queue_lock EXCEPT ![Own(s)] = Free]
    /\ IF queue[Own(s)] = <<>>
         THEN /\ Goto(s, IF IsWorker(s) THEN "idle" ELSE "insert", None, None)
              /\ UNCHANGED queue
         ELSE /\ Goto(s, "run", Head(queue[Own(s)]), None)
              /\ queue' = [queue EXCEPT ![Own(s)] = Tail(@)]
    /\ UNCHANGED <<idles_lock, started, event, requests>>

\* The method of the service, to the end of RpcChannel::finish_request.
RunMethod(s) ==
    /\ Runs(s, "run") /\ ~IsWorker(s)
    /\ Goto(s, "push", hand[s], done[hand[s]])
    /\ UNCHANGED <<shared, requests>>

\* Instead the method parses a body of two memory buffers: the loop of
\* NgxChainBufferReader::Next does not end.
Spin(s) ==
    /\ Runs(s, "run") /\ ~IsWorker(s)
    /\ Goto(s, "hung", hand[s], None)
    /\ UNCHANGED <<shared, requests>>

\* ngx_http_rpc_request_finish in the worker that has the connection.
RunFinish(s) ==
    /\ Runs(s, "run") /\ IsWorker(s) /\ home[hand[s]] = s /\ status[hand[s]] = "open"
    /\ status' = [status EXCEPT ![hand[s]] = "answered"]
    /\ Goto(s, "pop", None, None)
    /\ UNCHANGED <<shared, home, done, mute>>

\* The same in the successor of that worker: finish.p1 is an address in the
\* heap of the dead process.
RunStale(s) ==
    /\ Runs(s, "run") /\ IsWorker(s) /\ status[hand[s]] = "gone"
    /\ Stray(s)
    /\ Goto(s, "idle", None, None)
    /\ UNCHANGED <<shared, requests>>

Step(s) ==
    \/ /\ \/ DispatchLock(s) \/ IdleLock(s) \/ Take(s) \/ IdleInsert(s)
          \/ PushLock(s) \/ PopLock(s) \/ PushTail(s) \/ Signal(s)
          \/ Wake(s) \/ PopHead(s) \/ RunMethod(s) \/ Spin(s)
          \/ RunFinish(s)
       /\ UNCHANGED vars
    \/ RunStale(s)

NextAll ==
    \/ \E d \in Directives \union {Unset}, q \in Outcomes : MakeQueue(d, q)
    \/ MasterLoop
    \/ Quit /\ UNCHANGED traffic
    \/ \E s \in Slots : CrashNow(s) \/ RegisterNow(s) \/ ExitNow(s) \/ Step(s)
    \/ \E s \in Slots, t \in Tasks : Request(s, t) /\ UNCHANGED vars

\* The processes run, and so does the master; crashes, requests, reloads and
\* the order to quit need not happen.
Fairness ==
    /\ \A s \in Slots : WF_allVars(RegisterNow(s) \/ Step(s) \/ ExitNow(s))
    /\ WF_allVars(MasterLoop)

InitAll == Init /\ InitTraffic

SpecAll == InitAll /\ [][NextAll]_allVars /\ Fairness
-----------------------------------------------------------------------------
(* Properties *)

Holders(t) == {s \in Slots : hand[s] = t /\ at[s] # "signal"}
Places(t) == {p \in Objects \X (1..MaxTasks) :
                 p[2] <= Len(queue[p[1]]) /\ queue[p[1]][p[2]] = t}

\* A request that waits for its answer is in one place: in the hands of one
\* process or once in one queue, across crashes and replacements.  Nothing is
\* done twice, and nothing but a death or an exit loses a task.
InOnePlace ==
    \A t \in Tasks : status[t] = "open" => Cardinality(Holders(t)) + Cardinality(Places(t)) = 1

\* The ways a request can stay unanswered: a lock of its configuration that no
\* living process holds, ...
Jammed(c) == \/ idles_lock[c] = Nobody
             \/ \E o \in Objects : o[1] = c /\ queue_lock[o] = Nobody

\* ... a process that parses for ever, a queue whose process does so, runs
\* wild, or is gone and will have no successor, ...
Hung(s) == pc[s] = "up" /\ at[s] = "hung"
Replaced(s) == pc[s] = "dead" /\ s \notin exiting /\ master = "run"
Served(o) == \E s \in Slots : /\ Taken(s) /\ table[s].cycle = o[1] /\ s = o[2]
                              /\ pc[s] \in {"init", "up"} \/ Replaced(s)
                              /\ ~Hung(s)
Abandoned(t) ==
    \/ \E s \in Slots : Hung(s) /\ hand[s] = t
    \/ \E o \in Objects : /\ o[1] = done[t][1] /\ ~Served(o)
                          /\ \E i \in DOMAIN queue[o] : queue[o][i] = t

\* ... or a task that was queued without a wake-up.
Stuck(t) == Jammed(done[t][1]) \/ Abandoned(t) \/ t \in mute

\* Every request is answered, even one whose consumer died before it took the
\* task, unless its consumer died with it in its hands, its worker died or
\* quit, or one of the above keeps it for good.
EachServed == \A t \in Tasks : status[t] = "open" ~> (status[t] # "open" \/ Stuck(t))

\* A graceful shutdown ends, unless a process spins on a dead lock, parses for
\* ever or runs wild; no request holds it up.
QuitEnds ==
    master = "quit" ~> \/ master # "quit"
                       \/ \E c \in Cycles : Jammed(c)
                       \/ \E s \in Slots : Hung(s) \/ pc[s] = "wild"
=============================================================================
