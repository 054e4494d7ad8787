# nginx-rpc: TLA+ models and proofs

nginx-rpc runs protobuf services inside nginx.  HTTP requests arrive in the
ordinary nginx *workers*; the methods run in separate `ngx_proc_rpc` processes
(*consumers*).  The two sides share a slab pool and nothing else, and hand each
other *tasks* through hand-written lists and eventfds in that memory.  This
directory models that machinery, the life of the processes around it, the shared
memory the calls use and the way from a `.proto` file to the method that serves a
URI.  It checks the models with TLC on small instances, and proves all the
safety properties of the passing runs for any size with TLAPS.

## The system

| Part | State | Operations |
|---|---|---|
| notify object (`ngx_rpc_notify.c`) | circular task list under `queue_lock`; `event_fd`; read and write event | create, register, push_task, pop_task, read handler, write handler, unregister, free |
| queue of idle consumers (`ngx_rpc_queue.c`) | circular list `idles` of notify objects under `idles_lock`; array of notify objects by process slot | create, push_and_notify, add_current_consumer, add_current_producer, destory |
| consumer (`ngx_rpc_process.c`) | its notify object, its place in `idles`; per configuration the zone and the queue | set_shm_size, zone init, master_init, master_exit, process_init, process_one_cycle, process_exit |
| worker (`ngx_http_rpc.c`) | its notify object; the method array and hash; per request an `rpc_ctx` and a task | postconfiguration, init_process, exit_process, http_handler, post_async_handler, process_notify_task, request_finish, request_foward, subrequest_done_handler, ctx_destroy |
| task (`ngx_rpc_task.c`) | queue node, closure, finish, status, proc_notify, done_notify, request and response buffers | create, set_bufs, destory |
| channel (`ngx_rpc_channel.cpp`) | heap object of a consumer: request, task, continuation | forward_request, foward_done, finish_request |
| inspect service (`ngx_http_inspect_module.cpp`, `inspect_impl.h`) | an instance for every directive | set_..._hanlder, interface, requeststatus, requeststatus_forward_done, process_exit |
| buffer streams (`ngx_rpc_buffer.cpp`) | position in a chain of buffers | Next, BackUp, Skip |
| protoc plugin (`ngx_rpc_plugin/`) | none | Generate: names of files, identifiers, directives and URIs of a module like inspect |

How a request goes: `http_handler` makes a context, `post_async_handler` a task;
`push_and_notify` takes the first consumer off `idles` and pushes the task into
its notify object.  The consumer wakes up, pops, runs `task->closure` and pushes
the same task into the worker's notify object; the worker pops it and runs
`task->finish`.  `interface` answers at once.  `requeststatus` forwards: the task
goes back to the worker with `request_foward`, the worker starts a subrequest
(which may be served by this very module, with a second task and maybe a second
consumer), and `subrequest_done_handler` pushes the task to the consumer that
started it, which finishes the call.  At the end of every cycle a consumer links
itself into `idles`.

What is hard here, and what the properties are for:

* lists changed from many processes, with only a lock between a half-linked state
  and its readers;
* push-then-signal on one side, read-then-drain on the other: lost wake-ups, or a
  read loop that never ends;
* a wake-up runs the cycle at least twice (the loop ends with a read that fails,
  and runs the handler for that one too), so a consumer that is already in `idles`
  is inserted again;
* one task, with one queue node, is the message for every leg of the way, and
  carries pointers into the private memory of two processes;
* callbacks of nginx that are called more than once (`NGX_AGAIN`), nested deletes,
  failing subrequests;
* processes that die, are replaced in their slot, or quit at a reload while tasks
  are under way, with locks, queues and eventfds that outlive them;
* a slab pool that calls share, in which they free by hand, and read, what they have
  allocated or freed before;
* a parser's stream that does not end on a body of two buffers, and keeps its consumer
  and all that waits for it;
* names that are lowered at some places and compared as they are at others.

`PROJECT.json` lists the hazards with their lines, the properties that are about
them, and why some have none.

## Modules

| Module | What it is |
|---|---|
| `RpcMailbox` | abstract: a first-in first-out mailbox with many senders and one receiver |
| `RpcService` | abstract: the life of requests as the HTTP core sees it, without processes, tasks or queues |
| `RpcNotify` | a notify object, pointer by pointer, with its lock, eventfd and event handlers; shown to implement `RpcMailbox` |
| `RpcNotifyProofs` | proofs about `RpcNotify` |
| `RpcIdles` | the list of idle consumers with its links and lock, the dispatches of the workers and the cycles of the consumers |
| `RpcIdlesProofs` | proofs about `RpcIdles` |
| `RpcSystem` | the composition: workers, consumers, requests, tasks and channels, with the task queue as a sequence (justified by `RpcMailbox`) and the idle list with its links; shown to implement `RpcService` |
| `RpcSystemProofs` | proofs about `RpcSystem` |
| `RpcSlots` | configurations, pools and queues; the process table; which notify object a process gets; crash, replacement, reload, shutdown |
| `RpcSlotsProofs` | proofs about `RpcSlots` |
| `RpcCrash` | the composition of `RpcSlots` with the traffic of requests: processes die between any two steps; shown to implement `RpcSlots` |
| `RpcCrashProofs` | the proof of that, and proofs about the tasks in `RpcCrash` |
| `RpcTaskBufs` | the slab pool: context, task and buffer chains of calls and their forwardings |
| `RpcTaskBufsProofs` | proofs about `RpcTaskBufs` |
| `RpcMethods` | plugin, build, directives, method table, lookup of a URI |
| `RpcMethodsProofs` | proofs about `RpcMethods` |
| `RpcStreams` | the two output streams (on an nginx pool and on the slab pool) and the input stream |
| `RpcStreamsProofs` | proofs about `RpcStreams` |
| `MC*` | instances for TLC |

### RpcNotify

`next`, `prev` are the links, `queue_lock` the holder of the lock, `signal` whether
the eventfd counter is not zero (it is read and reset as a whole, so its value does
not matter), `armed` whether the write event is registered.  `PushLock`,
`PushPrev`, `PushNext`, `Signal` are `push_task`, two steps for the four link writes
so that half-linked lists are states; `PopLock`, `PopEmpty`, `PopTake`, `PopUnlink`
are `pop_task`; `Wake`, `ReadFd`, `WriteReady` and `AfterHandler` are the event
handlers.  `box` is a history variable.  That a pusher starts with a node that is
nowhere else is an assumption here; that the processes keep to it is proved of
`RpcSystem` (`OnePlace`, and `SystemUsesMailboxes` for each notify object).

epoll: `ngx_add_conn` registers both events edge-triggered; the fd is writable, so
the write handler runs once soon after the start, deletes the write event, and
nginx then re-registers the fd for reading, level-triggered.

### RpcIdles

The same granularity: lock, test, take, unlink for a dispatch; lock and insert for
a consumer.  Of the tasks only `work` is left (is the consumer's queue not empty).
`NotifyAgain` is the push of `subrequest_done_handler` to a consumer that was not
taken from the list; any consumer that has run a task may have a call waiting,
which is more than the code can do and therefore safe for the invariants.

### RpcSystem

One step per access to shared memory.  Critical sections are single steps here;
the other two modules look inside them.  A *request* stands for the
`ngx_http_request_t`, its `rpc_ctx` and its task; `state` goes `new`, `reading`
(body), `pending` (dispatched), `answered`, `closed` (connection closed, context
and task freed).  Actions are named after the handlers.  The HTTP core is external:
it starts requests (`NewRequest`, `NoBody`, `Post`), ends proxied subrequests
(`UpstreamDone`, with any status, or none) and closes connections (`Close`).
Subrequests: to another server (`FowardUpstream`), not started at all (the same
with `"failed"`; the code only logs it), ended for want of memory
(`FowardNoMemory`), or served by this module (`FowardLocal`).  Allocating the
context may fail (`NoMemory`).  `channel` and `forward` say in which process the
two channels of a call are.  Data is abstract: methods, statuses and processes are
told apart, bodies are not.

`Mailbox(q)` is the notify object of process `q` read as a `RpcMailbox`: what is being
pushed to it (`Pushing`), its queue, and the task that `q` runs (`Handling`).
`RpcNotify` implements the mailbox, `RpcSystem` uses nothing but a mailbox: this is
why the links of the task queues need not be in the composition.  `Service` is what is
left when processes, tasks and queues are forgotten: `RpcService` has `state`, `answer`
and `parent` of the requests, and says that a request has one answer, a call one
subrequest that it outlasts and whose status it returns, and that connections are
closed over answered requests only.

The URI is taken to name one of the two methods; the lookup is in `RpcMethods`.  A parse
error of a method handler is `RunInterface` with 500.  All three handlers of a consumer
begin by parsing, and any of them may not come back from it: `Hangs` is the loop of
`NgxChainBufferReader::Next` on a body, or an answer of a subrequest, of two memory
buffers (`SpinsAfterTwo` of `RpcStreams`); the consumer then has no step any more.  A
failed `assert` of the writer ends the process: no process dies in this module, and
`RpcCrash` has what a death does.

### RpcSlots

`conf` is the sequence of configurations, each with the size of its zone, the pool
(init_zone takes the old one when the size is the same) and what became of its
queue: made, `NULL` (the allocation failed, which the code notices), or a crash of
the master (the allocations inside, which it does not check).  `table`, `last` and
`exiting` are nginx's `ngx_processes`, `ngx_last_process` and the processes told to
quit; they are external and modelled from what `ngx_rpc_notify_register` relies on:
the first free slot, a successor in the slot of a dead process, a child that sees
`ngx_last_process` as it was before the master counted it.  `Register` is both
process hooks; a slot that is not in the table makes the process `"wild"`: it uses
what lies behind the array as a notify object.  Of nginx's children the table has workers
and consumers only: the manager and the loader of a cache would take slots that
`notify_num` does not count, and `FirstCycleInRange` is about a server without them.

### RpcCrash

`RpcSlots` with tasks.  A process takes one step for each lock, critical section,
eventfd write and handler, and `CrashNow` may come between any two.  What a death does
(`Dies`): a lock it holds stays taken (`Nobody`), the task in its hands is lost, a
task it has queued but not announced is `mute`, the connections of a worker are gone.
A queue that is made in used memory may have locks that start as taken (`MakeQueue`
with `"dirty"`).  A successor finds the queue of its slot: a consumer runs it, a
worker runs answers for requests of its predecessor (`RunStale`) and goes wild.
A method may also never return (`Spin`, as `Hangs` in `RpcSystem`); this is no fault, and
the instance does not bound it.  A process that was told to quit goes between two events
(`ExitNow`): a consumer leaves what is in its queue, a worker its requests whose tasks are
away, since nginx waits for timers and these requests have none.
Forwarded calls are in `RpcSystem`, links in `RpcIdles` and `RpcNotify`; the list of
idle consumers is here any consumer that has linked itself, or none.

### RpcTaskBufs

`heap` says whose every chunk of the pool is; chunk `k` starts at `k * Cap`, so that an
address one past the end of a chunk is its neighbour, and `FreeAll` of an address
inside a chunk does nothing, as `ngx_slab_free` does.  The parameter `Slab` is the
order in which `ngx_slab_alloc` takes free chunks; of it only is assumed that every
free chunk has its turn once.  One step per handler, except in
`set_bufs`, where another process may allocate between the free of a node and the
read of its `next` (`SubFree`, then `SubCopy`, or `SubStale` if the node has a new user).
`SubStale` goes on with what stands in the node: where it is a node again, the rest of
that chain is freed, buffers, data and nodes; elsewhere `next` is any word, so the loop
ends, frees some chunk, or crashes.  A `NULL` that is not checked ends in `"crashed"`, as may
a message that needs a second buffer (the `assert` of the writer; messages of more than
two buffers are left out), a reader that does not return in `"hung"`, a subrequest that does
not start in `"stuck"`.  `late` holds the log entries that still have to
read a task that was pushed.  `wrong` is a history variable: some free has hit a chunk
it was not meant for; what happens after that is undefined, and the properties speak
of the time before.

### RpcMethods

Names are sequences of words, so that the identifiers the plugin puts together are
concatenations and two ways to make the same one are seen.  `Build` is the plugin and
the compiler for one `.proto` file; `ReadConf`, `SetHandler`, `PostConfiguration` and
`Refuse` are one reading of `nginx.conf`; `Request` is the lookup.
`ngx_hash_init` (stores names in lower case, refuses names that are too long) and
`ngx_hash_find` (compares bytes) are external.  `Forwarding` has the names, in lower case,
of the method of inspect that forwards, `ForwardPath` the URI it forwards to.

### RpcStreams

Sequential classes, modelled call by call.  `bufs` is the chain, a buffer its
`pos`, `last`, `end` and flags, `chain` the node the member of that name points to;
bytes are abstract cells (buffer, offset), so that a property can say which byte is
where.  The writers' client is protobuf's `CodedOutputStream`: `Next` at once and
whenever more room is needed, one `BackUp` at the end.  The variable `class` says which
class the stream is of: `PoolNew`, `PoolRest`, `PoolBackUp` or `ShmNew`, `ShmRest`, `ShmBackUp`,
where `New` makes a buffer and `Rest` is the branch "if skiped has called".
A failed `assert` is the state `"aborted"`.  The reader's client calls `Next`, `BackUp`
and `Skip` as the stream interface allows; each outcome of the `while` loop of
`Next` is an action (`NextHere`, `NextFurther`, `NextFalse`, and `NextSpins` for the
loop that does not end), and `"crashed"` is the dereference of a null `chain` in
`Skip`.  Allocations are taken to succeed; the code does not look at their results.

## Runs

| Run | Instance | Checks | States |
|---|---|---|---|
| `notify` | 2 pushers, 3 tasks | `TypeOK`, `QueueWellFormed`, `NoLostWakeup`, `MailboxFifo` (refinement), `Delivered` (liveness) | 42 thousand |
| `idles` | 2 workers, 2 consumers | `TypeOK`, `NoWrongRefusal`, `LoopOrChain`, `LoopStays` | 1.0 million |
| `idles_reached` | same | `IdlesAreListed` is violated | |
| `system_consumers` | 1 worker, 2 consumers, 2 requests | `TypeOK`, `OnePlace`, `ChannelIsLocal`, `ChannelsReleased`, `ForwardedAnswer`, `RestsWhenDone` | 2.7 million |
| `system_workers` | 2 workers, 1 consumer, 2 requests | `RequestIsLocal`, `ServiceKept` (refinement) | 1.7 million |
| `system_live` | 1 worker, 1 consumer, 2 requests | `Answered`, `Quiesces` (liveness) | 0.4 million |
| `slots` | 1 worker, 1 consumer, 2 configurations, 1 fault | `SlotInTable` is violated | |
| `crash` | the same and 2 requests, at most 3 configurations and requests together | `TypeOK`, `NeverRefused`, `OneOwner`, `FirstCycleInRange`, `DestroyedUnused`, `InOnePlace`, `EachServed` and `QuitEnds` (liveness) | 165 thousand |
| `taskbufs` | 2 calls, 18 chunks of 2 bytes | `TypeOK`, `OwnMemory`, `LeftBehind`, `LogAfterForward`, `BodyIsConsumed`, `WrongFreeInSetBufs` | 1.3 million |
| `methods` | 8 `.proto` files, 2 directives in each of 2 configurations | `CaseOnly`, `ForwardReaches` | 129 thousand |
| `streams` | writing: both classes, buffers of 2, 4, 6 bytes, 2 messages of 0 to 9 bytes; reading: chains of up to 3 buffers of up to 2 bytes | `TypeOK`, `WrittenRight`, `MarksAtTheEnd`, `ReadInOrder`, `SpinsAfterTwo` | 3 thousand |
| `writer_assert` | same, 1 message | `AssertHolds` is violated | |

Bounds.  Two pushers contend for a lock and three tasks give queues of every length
that distinguishes first, middle and last; the proofs remove these bounds.  Two
consumers are enough for a loop and for a consumer that is cut off by it; the
invariant of `RpcIdles` is proved for any number.  Two requests are a call and the
subrequest it is forwarded to, or two independent calls; two consumers let them run
in different processes, two workers let answers go astray.  The system instances
use symmetry except for liveness.  The system runs allow deadlock: when all requests
of the instance are closed, and the processes sleep, nothing is left to do.  The
streams have no concurrency; three buffers tell first, last and one in the middle
apart, and sizes up to nine fill the buffers exactly or not.  They stop when their
client is done.

In `crash`, `MaxFaults` = 1 lets one thing go wrong (a crash, an allocation, an
`ngx_add_conn`, a queue in used memory), `MaxCycles` = 2 is one reload, and `MaxTurns`
= 3 makes a run either a reload with one request or two requests without one;
`MaxProcesses` = 4 has room for the old and the new processes side by side.  The
theorems about `RpcSlots` have none of these bounds.  In `taskbufs` two calls are the
owner of a chunk and its neighbour.  18 chunks (`NChunks`) are few enough for the pool to
become full in the middle of each handler that allocates, and enough for the node that one
call has freed to become a node of the other's while `set_bufs` is about to read its `next`.
A body (`Bodies`) has one or two buffers, full or not, the second in memory or in a file;
an answer of a subrequest (`Outs`) is empty or has three buffers; a message (`Messages`) is
empty or needs two.  The run does not go on after a free that went wrong (`BeforeWrong`): it
checks the step, and the theorems do not have this bound.
In `methods` the `.proto` files are the repository's own and one for each way in which
names can clash or a build can fail; `MaxDirectives` = 2 allows a service twice or two
services that shadow each other, `MaxReads` = 2 is a reload, and `NameLimit` is the
length in words above which a name does not fit a bucket.  These runs may stop: the
instance is used up.

Fairness.  `WF` on the steps of each process: the kernel schedules every process
and its event loop goes round; a consumer that hangs in the parser runs too, but has no
step that leads out, so nothing is assumed of it.  `WF` on `UpstreamStep(t)`: a proxied subrequest
ends, by an answer or by nginx's own timeouts.  Clients have no fairness: they need
not send, finish or close anything.  In `RpcCrash`: `WF` on what each process does,
its start and its exit included, and on the loop of the master; no crash, request,
reload or order to quit need ever happen.  A lock is taken with weak fairness: the
code spins, and the instance has two processes.  The liveness properties therefore say that
what was started ends, not that anything starts.

What the runs show.  No wake-up is lost, the task queues are mailboxes, a task has
one owner at a time, private pointers are used in their own process, channels are
released.  Each request that is dispatched is answered (`Answered`), with two exceptions:
`ngx_http_subrequest` fails, which is only logged (`sub = "failed"`), or the task of the
request or of its subrequest is in the hands or in the queue of a consumer that hangs in
the parser.  A body that came in two buffers is enough for that, and takes every other
request along that was dispatched to the same consumer.  All processes but such a consumer
come to rest (`Quiesces`).
The processes never all sleep over a task: when they do, every queue is empty and a
request without an answer waits for a subrequest (`RestsWhenDone`).  Seen from the HTTP
core, requests live as `RpcService` says (`ServiceKept`).

The list of idle consumers is not what its comment says, "all idles proce"
(`ngx_rpc_queue.h:28`).  The second insertion of a listed node makes the list a loop
(`c -> c`), after which: the dispatch takes the same consumer again and again and
never an empty list (`LoopStays`), whether or not it is busy, and consumers that were
behind it are reached again only when they happen to be woken by something else
(`idles_reached`).  What survives: a request is never refused
while a consumer is idle (`NoWrongRefusal`); the list is a loop or a chain of every
idle consumer, no longer than their number, in which the two links of the head agree
on emptiness and nobody is listed who has not started (`LoopOrChain`).

Processes and slots.  No process is refused for its slot, each has its notify object
alone, and the queue is destroyed after its last user (`NeverRefused`, `OneOwner`,
`DestroyedUnused`).  The table has an entry for each process of one configuration; as
long as there has been no reload that is enough (`FirstCycleInRange`), after one the
new processes look behind it (`slots`).  With crashes, a request that waits is in one
place (`InOnePlace`), tasks in the queue of a dead consumer are run by its successor,
and `EachServed` lists what is left: a lock held by nobody, a queue without a process
(after a reload consumers quit without looking at their queue, and a worker that runs
answers meant for its predecessor goes wild), a consumer that hangs in the parser over the
request or before it, and a task queued but not announced.  A request whose worker quits is
dropped, not kept.  A graceful shutdown ends (`QuitEnds`) unless a process spins on a dead
lock, hangs in the parser, where it does not look at `ngx_quit`, or runs wild.  Neither
property holds when one of its exceptions is left out.

Memory.  All that a task points to is its own while it is open (`OwnMemory`), also when
another call runs out of memory in the middle of a handler.  The exceptions are both in
`set_bufs`, when the answer of a subrequest replaces the request (`WrongFreeInSetBufs`).
A body that fills its chunk and was parsed to its end is freed at `pos`, which is then the
chunk behind (4096-byte bodies, for one).  And of a body of two buffers, the second in a
file, `next` is read in a node that was freed just before: if another call has got
that chunk, the loop frees what it finds there, in the worst case the rest of that call's
chain.  As a node the chunk does harm only in a chain of three buffers or more; a
chain of two has nothing behind its second node.  No call that got a task gives back all
it took: `LeftBehind` counts what stays, the `ngx_buf_t` of every buffer, the
nodes, and for a forwarded call the data of the forwarded message and of the body.
The log of `forward_request` reads a task that is still there (`LogAfterForward`); the one
after `finish_request` (`ngx_rpc_process.c:316`) may not.  The subrequest is sent with
the consumed body of the request under the length of the new message
(`BodyIsConsumed`).

Names.  A URI reaches one method, the one whose name in lower case it is (`CaseOnly`): a
registered name with a capital, like the ones inspect registers, is not found as it
stands.  Names that are equal up to case hide each other.  The path
to which inspect forwards is in lower case and is found (`ForwardReaches`).  Noticed
on the way: the sample `nginx.conf` uses a directive name that the module does not
register; the instances that directives make are never deleted; a log argument opens
the configuration file; a `.proto` file without a package, or with a capital in its
file name, gives a module that does not build.

The streams are right while one buffer is enough (4096 bytes for the writer).  For
longer messages: the shared-memory writer backs up in the first buffer instead of
the last, so its `assert` fails or, when the surplus happens to fit, the chain holds
wrong bytes with the right length (`writer_assert`,
`WrittenRight`); the last but one buffer is marked as the last as well
(`MarksAtTheEnd` says that no other is).  The pool's writer, of which it is a copy, does
not have the fault (`WrittenRight`) but is not used.  The reader gives the bytes of two
buffers in order and then never returns, whatever the number of buffers
(`SpinsAfterTwo`); it never ends a stream early (`ReadInOrder`); `Skip` has its test
for a next node the wrong way round and gives up at the end of a buffer.

## Proofs

All for every value of the constants.  The assumptions are named in the modules that
declare the constants: the names of processes, nodes, requests, the list head and `None`
are distinct (`None` is also no status, `UnsentAssumption`, so that "not answered yet" can
be told from an answer); sizes and bounds are natural numbers, a buffer has at least one
byte and a chunk at least two; bodies have one or two buffers and no part is longer than
a chunk (`BufsAssumption`, what nginx's body buffers and `set_bufs` allow); the pool
hands out each free chunk once (`SlabAssumption`); there are finitely many consumers
(`ConsumersAssumption`, used only for the length of the list).  Of names: a word in lower case is a
word and the separators of a URI are none (`MethodsAssumption`); there is one `.proto` file
of a name that the plugin accepts, since the files it writes carry that name
(`ProtosAssumption`); and a service with the method that forwards has the method that is
forwarded to, as `inspect.proto` has (`ForwardAssumption`): a service of another file with
the names of inspect but only one of its methods is excluded by it.

`RpcNotifyProofs`.  `IndInv` = `TypeOK` + `PcInv` (who is in a critical section is
who the lock names) + `HandInv` (a node is in one hand or once in the queue) +
`ChainInv` (which links are out of step with the queue, by the position of the
holder of the lock: during `"linknext"` the prev chain already has the new node and
the next chain has not) + `NoLostWakeup`.  `QueueWellFormed` alone is not inductive:
it says nothing while the lock is held.  Lemmas about `At` (positions of a queue,
with the head at both ends) carry the link arithmetic; one lemma per conjunct goes
through the actions.  Theorems: `InductiveInvariant`, `TypeCorrect`, `WellFormed`,
`NoWakeupIsLost`, `ImplementsMailbox` (the step-by-step refinement).

`RpcIdlesProofs`.  The invariant has two modes.  Either there is a set of consumers
that the chain enters and does not leave (`Looped`), or there is a rank function
under which the list is a chain that holds every idle consumer (`Chain`).  A dispatch
takes the highest rank off; an insertion of an unlisted node adds one; an insertion
of a listed one turns the chain into a loop, made of the nodes from the front to it
(`InsertListed`).  Ranks avoid induction over the list.  `StartedInv` says that
started nodes only link to started nodes.  `LoopOrChain` is the same invariant with
ranks of at most the number of consumers, so that TLC can look for one.  It follows,
since the ranks of a chain have no gap (`RanksAreFull`): above the greatest missing one
there would be a consumer whose `next` has it.  Theorems: `InductiveInvariant`,
`TypeCorrect`, `EmptyTestIsRight`, `RefusalsAreRight`, `OnlyStartedConsumers`,
`LoopsAreForEver`, `ListIsLoopOrChain`.

`RpcSlotsProofs`.  `Inv` = `TypeOK` + `TableInv` (the slots from `last` on are free, a
free slot has no process and no notify object) + `ProcessInv` (a process saw an
`ngx_last_process` of at least its slot, the object it uses has its slot as index, in a
queue that was made and not destroyed) + `FirstInv` (in the first configuration the
slots in use and the processes still to be started are together at most
`notify_num`).  None of the properties is inductive without the table: that a successor
gets the slot of the dead process, and that `ngx_last_process` bounds the slots in use,
is what they rest on.
Theorems: `SlotsTypeOK`, `SlotsNeverRefused`, `SlotsOneOwner`, `SlotsFirstCycle`,
`SlotsDestroyedUnused`.

`RpcCrashProofs`.  Every step of `RpcCrash` is a step of `RpcSlots` or leaves its
variables alone (`CrashImplementsSlots`), so those theorems hold under traffic
(`CrashSafe`).  `TrafficInv` adds to the invariant of `RpcSlots` what a process may have
in its hands at each of its steps (`HandsInv`), that no task is in two queues or hands
(`ApartInv`), and that the task of a waiting request is in one of them (`PlaceInv`).
`InOnePlace` speaks of the requests of living workers only; `ApartInv` has to speak of
all tasks, since a task may come to a successor in the slot.  The step that matters is
the one between linking a task and signalling it: from there on the process still knows
the task, but no longer owns it (`Holds`).  Theorems: `CrashTraffic`, `CrashInOnePlace`.

`RpcSystemProofs`.  `SysInv` = `TypeOK` + `ListInv` (the two links of the list head agree
on emptiness; without it the dispatch could hand a task to the head itself) + `HandInv` +
`TaskInv` (what the fields of one task say together, in particular that `finish` is
`request_foward` exactly while both channels are in the heap of the consumer `proc`) +
`ChildInv` (a call has one subrequest and carries its answer after it ended) +
`RouteInv` (a task is queued, run or pushed only where it may go) + `UniqueInv` and
`SomewhereInv` (nowhere twice, and somewhere while it is pending).  The locality of
requests and channels is `RouteInv` with `TaskInv`; `OnePlace` is a cardinality, and
follows from the last two.  One lemma per group of actions, with the pushes, pops and the
dispatch factored out.  Theorems: `SystemInvariant`, `SystemTypeOK`, `SystemOnePlace`,
`SystemRequestIsLocal`, `SystemChannelIsLocal`, `SystemChannelsReleased`,
`SystemForwardedAnswer`, and `SystemAnswersOnce` (an answer is never replaced by another).

`RestsWhenDone` needs more than where the tasks are.  `RestInv` = `InsideInv` (where in its
handlers a process is) + `WakeInv` + `LeafInv` (a subrequest is not forwarded in its turn).
`WakeInv` says that when a process is past the pop that found its queue empty, and its
eventfd is zero, a task in its queue has a sender that is about to signal it.  That no
process sleeps over a task without such a sender (`SystemNoLostWakeup`) is the part of it
that speaks of sleeping processes; it is not inductive, since the task may come while the
process still inserts itself into the list.  When all sleep there is no such sender, so the
queues are empty, and by `SomewhereInv` and `ChildInv` a pending request is one whose
subrequest is elsewhere (`SystemRestsWhenDone`).

`SystemUsesMailboxes` and `SystemImplementsService` are refinements, step by step.  For the
mailbox of a process the step that counts is the push: `Ends` says what a handler
may leave in the hands of its process, and `SysInv` of the state after the step that the
task is in no other hand or queue.  For the service it is the answer of a call that was
forwarded: `ChildInv` gives that its subrequest was answered before, with the status the
consumer hands on.

`RpcTaskBufsProofs`.  `BufsInv` says of every call how far it is on its way (`Way`), how
far its request has been read (`Parsed`) and, until a free goes wrong, which chunks of the
pool are its own (`Memory`).  That is an equality, not an inclusion (`Exact`): the chunks
with this call as user are the ones its chains, its task and its context name, together
with those the code has lost track of, and no chunk is named twice (`Apart`).  With
inclusions alone neither `LeftBehind` nor the frees of another call could be handled.  A
step touches only free chunks and the call's own (`Touches`), so that the other calls need
no case of their own (`MemoryKept`).  The arithmetic is in two lemmas: `AddressFacts` (an
address in a chunk or just behind it is the beginning of a chunk only at its two ends)
and `ChainWanted` (which of the allocations of a chain is a buffer, its data, or a node).
`WrongFreeInSetBufs` is proved for every step: `Close` never goes wrong because of
`Exact`, `SubFree` only with `pos` at the end of the chunk, and `SubStale` only when the
node is another's: `Memory` also says that a node which `set_bufs` has freed is not the
call's own any more, and `Way` that the first node of a chain is a field of the task
(`Headed`), so that a chunk which is a node has something behind it only in a chain of three.
Theorems: `BufsInvariant`,
`BufsTypeOK`, `BufsOwnMemory`, `BufsLeftBehind`, `BufsLogAfterForward`,
`BufsBodyIsConsumed`, `BufsWrongFree`.

`RpcStreamsProofs`.  A chain's bytes in order would be a concatenation over its buffers,
and what it computes an induction over data.  `RpcStreams` therefore speaks of a set of
bytes with its order (`Before`), and of a sequence as all of it, its beginning or its end
(`IsAll`, `IsFirst`, `IsLast`); for a given set there is only one such sequence of a given
length.  For the writers `StreamsInv` says that the cells of a message which is being
written are the last of the chain and end at `last` of the last buffer (`Given`), for the
reader that only the first two buffers are ever read, the second after the whole of the
first (`Placed`), unless the client has backed up into another buffer.  Theorems:
`StreamsInvariant`, `StreamsTypeOK`, `StreamsWrittenRight`, `StreamsMarks`,
`StreamsReadInOrder`, `StreamsSpinsAfterTwo`.

`RpcMethodsProofs`.  `MethodsInv` says of the method array, of the table that is served and
of the last answer that every entry is one of a method of a module that was built; for the
first two also that each instance has all the methods of its service under both names
(`Whole`) and that the instances come in their order (`Ordered`).  `CaseOnly` needs the
first part and the identifiers of `Builds`.  `ForwardReaches` needs all three: the entry of
the forwarding method and the one of its target are each the first of their name, so
neither can belong to a later instance than the other.  That both are of the same service
rests on `SameService`: two URIs of a package that are equal up to case have services that
are, since no word is a separator.  Theorems: `MethodsInvariant`, `MethodsCaseOnly`,
`MethodsForwardReaches`.

Only model-checked: liveness (`Delivered`, `Answered`, `Quiesces`, `EachServed`,
`QuitEnds`), which needs fairness and is out of this prover's reach.

## Not modelled

Left out, because it depends on code that is not here: a client that goes away while
its request is under way (when nginx frees a request is decided by the HTTP core); the
exit hook of the inspect module, which reads the configuration of another module; what
a read of freed memory gives; the eventfd of a process after its notify object was
found behind the table.

Left out for good: logging, the text of generated code apart from names, generated
protobuf classes, the commented-out ring queue in `ngx_rpc_queue.c`, the socket stub,
build scripts, bundled archives and the test programs.
