------------------------------ MODULE RpcSlots ------------------------------
(***************************************************************************)
(* Start, reload, crash and shutdown: the shared pool and the queue that   *)
(* the master makes for every configuration (ngx_rpc_process.c,            *)
(* ngx_rpc_queue.c), and the notify object that each process picks from    *)
(* the queue's table with its process slot (ngx_rpc_notify.c).             *)
(*                                                                         *)
(* The process table belongs to nginx and is modelled from what            *)
(* ngx_rpc_notify_register relies on: ngx_spawn_process takes the first    *)
(* free slot, or the one of the dead process it replaces; the child gets   *)
(* its slot and the value of ngx_last_process from before the master       *)
(* counts the new slot; after a reload the old processes are told to quit  *)
(* once the new ones run, and are not replaced.                            *)
(*                                                                         *)
(* The table holds workers and consumers only.  The other children nginx   *)
(* may have, the manager and the loader of a cache, are not counted by     *)
(* notify_num: one that has a slot before the consumers pushes these up.   *)
(***************************************************************************)
EXTENDS Integers, Sequences, FiniteSets

CONSTANTS
    Workers,        \* worker_processes
    Consumers,      \* the sum of count over the process blocks
    Directives,     \* arguments of ngx_proc_rpc_set_shm_size, in pages
    Default,        \* 4096*1024*256 bytes, in pages
    Unset,          \* no such directive
    MaxCycles,      \* bound: configurations loaded
    MaxFaults,      \* bound: crashes, and calls of the system that fail
    MaxProcesses,   \* NGX_MAX_PROCESSES
    None            \* NULL, or a slot that is free

ASSUME CountAssumption == Workers \in Nat /\ Consumers \in Nat
ASSUME BoundAssumption == MaxCycles \in Nat /\ MaxFaults \in Nat /\ MaxProcesses \in Nat
ASSUME SizeAssumption  == Default \in Nat /\ Directives \subseteq Nat /\ Unset \notin Nat

VARIABLES
    conf,       \* the ngx_proc_rpc_conf_t of each configuration, oldest first
    master,     \* "run", "quit", "exited", or "dead"
    pending,    \* the processes the master has still to start
    last,       \* ngx_last_process
    table,      \* ngx_processes: who has a slot
    exiting,    \* the slots whose process was told to quit
    pc,         \* what has become of the process of a slot
    notify,     \* the notify object it uses: the index into notify_slot
    faults      \* how many of those there have been

vars == <<conf, master, pending, last, table, exiting, pc, notify, faults>>

Slots == 0..(MaxProcesses - 1)
Cycle == Len(conf)

Outcomes == {"made", "dirty", "null", "crash"}

\* "init": forked; "up": registered; "wild": it follows a pointer that is none;
\* "refused": ngx_rpc_notify_register gave NULL; "dead": ended, not yet reaped.
States == {"none", "init", "up", "wild", "refused", "dead"}
Roles == {"worker", "consumer"}
Procs == [cycle : Nat \ {0}, role : Roles, seen : Nat]
Confs == [size : Nat, pool : Nat, queue : {"made", "null", "crash", "destroyed"}]

ASSUME NoneAssumption == None \notin Nat \union Procs

\* conf->notify_num of master_init
notify_num == Workers + Consumers

Taken(s) == table[s] # None

\* Counts a step that is a fault.
Fault(is) == /\ is => faults < MaxFaults
             /\ faults' = IF is THEN faults + 1 ELSE faults

Live(s) == pc[s] \in {"init", "up", "wild"}

\* The processes of earlier configurations, after a reload.
Old == {s \in Slots : Taken(s) /\ table[s].cycle < Cycle}

Init ==
    /\ conf = <<>> /\ master = "run" /\ pending = <<>>
    /\ last = 0
    /\ table = [s \in Slots |-> None]
    /\ exiting = {}
    /\ pc = [s \in Slots |-> "none"]
    /\ notify = [s \in Slots |-> None]
    /\ faults = 0
-----------------------------------------------------------------------------
(* The configuration and the queue *)

\* set_shm_size: too small is an error of the configuration, which is then not
\* loaded; merge_loc_conf puts the default where the directive is missing.
Accepted(d) == d # Unset => d >= 8
ShmSize(d) == IF d = Unset THEN Default ELSE d

\* nginx hands init_zone the old configuration only when the old zone has the
\* same size, and the old pool is used again; else the zone is mapped anew.
Reuses(size) == Cycle > 0 /\ conf[Cycle].size = size
InitZone(size) == IF Reuses(size) THEN conf[Cycle].pool ELSE Cycle + 1

\* The ways ngx_rpc_queue_create ends.  The queue itself is checked for NULL;
\* the table of notify objects and the objects are not, and the master dies.
\* ngx_shmtx_create does not clear the lock words, and ngx_slab_alloc gives the
\* memory as it was left: zero in a new zone, anything in one that was used.
Created(size) ==
    {"made", "null", "crash"} \union IF Reuses(size) THEN {"dirty"} ELSE {}

\* A configuration is read and its queue made, behind the ones before; then
\* ngx_start_worker_processes and ngx_procs_start.
Load(before, d, q) ==
    /\ master = "run" /\ pending = <<>> /\ Cycle < MaxCycles
    /\ Old \subseteq exiting
    /\ Accepted(d) /\ q \in Created(ShmSize(d))
    /\ conf' = Append(before, [size |-> ShmSize(d), pool |-> InitZone(ShmSize(d)),
                               queue |-> IF q = "dirty" THEN "made" ELSE q])
    /\ master' = IF q = "crash" THEN "dead" ELSE "run"
    /\ pending' = [i \in 1..notify_num |-> IF i <= Workers THEN "worker" ELSE "consumer"]
    /\ Fault(q # "made")
    /\ UNCHANGED <<last, table, exiting, pc, notify>>

\* Mutant of MasterInit: the queue of the old configuration is destroyed.
MasterInitDestroys(d, q) ==
    Load([c \in 1..Cycle |-> [conf[c] EXCEPT !.queue = "destroyed"]], d, q)

\* master_init, the init_module hook.  The old queue is left as it is.
MasterInit(d, q) == Load(conf, d, q)

\* master_exit, when every process is gone: ngx_rpc_queue_destory frees the
\* notify objects, their table and the queue of the current configuration, and
\* dereferences the NULL of a queue that could not be made.
MasterExit ==
    /\ master = "quit" /\ \A s \in Slots : ~Taken(s)
    /\ IF Cycle > 0 /\ conf[Cycle].queue = "made"
         THEN /\ conf' = [conf EXCEPT ![Cycle].queue = "destroyed"]
              /\ master' = "exited"
         ELSE /\ master' = IF Cycle > 0 THEN "dead" ELSE "exited"
              /\ UNCHANGED conf
    /\ UNCHANGED <<pending, last, table, exiting, pc, notify, faults>>
-----------------------------------------------------------------------------
(* nginx: processes come and go *)

\* The first free slot; every slot from last on is free.
FirstFree(s) == ~Taken(s) /\ s <= last /\ \A i \in 0..(s - 1) : Taken(i)

\* A child with role r and configuration c; seen is its ngx_last_process.
Fork(s, r, c) ==
    /\ table' = [table EXCEPT ![s] = [cycle |-> c, role |-> r, seen |-> last]]
    /\ pc' = [pc EXCEPT ![s] = "init"]
    /\ notify' = [notify EXCEPT ![s] = None]

Spawn(s) ==
    /\ master = "run" /\ pending # <<>>
    /\ FirstFree(s)
    /\ Fork(s, Head(pending), Cycle)
    /\ pending' = Tail(pending)
    /\ last' = IF s = last THEN last + 1 ELSE last
    /\ UNCHANGED <<conf, master, exiting, faults>>

SignalOld ==
    /\ master = "run" /\ pending = <<>> /\ ~(Old \subseteq exiting)
    /\ exiting' = exiting \union Old
    /\ UNCHANGED <<conf, master, pending, last, table, pc, notify, faults>>

Quit ==
    /\ master = "run" /\ pending = <<>> /\ Old \subseteq exiting
    /\ master' = "quit"
    /\ exiting' = {s \in Slots : Taken(s)}
    /\ UNCHANGED <<conf, pending, last, table, pc, notify, faults>>

\* A killed process is replaced, in its slot, unless it was told to quit.
Respawn(s) ==
    /\ master = "run" /\ pending = <<>> /\ Old \subseteq exiting
    /\ pc[s] = "dead" /\ s \notin exiting
    /\ Fork(s, table[s].role, table[s].cycle)
    /\ UNCHANGED <<conf, master, pending, last, exiting, faults>>

\* One that quit, or whose init hook failed, gives its slot back.
Reap(s) ==
    /\ master \in {"run", "quit"} /\ pending = <<>>
    /\ master = "run" => Old \subseteq exiting
    /\ pc[s] \in {"refused", "dead"} /\ (pc[s] = "dead" => s \in exiting)
    /\ table' = [table EXCEPT ![s] = None]
    /\ pc' = [pc EXCEPT ![s] = "none"]
    /\ notify' = [notify EXCEPT ![s] = None]
    /\ exiting' = exiting \ {s}
    /\ last' = IF s = last - 1 THEN last - 1 ELSE last
    /\ UNCHANGED <<conf, master, pending, faults>>

Crash(s) ==
    /\ Live(s) /\ Fault(TRUE)
    /\ pc' = [pc EXCEPT ![s] = "dead"]
    /\ UNCHANGED <<conf, master, pending, last, table, exiting, notify>>
-----------------------------------------------------------------------------
(* The process hooks *)

\* Mutant of InRange: what the log message says, "not in range [0, %d)".
InRangeStrict(s) == s >= 0 /\ s < table[s].seen

\* ngx_process_slot < 0 || ngx_process_slot > ngx_last_process
InRange(s) == s >= 0 /\ s <= table[s].seen

\* Mutants of SlotOf: the count of the processes instead of the process; the
\* number among its own kind, which workers and consumers both start at 0; one
\* entry too low.
SlotOfLast(s) == table[s].seen
SlotOfKind(s) == IF table[s].role = "worker" THEN s ELSE s - Workers
SlotOfPrevious(s) == s - 1

\* notify_slot[ngx_process_slot]
SlotOf(s) == s

\* What a failed registration does: process_init returns NGX_ERROR and nginx
\* ends the process for good, init_process of the workers uses the NULL.
Failed(s) == IF table[s].role = "consumer" THEN "refused" ELSE "dead"

\* ngx_proc_rpc_process_init and ngx_http_rpc_init_process, which read notify_slot of
\* the queue, NULL or not, and index it without looking at notify_num.
\* ngx_add_conn may fail.
Register(s, added) ==
    /\ pc[s] = "init"
    /\ IF conf[table[s].cycle].queue # "made"
         THEN pc' = [pc EXCEPT ![s] = "dead"] /\ UNCHANGED notify
       ELSE IF ~InRange(s)
         THEN pc' = [pc EXCEPT ![s] = Failed(s)] /\ UNCHANGED notify
       ELSE IF SlotOf(s) >= notify_num
         THEN /\ pc' = [pc EXCEPT ![s] = "wild"]
              /\ notify' = [notify EXCEPT ![s] = SlotOf(s)]
       ELSE IF ~added
         THEN pc' = [pc EXCEPT ![s] = Failed(s)] /\ UNCHANGED notify
       ELSE /\ pc' = [pc EXCEPT ![s] = "up"]
            /\ notify' = [notify EXCEPT ![s] = SlotOf(s)]
    /\ Fault(~added)
    /\ UNCHANGED <<conf, master, pending, last, table, exiting>>

\* ngx_proc_rpc_process_exit and ngx_http_rpc_exit_process: the connection and
\* this process's copy of the eventfd are closed; the object stays in the table
\* and in the list of idle consumers, and the other copies stay open.
Exit(s) ==
    /\ pc[s] = "up" /\ s \in exiting
    /\ pc' = [pc EXCEPT ![s] = "dead"]
    /\ UNCHANGED <<conf, master, pending, last, table, exiting, notify, faults>>

\* A handler follows a pointer that is not its own (RpcCrash says when).
Stray(s) ==
    /\ pc[s] = "up"
    /\ pc' = [pc EXCEPT ![s] = "wild"]
    /\ UNCHANGED <<conf, master, pending, last, table, exiting, notify, faults>>

Next ==
    \/ \E d \in Directives \union {Unset}, q \in Outcomes : MasterInit(d, q)
    \/ SignalOld \/ Quit \/ MasterExit
    \/ \E s \in Slots : \/ Spawn(s) \/ Respawn(s) \/ Reap(s) \/ Crash(s) \/ Exit(s) \/ Stray(s)
                        \/ \E added \in BOOLEAN : Register(s, added)

Spec == Init /\ [][Next]_vars
-----------------------------------------------------------------------------
(* Properties *)

TypeOK ==
    /\ conf \in Seq(Confs)
    /\ master \in {"run", "quit", "exited", "dead"}
    /\ pending \in Seq(Roles)
    /\ last \in 0..MaxProcesses
    /\ table \in [Slots -> Procs \union {None}]
    /\ exiting \subseteq Slots
    /\ pc \in [Slots -> States]
    /\ notify \in [Slots -> Nat \union {None}]
    /\ faults \in Nat

\* No process that nginx starts is refused by the range test of
\* ngx_rpc_notify_register, although the child of a new slot does not yet count
\* itself in its ngx_last_process.
NeverRefused == \A s \in Slots : pc[s] = "init" => InRange(s)

\* Two processes of one configuration never use the same notify object, however
\* crashes, reloads and freed slots interleave: tasks are popped by one process.
OneOwner ==
    \A s, t \in Slots :
        /\ s # t /\ pc[s] = "up" /\ pc[t] = "up"
        /\ table[s].cycle = table[t].cycle
        => notify[s] # notify[t]

\* Before the first reload no process reads past the end of notify_slot.
FirstCycleInRange ==
    Cycle = 1 => \A s \in Slots : notify[s] # None => notify[s] < notify_num

\* The objects of a queue are freed by master_exit only when no process uses
\* them, although the processes of several configurations live at once.
DestroyedUnused ==
    \A s \in Slots : pc[s] = "up" => conf[table[s].cycle].queue = "made"

\* "the length is ngx_last_process" (ngx_rpc_queue.h:36): notify_slot has an
\* entry for every process that registers.
SlotInTable == \A s \in Slots : pc[s] \in {"up", "wild"} => notify[s] < notify_num
=============================================================================
