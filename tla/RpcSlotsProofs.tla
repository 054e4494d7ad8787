--------------------------- MODULE RpcSlotsProofs ---------------------------
(***************************************************************************)
(* The start, reload and crash protocol of RpcSlots is right for any       *)
(* number of processes, configurations and faults.                         *)
(***************************************************************************)
EXTENDS RpcSlots, SequenceTheorems, TLAPS

\* The slots from last on are free, and a free slot has no process and no
\* notify object.
TableInv ==
    /\ \A s \in Slots : s >= last => table[s] = None
    /\ \A s \in Slots : table[s] = None <=> pc[s] = "none"
    /\ \A s \in Slots : table[s] = None => notify[s] = None
    /\ \A s \in Slots : table[s] # None => table[s].cycle \in 1..Len(conf)

\* What a process knows: its slot is at most the ngx_last_process it saw, the
\* object it uses is the one of its slot, in a queue that has been made.
ProcessInv ==
    /\ \A s \in Slots : table[s] # None => s <= table[s].seen
    /\ \A s \in Slots : notify[s] # None => notify[s] = s
    /\ \A s \in Slots : pc[s] = "up" => notify[s] = s
    /\ \A s \in Slots : pc[s] = "up" => conf[table[s].cycle].queue = "made"

\* Until the first reload there are never more slots in use than the table
\* of notify objects has entries.
FirstInv ==
    /\ Len(conf) = 0 => last = 0 /\ pending = <<>>
    /\ Len(conf) = 1 => last + Len(pending) <= notify_num

Inv == TypeOK /\ TableInv /\ ProcessInv /\ FirstInv

LEMMA NotifyNum == notify_num \in Nat
  BY CountAssumption DEF notify_num

LEMMA InitInv == Init => Inv
<1> SUFFICES ASSUME Init PROVE Inv
  OBVIOUS
<1> USE DEF Init, Slots
<1>1. TypeOK
  BY BoundAssumption DEF TypeOK, States
<1>2. TableInv
  BY DEF TableInv
<1>3. ProcessInv
  BY NoneAssumption DEF ProcessInv
<1>4. FirstInv
  BY DEF FirstInv
<1> QED BY <1>1, <1>2, <1>3, <1>4 DEF Inv

LEMMA LoadInv == ASSUME Inv, NEW d \in Directives \union {Unset}, NEW q \in Outcomes, MasterInit(d, q)
                 PROVE  Inv'
<1> USE DEF MasterInit, Load, Inv
<1> DEFINE new == [size |-> ShmSize(d), pool |-> InitZone(ShmSize(d)),
                   queue |-> IF q = "dirty" THEN "made" ELSE q]
<1>0. conf \in Seq(Confs)
  BY DEF TypeOK
<1>1. new \in Confs
  <2>1. ShmSize(d) \in Nat
    BY SizeAssumption DEF ShmSize
  <2>2. InitZone(ShmSize(d)) \in Nat
    <3>1. Len(conf) \in Nat /\ (Len(conf) > 0 => conf[Len(conf)] \in Confs)
      BY <1>0
    <3> QED BY <3>1 DEF InitZone, Reuses, Cycle, Confs
  <2>3. (IF q = "dirty" THEN "made" ELSE q) \in {"made", "null", "crash", "destroyed"}
    BY DEF Outcomes
  <2> QED BY <2>1, <2>2, <2>3 DEF Confs
<1>2. conf' = Append(conf, new)
  OBVIOUS
<1> HIDE DEF new
<1>3. /\ conf' \in Seq(Confs)
      /\ Len(conf') = Len(conf) + 1 /\ Len(conf) \in Nat
      /\ \A c \in 1..Len(conf) : conf'[c] = conf[c]
  BY <1>0, <1>1, <1>2
<1>4. pending' \in Seq(Roles) /\ Len(pending') = notify_num
  BY NotifyNum DEF Roles
<1>5. TypeOK'
  <2>1. faults' \in Nat
    BY DEF TypeOK, Fault
  <2>2. master' \in {"run", "quit", "exited", "dead"}
    OBVIOUS
  <2> QED BY <1>3, <1>4, <2>1, <2>2 DEF TypeOK
<1>6. TableInv'
  BY <1>3 DEF TableInv, TypeOK
<1>7. ProcessInv'
  <2>1. \A s \in Slots : pc[s] = "up" => conf'[table[s].cycle].queue = "made"
    BY <1>3 DEF ProcessInv, TableInv, TypeOK
  <2> QED BY <2>1 DEF ProcessInv
<1>8. FirstInv'
  BY <1>3, <1>4, NotifyNum DEF FirstInv, TypeOK, Fault
<1> QED BY <1>5, <1>6, <1>7, <1>8

LEMMA ExitInv == ASSUME Inv, MasterExit PROVE Inv'
<1> USE DEF MasterExit, Inv
<1>0. conf \in Seq(Confs)
  BY DEF TypeOK
<1>1. /\ conf' \in Seq(Confs)
      /\ Len(conf') = Len(conf)
  <2>1. CASE Cycle > 0 /\ conf[Cycle].queue = "made"
    <3>1. Len(conf) \in 1..Len(conf) /\ conf[Len(conf)] \in Confs
      BY <1>0, <2>1 DEF Cycle
    <3>2. [conf[Len(conf)] EXCEPT !.queue = "destroyed"] \in Confs
      BY <3>1 DEF Confs
    <3>3. conf' = [conf EXCEPT ![Len(conf)] = [conf[Len(conf)] EXCEPT !.queue = "destroyed"]]
      BY <2>1 DEF Cycle
    <3> QED BY <1>0, <3>1, <3>2, <3>3, ExceptSeq
  <2>2. CASE ~(Cycle > 0 /\ conf[Cycle].queue = "made")
    BY <1>0, <2>2
  <2> QED BY <2>1, <2>2
<1>2. TypeOK'
  <2>1. master' \in {"run", "quit", "exited", "dead"}
    OBVIOUS
  <2> QED BY <1>1, <2>1 DEF TypeOK
<1>3. TableInv'
  BY <1>1 DEF TableInv
<1>4. ProcessInv'
  <2>1. \A s \in Slots : pc[s] = "none"
    BY DEF TableInv, Taken
  <2> QED BY <2>1 DEF ProcessInv
<1>5. FirstInv'
  BY <1>1 DEF FirstInv
<1> QED BY <1>2, <1>3, <1>4, <1>5

LEMMA SpawnInv == ASSUME Inv, NEW s \in Slots, Spawn(s) PROVE Inv'
<1> USE DEF Spawn, Fork, Inv
<1>0. /\ pending \in Seq(Roles) /\ pending # <<>>
      /\ Head(pending) \in Roles /\ Tail(pending) \in Seq(Roles)
      /\ Len(Tail(pending)) = Len(pending) - 1 /\ Len(pending) \in Nat
  BY DEF TypeOK
<1>1. last \in Nat /\ s \in Nat /\ s <= last /\ table[s] = None /\ last \in 0..MaxProcesses
  BY BoundAssumption DEF TypeOK, FirstFree, Taken, Slots
<1>2. Len(conf) \in Nat /\ Len(conf) # 0
  <2>1. Len(conf) \in Nat
    BY DEF TypeOK
  <2>2. CASE Len(conf) = 0
    <3>1. pending = <<>>
      BY <2>2 DEF FirstInv
    <3> QED BY <3>1
  <2> QED BY <2>1, <2>2
<1> DEFINE new == [cycle |-> Cycle, role |-> Head(pending), seen |-> last]
<1>3. new \in Procs /\ new # None /\ new.cycle = Len(conf) /\ new.seen = last
  <2>1. new \in Procs
    BY <1>0, <1>1, <1>2 DEF Cycle, Procs
  <2> QED BY <2>1, NoneAssumption DEF Cycle
<1>4. /\ table' = [table EXCEPT ![s] = new]
      /\ pc' = [pc EXCEPT ![s] = "init"]
      /\ notify' = [notify EXCEPT ![s] = None]
  OBVIOUS
<1> HIDE DEF new
<1>5. TypeOK'
  <2>1. last' \in 0..MaxProcesses
    BY <1>1, BoundAssumption DEF Slots
  <2> QED BY <1>0, <1>3, <1>4, <2>1 DEF TypeOK, States
<1>6. TableInv'
  <2>1. \A x \in Slots : x >= last' => table'[x] = None
    BY <1>1, <1>4 DEF TableInv, TypeOK, Slots
  <2>2. \A x \in Slots : table'[x] = None <=> pc'[x] = "none"
    BY <1>3, <1>4 DEF TableInv, TypeOK
  <2> QED BY <1>2, <1>3, <1>4, <2>1, <2>2 DEF TableInv, TypeOK
<1>7. ProcessInv'
  BY <1>1, <1>3, <1>4 DEF ProcessInv, TypeOK
<1>8. FirstInv'
  <2>1. CASE Len(conf) = 1
    <3>1. last' + Len(pending') <= notify_num
      BY <1>0, <1>1, <2>1, NotifyNum DEF FirstInv, FirstFree
    <3> QED BY <3>1, <2>1 DEF FirstInv
  <2> QED BY <1>2, <2>1 DEF FirstInv
<1> QED BY <1>5, <1>6, <1>7, <1>8

LEMMA RespawnInv == ASSUME Inv, NEW s \in Slots, Respawn(s) PROVE Inv'
<1> USE DEF Respawn, Fork, Inv
<1>1. /\ table[s] # None /\ table[s] \in Procs
      /\ last \in Nat /\ s \in Nat /\ s < last
  BY BoundAssumption DEF TypeOK, TableInv, Slots
<1> DEFINE new == [cycle |-> table[s].cycle, role |-> table[s].role, seen |-> last]
<1>2. new \in Procs /\ new # None /\ new.cycle = table[s].cycle /\ new.seen = last
  <2>1. new \in Procs
    BY <1>1 DEF Procs
  <2> QED BY <2>1, NoneAssumption
<1>3. /\ table' = [table EXCEPT ![s] = new]
      /\ pc' = [pc EXCEPT ![s] = "init"]
      /\ notify' = [notify EXCEPT ![s] = None]
  OBVIOUS
<1> HIDE DEF new
<1>4. TypeOK'
  BY <1>2, <1>3 DEF TypeOK, States
<1>5. TableInv'
  BY <1>1, <1>2, <1>3 DEF TableInv, TypeOK
<1>6. ProcessInv'
  BY <1>1, <1>2, <1>3 DEF ProcessInv, TypeOK
<1>7. FirstInv'
  BY DEF FirstInv
<1> QED BY <1>4, <1>5, <1>6, <1>7

LEMMA ReapInv == ASSUME Inv, NEW s \in Slots, Reap(s) PROVE Inv'
<1> USE DEF Reap, Inv
<1>1. /\ last \in Nat /\ s \in Nat /\ last \in 0..MaxProcesses /\ Len(pending) \in Nat
      /\ s < last /\ Len(conf) # 0
  <2>1. last \in Nat /\ s \in Nat /\ last \in 0..MaxProcesses /\ Len(pending) \in Nat
    BY BoundAssumption DEF TypeOK, Slots
  <2>2. table[s] # None
    BY DEF TableInv
  <2> QED BY <2>1, <2>2 DEF TableInv, TypeOK, FirstInv
<1>2. TypeOK'
  <2>1. last' \in 0..MaxProcesses
    BY <1>1, BoundAssumption
  <2> QED BY <2>1 DEF TypeOK, States
<1>3. TableInv'
  BY <1>1 DEF TableInv, TypeOK, Slots
<1>4. ProcessInv'
  BY DEF ProcessInv, TypeOK
<1>5. FirstInv'
  BY <1>1, NotifyNum DEF FirstInv
<1> QED BY <1>2, <1>3, <1>4, <1>5

LEMMA RegisterInv == ASSUME Inv, NEW s \in Slots, NEW added \in BOOLEAN, Register(s, added)
                     PROVE  Inv'
<1> USE DEF Register, Inv
<1>1. table[s] # None /\ s \in Nat
  BY DEF TableInv, Slots
<1>2. /\ conf' = conf /\ table' = table /\ last' = last /\ pending' = pending
      /\ \A x \in Slots \ {s} : pc'[x] = pc[x] /\ notify'[x] = notify[x]
      /\ pc' \in [Slots -> States] /\ notify' \in [Slots -> Nat \union {None}]
      /\ pc'[s] # "none" /\ notify'[s] \in {notify[s], s}
      /\ pc'[s] = "up" => notify'[s] = s /\ conf[table[s].cycle].queue = "made"
  <2>1. Failed(s) \in States \ {"none", "up"} /\ SlotOf(s) = s
    BY DEF Failed, States, SlotOf
  <2> QED BY <1>1, <2>1 DEF TypeOK, States
<1>3. TypeOK'
  BY <1>2 DEF TypeOK, Fault
<1>4. TableInv'
  BY <1>1, <1>2 DEF TableInv
<1>5. ProcessInv'
  BY <1>2 DEF ProcessInv
<1>6. FirstInv'
  BY <1>2 DEF FirstInv
<1> QED BY <1>3, <1>4, <1>5, <1>6

\* Crash, exit and stray pointers only change what has become of one process.
LEMMA EndInv == ASSUME Inv, NEW s \in Slots, NEW l \in {"dead", "wild"},
                       pc[s] # "none", pc' = [pc EXCEPT ![s] = l],
                       faults' \in Nat,
                       UNCHANGED <<conf, master, pending, last, table, exiting, notify>>
                PROVE  Inv'
<1> USE DEF Inv
<1>1. TypeOK'
  BY DEF TypeOK, States
<1>2. TableInv'
  BY DEF TableInv, TypeOK
<1>3. ProcessInv'
  BY DEF ProcessInv, TypeOK
<1>4. FirstInv'
  BY DEF FirstInv
<1> QED BY <1>1, <1>2, <1>3, <1>4

LEMMA NextInv == Inv /\ [Next]_vars => Inv'
<1> SUFFICES ASSUME Inv, [Next]_vars PROVE Inv'
  OBVIOUS
<1>1. ASSUME NEW d \in Directives \union {Unset}, NEW q \in Outcomes, MasterInit(d, q)
      PROVE  Inv'
  BY <1>1, LoadInv
<1>2. ASSUME SignalOld \/ Quit PROVE Inv'
  <2>1. TypeOK'
    BY <1>2 DEF Inv, TypeOK, SignalOld, Quit, Old
  <2> QED BY <1>2, <2>1 DEF Inv, TableInv, ProcessInv, FirstInv, SignalOld, Quit
<1>3. CASE MasterExit
  BY <1>3, ExitInv
<1>4. ASSUME NEW s \in Slots, Spawn(s) PROVE Inv'
  BY <1>4, SpawnInv
<1>5. ASSUME NEW s \in Slots, Respawn(s) PROVE Inv'
  BY <1>5, RespawnInv
<1>6. ASSUME NEW s \in Slots, Reap(s) PROVE Inv'
  BY <1>6, ReapInv
<1>7. ASSUME NEW s \in Slots, Crash(s) \/ Exit(s) \/ Stray(s) PROVE Inv'
  <2>1. faults' \in Nat
    BY <1>7 DEF Crash, Exit, Stray, Fault, Inv, TypeOK
  <2> QED BY <1>7, <2>1, EndInv DEF Crash, Exit, Stray, Live
<1>8. ASSUME NEW s \in Slots, NEW added \in BOOLEAN, Register(s, added) PROVE Inv'
  BY <1>8, RegisterInv
<1>9. CASE UNCHANGED vars
  BY <1>9 DEF vars, Inv, TypeOK, TableInv, ProcessInv, FirstInv
<1> QED BY <1>1, <1>2, <1>3, <1>4, <1>5, <1>6, <1>7, <1>8, <1>9 DEF Next

\* The inductive invariant of the process table and the registrations.
THEOREM SlotsInv == Spec => []Inv
<1>1. Init => Inv
  BY InitInv
<1>2. Inv /\ [Next]_vars => Inv'
  BY NextInv
<1> QED BY <1>1, <1>2, PTL DEF Spec

\* The state of RpcSlots keeps its types: ngx_last_process stays within the
\* process table, and every entry of notify is an index or NULL.
THEOREM SlotsTypeOK == Spec => []TypeOK
<1>1. Inv => TypeOK
  BY DEF Inv
<1> QED BY <1>1, SlotsInv, PTL

\* ngx_rpc_notify_register refuses no process that nginx starts, because a new
\* slot is never above the ngx_last_process that its process has seen.
THEOREM SlotsNeverRefused == Spec => []NeverRefused
<1>1. Inv => NeverRefused
  BY DEF Inv, TableInv, ProcessInv, NeverRefused, InRange, Slots
<1> QED BY <1>1, SlotsInv, PTL

\* Each registered process has the notify object of its own slot, so that two
\* of one configuration never share one.
THEOREM SlotsOneOwner == Spec => []OneOwner
<1>1. Inv => OneOwner
  BY DEF Inv, ProcessInv, OneOwner
<1> QED BY <1>1, SlotsInv, PTL

\* With any numbers of workers and consumers and any crashes, notify_slot is
\* long enough until the first reload.
THEOREM SlotsFirstCycle == Spec => []FirstCycleInRange
<1>1. Inv => FirstCycleInRange
  <2> SUFFICES ASSUME Inv, Cycle = 1, NEW s \in Slots, notify[s] # None
               PROVE  notify[s] < notify_num
    BY DEF FirstCycleInRange
  <2>1. table[s] # None /\ notify[s] = s
    BY DEF Inv, TableInv, ProcessInv
  <2>2. s < last /\ last \in Nat /\ s \in Nat /\ Len(pending) \in Nat
    BY <2>1, BoundAssumption DEF Inv, TableInv, TypeOK, Slots
  <2> QED BY <2>1, <2>2, NotifyNum DEF Inv, FirstInv, Cycle
<1> QED BY <1>1, SlotsInv, PTL

\* ngx_rpc_queue_destory never frees notify objects that a process uses, in
\* whatever order the processes of the configurations end.
THEOREM SlotsDestroyedUnused == Spec => []DestroyedUnused
<1>1. Inv => DestroyedUnused
  BY DEF Inv, ProcessInv, DestroyedUnused
<1> QED BY <1>1, SlotsInv, PTL
=============================================================================
