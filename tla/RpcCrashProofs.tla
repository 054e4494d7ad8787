--------------------------- MODULE RpcCrashProofs ---------------------------
(***************************************************************************)
(* The processes of RpcCrash, with their tasks and locks, are processes of *)
(* RpcSlots: what is proved of the table holds under traffic.  The tasks   *)
(* themselves are neither repeated nor dropped, whichever processes die.   *)
(***************************************************************************)
EXTENDS RpcCrash, RpcSlotsProofs, FiniteSetTheorems

LEMMA NextAllNext == NextAll => [Next]_vars
<1> SUFFICES ASSUME NextAll PROVE [Next]_vars
  OBVIOUS
<1>1. ASSUME NEW d \in Directives \union {Unset}, NEW q \in Outcomes, MakeQueue(d, q)
      PROVE  Next
  BY <1>1 DEF MakeQueue, Next
<1>2. ASSUME MasterLoop PROVE Next
  BY <1>2 DEF MasterLoop, Next
<1>3. ASSUME Quit PROVE Next
  BY <1>3 DEF Next
<1>4. ASSUME NEW s \in Slots, CrashNow(s) PROVE Next
  BY <1>4 DEF CrashNow, Next
<1>5. ASSUME NEW s \in Slots, RegisterNow(s) PROVE Next
  BY <1>5 DEF RegisterNow, Next
<1>6. ASSUME NEW s \in Slots, ExitNow(s) PROVE Next
  BY <1>6 DEF ExitNow, Next
<1>7. ASSUME NEW s \in Slots, Step(s) PROVE Next \/ UNCHANGED vars
  BY <1>7 DEF Step, RunStale, Next
<1> QED BY <1>1, <1>2, <1>3, <1>4, <1>5, <1>6, <1>7 DEF NextAll

\* Requests, tasks and locks do not disturb how processes get and give back
\* their slots: every behaviour with traffic is one of RpcSlots.
THEOREM CrashImplementsSlots == SpecAll => Spec
<1>1. InitAll => Init
  BY DEF InitAll
<1>2. [NextAll]_allVars => [Next]_vars
  BY NextAllNext DEF allVars, vars
<1> QED BY <1>1, <1>2, PTL DEF SpecAll, Spec

\* Under traffic two processes never pop from one notify object, none reads
\* past notify_slot before a reload, and none uses a destroyed queue.
THEOREM CrashSafe == SpecAll => [](OneOwner /\ FirstCycleInRange /\ DestroyedUnused)
  BY CrashImplementsSlots, SlotsOneOwner, SlotsFirstCycle, SlotsDestroyedUnused, PTL
-----------------------------------------------------------------------------
(* The traffic itself *)

Idle == {"idle", "pop", "popping", "insert", "link"}
Pushing == {"push", "pushing", "signal"}
Busy == {"dispatch", "take", "run", "hung"} \union Pushing

TrafficTypeOK ==
    /\ started \in [Cycles -> SUBSET (0..(notify_num - 1))]
    /\ queue \in [Objects -> Seq(Tasks)]
    /\ at \in [Slots -> Idle \union Busy]
    /\ hand \in [Slots -> Tasks \union {None}]
    /\ to \in [Slots -> Objects \union {None}]
    /\ status \in [Tasks -> {"new", "open", "answered", "refused", "lost", "gone"}]
    /\ done \in [Tasks -> Objects \union {None}]

\* The notify object of a process that is up exists.
RangeInv == /\ Len(conf) <= MaxCycles
            /\ \A s \in Slots : pc[s] = "up" => s < notify_num

\* A process has a task only where it works on one, and knows where to push it;
\* a task that has come knows the notify object of its worker.
HandsInv == /\ \A s \in Slots : /\ hand[s] # None <=> at[s] \in Busy
                                /\ at[s] \in Pushing => to[s] \in Objects
            /\ \A t \in Tasks : status[t] # "new" => done[t] \in Objects

\* At "signal" the task is no longer the process's own.
Holds(s, t) == hand[s] = t /\ at[s] # "signal"

\* No task is in two places, whatever has become of its worker ...
ApartInv ==
    /\ \A o, q \in Objects : \A i \in DOMAIN queue[o], j \in DOMAIN queue[q] :
           queue[o][i] = queue[q][j] => o = q /\ i = j
    /\ \A o \in Objects, s \in Slots : \A i \in DOMAIN queue[o] : ~Holds(s, queue[o][i])
    /\ \A s, r \in Slots : \A t \in Tasks : Holds(s, t) /\ Holds(r, t) => s = r

\* ... none is anywhere before its request has come, and one whose request
\* waits for its answer is somewhere.
Queued(t) == \E o \in Objects : \E i \in DOMAIN queue[o] : queue[o][i] = t
Held(t) == \E s \in Slots : Holds(s, t)
PlaceInv ==
    \A t \in Tasks : /\ Queued(t) \/ Held(t) => status[t] # "new"
                     /\ status[t] = "open" => Queued(t) \/ Held(t)

TrafficInv == /\ Inv /\ RangeInv /\ TrafficTypeOK /\ HandsInv /\ ApartInv /\ PlaceInv

LEMMA AppendFacts ==
    ASSUME NEW q \in Seq(Tasks), NEW x \in Tasks
    PROVE  /\ Append(q, x) \in Seq(Tasks)
           /\ \A i \in DOMAIN q : i \in DOMAIN Append(q, x) /\ Append(q, x)[i] = q[i]
           /\ \E i \in DOMAIN Append(q, x) : Append(q, x)[i] = x
           /\ \A i \in DOMAIN Append(q, x) :
                  i \in DOMAIN q \/ (i = Len(q) + 1 /\ Append(q, x)[i] = x)
<1>1. /\ Append(q, x) \in Seq(Tasks)
      /\ DOMAIN q = 1..Len(q) /\ Len(q) \in Nat
      /\ DOMAIN Append(q, x) = 1..(Len(q) + 1)
      /\ \A i \in 1..Len(q) : Append(q, x)[i] = q[i]
      /\ Append(q, x)[Len(q) + 1] = x
  OBVIOUS
<1> QED BY <1>1

LEMMA TailFacts ==
    ASSUME NEW q \in Seq(Tasks), q # <<>>
    PROVE  /\ Tail(q) \in Seq(Tasks)
           /\ 1 \in DOMAIN q /\ Head(q) = q[1] /\ q[1] \in Tasks
           /\ \A i \in DOMAIN Tail(q) : /\ i \in Int /\ i + 1 # 1
                                        /\ i + 1 \in DOMAIN q
                                        /\ Tail(q)[i] = q[i + 1]
           /\ \A i \in DOMAIN q :
                  i = 1 \/ \E j \in DOMAIN Tail(q) : Tail(q)[j] = q[i]
<1>1. /\ Tail(q) \in Seq(Tasks) /\ Head(q) = q[1]
      /\ Len(q) \in Nat /\ Len(q) # 0
      /\ DOMAIN q = 1..Len(q) /\ DOMAIN Tail(q) = 1..(Len(q) - 1)
      /\ \A i \in 1..(Len(q) - 1) : Tail(q)[i] = q[i + 1]
      /\ \A i \in 1..Len(q) : q[i] \in Tasks
  OBVIOUS
<1>2. ASSUME NEW i \in DOMAIN q, i # 1
      PROVE  \E j \in DOMAIN Tail(q) : Tail(q)[j] = q[i]
  <2>1. i - 1 \in DOMAIN Tail(q) /\ (i - 1) + 1 = i
    BY <1>1, <1>2
  <2> QED BY <1>1, <2>1
<1> QED BY <1>1, <1>2

LEMMA TaskNone == \A t \in Tasks : t # None
  BY NoneAssumption, TrafficAssumption DEF Tasks
-----------------------------------------------------------------------------
LEMMA InitTrafficInv == InitAll => TrafficInv
<1> SUFFICES ASSUME InitAll PROVE TrafficInv
  OBVIOUS
<1> USE DEF InitAll, InitTraffic
<1>1. Inv
  BY InitInv
<1>2. RangeInv
  BY BoundAssumption DEF Init, RangeInv
<1>3. TrafficTypeOK
  BY DEF TrafficTypeOK, Idle
<1>4. HandsInv
  BY DEF HandsInv, Busy, Pushing
<1>5. \A s \in Slots, t \in Tasks : ~Holds(s, t)
  BY TaskNone DEF Holds
<1>6. \A o \in Objects : DOMAIN queue[o] = {}
  OBVIOUS
<1>7. ApartInv
  BY <1>5, <1>6 DEF ApartInv
<1>8. PlaceInv
  BY <1>5, <1>6 DEF PlaceInv, Queued, Held
<1> QED BY <1>1, <1>2, <1>3, <1>4, <1>7, <1>8 DEF TrafficInv

LEMMA NextRangeInv == Inv /\ RangeInv /\ [Next]_vars => RangeInv'
<1> SUFFICES ASSUME Inv, RangeInv, [Next]_vars PROVE RangeInv'
  OBVIOUS
<1> USE DEF RangeInv
<1>0. conf \in Seq(Confs) /\ Len(conf) \in Nat /\ pc \in [Slots -> States]
  BY DEF Inv, TypeOK
<1>1. ASSUME NEW d \in Directives \union {Unset}, NEW q \in Outcomes, MasterInit(d, q)
      PROVE  RangeInv'
  <2>1. Len(conf) < MaxCycles /\ pc' = pc
    BY <1>1 DEF MasterInit, Load, Cycle
  <2>2. Len(conf') = Len(conf) + 1
    BY <1>0, <1>1 DEF MasterInit, Load
  <2> QED BY <1>0, <2>1, <2>2, BoundAssumption
<1>2. ASSUME SignalOld \/ Quit PROVE RangeInv'
  BY <1>2 DEF SignalOld, Quit
<1>3. ASSUME MasterExit PROVE RangeInv'
  <2>1. Len(conf') = Len(conf)
    BY <1>0, <1>3 DEF MasterExit, Cycle
  <2> QED BY <1>3, <2>1 DEF MasterExit
<1>4. ASSUME NEW s \in Slots, Spawn(s) \/ Respawn(s) \/ Reap(s) \/ Crash(s) \/ Exit(s) \/ Stray(s)
      PROVE  RangeInv'
  BY <1>0, <1>4 DEF Spawn, Respawn, Fork, Reap, Crash, Exit, Stray
<1>5. ASSUME NEW s \in Slots, NEW added \in BOOLEAN, Register(s, added) PROVE RangeInv'
  <2>1. \A r \in Slots : pc'[r] = "up" => pc[r] = "up" \/ (r = s /\ ~(SlotOf(s) >= notify_num))
    BY <1>0, <1>5 DEF Register, Failed
  <2>2. s \in Int /\ notify_num \in Int
    BY NotifyNum, BoundAssumption DEF Slots
  <2> QED BY <1>5, <2>1, <2>2 DEF Register, SlotOf
<1>6. ASSUME UNCHANGED vars PROVE RangeInv'
  BY <1>6 DEF vars
<1> QED BY <1>1, <1>2, <1>3, <1>4, <1>5, <1>6 DEF Next

\* The notify object of a process that is up.
LEMMA OwnObject ==
    ASSUME TrafficInv, NEW s \in Slots, pc[s] = "up"
    PROVE  /\ Own(s) \in Objects /\ CycleOf(s) \in Cycles
           /\ notify[s] \in 0..(notify_num - 1)
<1> USE DEF TrafficInv, Inv
<1>1. notify[s] = s /\ s < notify_num /\ s \in Nat /\ notify_num \in Nat
  BY NotifyNum, BoundAssumption DEF ProcessInv, RangeInv, Slots
<1>2. notify[s] \in 0..(notify_num - 1)
  BY <1>1
<1>3. table[s] # None /\ table[s].cycle \in 1..Len(conf)
  BY DEF TableInv
<1>4. table[s].cycle \in Cycles
  BY <1>3, BoundAssumption DEF TypeOK, RangeInv, Cycles
<1> QED BY <1>2, <1>4 DEF Own, Objects, CycleOf

\* Process s goes on with the task it has, with one that has just come, or with
\* none; in the last case what it had is over.
LEMMA GoStep ==
    ASSUME TrafficInv, NEW s \in Slots, NEW l \in (Idle \union Busy) \ {"signal"},
           NEW x \in Tasks \union {None}, NEW o \in Objects \union {None},
           Goto(s, l, x, o), queue' = queue,
           x # None <=> l \in Busy, l \in Pushing => o \in Objects,
           x # None => Holds(s, x) \/ status[x] = "new",
           x # None => status'[x] # "new",
           started' \in [Cycles -> SUBSET (0..(notify_num - 1))],
           status' \in [Tasks -> {"new", "open", "answered", "refused", "lost", "gone"}],
           done' \in [Tasks -> Objects \union {None}],
           \A t \in Tasks : status'[t] # "new" => done'[t] \in Objects,
           \A t \in Tasks : status[t] # "new" => status'[t] # "new",
           \A t \in Tasks : status'[t] = "open" /\ t # x => status[t] = "open" /\ ~Holds(s, t)
    PROVE  TrafficTypeOK' /\ HandsInv' /\ ApartInv' /\ PlaceInv'
<1> USE DEF TrafficInv
<1>1. TrafficTypeOK'
  BY DEF TrafficTypeOK, Goto
<1>2. \A r \in Slots : /\ at'[r] = IF r = s THEN l ELSE at[r]
                       /\ hand'[r] = IF r = s THEN x ELSE hand[r]
                       /\ to'[r] = IF r = s THEN o ELSE to[r]
  BY DEF TrafficTypeOK, Goto
<1>3. HandsInv'
  BY <1>2 DEF HandsInv
<1>4. \A r \in Slots, t \in Tasks : Holds(r, t)' <=> IF r = s THEN t = x ELSE Holds(r, t)
  BY <1>2 DEF Holds
<1>5. \A q \in Objects : \A i \in DOMAIN queue[q] : queue[q][i] \in Tasks
  BY DEF TrafficTypeOK
<1>6. status[x] = "new" /\ x # None =>
        /\ \A r \in Slots : ~Holds(r, x)
        /\ \A q \in Objects : \A i \in DOMAIN queue[q] : queue[q][i] # x
  BY DEF PlaceInv, Queued, Held
<1>7. ApartInv'
  <2>1. \A q \in Objects, r \in Slots : \A i \in DOMAIN queue[q] : ~Holds(r, queue[q][i])'
    BY <1>4, <1>5, <1>6, TaskNone DEF ApartInv
  <2>2. \A r, u \in Slots : \A t \in Tasks : Holds(r, t)' /\ Holds(u, t)' => r = u
    BY <1>4, <1>6, TaskNone DEF ApartInv
  <2> QED BY <2>1, <2>2 DEF ApartInv
<1>8. PlaceInv'
  <2> SUFFICES ASSUME NEW t \in Tasks
               PROVE  /\ Queued(t)' \/ Held(t)' => status'[t] # "new"
                      /\ status'[t] = "open" => Queued(t)' \/ Held(t)'
    BY DEF PlaceInv
  <2>1. Queued(t)' <=> Queued(t)
    BY DEF Queued
  <2>2. Held(t)' => Held(t) \/ t = x
    BY <1>4 DEF Held
  <2>3. t = x => Held(t)'
    BY <1>4 DEF Held
  <2>4. t # x /\ Held(t) /\ ~Holds(s, t) => Held(t)'
    BY <1>4 DEF Held
  <2> QED BY <2>1, <2>2, <2>3, <2>4, TaskNone DEF PlaceInv
<1> QED BY <1>1, <1>3, <1>7, <1>8
-----------------------------------------------------------------------------
\* A step of the master, or one that only takes locks and events.
LEMMA StillStep ==
    ASSUME TrafficInv, UNCHANGED <<started, queue, at, hand, to, status, done>>
    PROVE  TrafficTypeOK' /\ HandsInv' /\ ApartInv' /\ PlaceInv'
<1> USE DEF TrafficInv
<1>1. TrafficTypeOK' /\ HandsInv'
  BY DEF TrafficTypeOK, HandsInv
<1>2. \A r \in Slots, t \in Tasks : Holds(r, t)' <=> Holds(r, t)
  BY DEF Holds
<1>3. \A q \in Objects : \A i \in DOMAIN queue[q] : queue[q][i] \in Tasks
  BY DEF TrafficTypeOK
<1>4. ApartInv'
  BY <1>2, <1>3 DEF ApartInv
<1>5. PlaceInv'
  BY <1>2 DEF PlaceInv, Queued, Held
<1> QED BY <1>1, <1>4, <1>5

\* What a process has where it works on a task.
LEMMA Has ==
    ASSUME TrafficInv, NEW s \in Slots, at[s] \in Busy
    PROVE  /\ hand[s] \in Tasks /\ hand[s] # None
           /\ at[s] \in Pushing => to[s] \in Objects
           /\ at[s] # "signal" => Holds(s, hand[s]) /\ status[hand[s]] # "new"
<1> USE DEF TrafficInv
<1>1. hand[s] \in Tasks /\ hand[s] # None /\ (at[s] \in Pushing => to[s] \in Objects)
  BY DEF TrafficTypeOK, HandsInv
<1>2. at[s] # "signal" => Holds(s, hand[s]) /\ Held(hand[s])
  BY DEF Holds, Held
<1>3. at[s] # "signal" => status[hand[s]] # "new"
  BY <1>1, <1>2 DEF PlaceInv
<1> QED BY <1>1, <1>2, <1>3

\* A process that has no task of its own.
LEMMA HasNone ==
    ASSUME TrafficInv, NEW s \in Slots, at[s] \in Idle \union {"signal"}
    PROVE  \A t \in Tasks : ~Holds(s, t)
<1>1. at[s] = "signal" \/ at[s] \notin Busy
  BY DEF Idle, Busy, Pushing
<1> QED BY <1>1, TaskNone DEF TrafficInv, HandsInv, Holds

\* GoStep where neither the requests nor started change.
LEMMA MoveTask ==
    ASSUME TrafficInv, NEW s \in Slots, at[s] \in Busy \ {"signal"},
           NEW l \in Busy \ {"signal"}, NEW o \in Objects \union {None},
           Goto(s, l, hand[s], o), UNCHANGED <<started, queue, status, done>>,
           l \in Pushing => o \in Objects
    PROVE  TrafficTypeOK' /\ HandsInv' /\ ApartInv' /\ PlaceInv'
<1>1. PICK x \in Tasks : x = hand[s]
  BY Has
<1>2. Holds(s, x) /\ status[x] # "new" /\ x # None
  BY <1>1, Has
<1>3. Goto(s, l, x, o)
  BY <1>1
<1>4. \A t \in Tasks : Holds(s, t) => t = x
  BY <1>1 DEF Holds
<1>5. /\ started' \in [Cycles -> SUBSET (0..(notify_num - 1))]
      /\ status' \in [Tasks -> {"new", "open", "answered", "refused", "lost", "gone"}]
      /\ done' \in [Tasks -> Objects \union {None}]
  BY DEF TrafficInv, TrafficTypeOK
<1>6. \A t \in Tasks : status'[t] # "new" => done'[t] \in Objects
  BY DEF TrafficInv, HandsInv
<1>7. \A t \in Tasks : status[t] # "new" => status'[t] # "new"
  OBVIOUS
<1>8. \A t \in Tasks : status'[t] = "open" /\ t # x => status[t] = "open" /\ ~Holds(s, t)
  BY <1>4
<1>9. x # None <=> l \in Busy
  BY <1>2
<1>a. x # None => Holds(s, x) \/ status[x] = "new"
  BY <1>2
<1>b. x # None => status'[x] # "new"
  BY <1>2
<1>c. l \in (Idle \union Busy) \ {"signal"} /\ queue' = queue
  OBVIOUS
<1> QED BY <1>3, <1>5, <1>6, <1>7, <1>8, <1>9, <1>a, <1>b, <1>c, GoStep

\* GoStep to a place where the process has no task.
LEMMA GoFree ==
    ASSUME TrafficInv, NEW s \in Slots, NEW l \in Idle, NEW o \in Objects \union {None},
           Goto(s, l, None, o), queue' = queue, done' = done,
           started' \in [Cycles -> SUBSET (0..(notify_num - 1))],
           status' \in [Tasks -> {"new", "open", "answered", "refused", "lost", "gone"}],
           \A t \in Tasks : status[t] = "new" <=> status'[t] = "new",
           \A t \in Tasks : status'[t] = "open" => status[t] = "open" /\ ~Holds(s, t)
    PROVE  TrafficTypeOK' /\ HandsInv' /\ ApartInv' /\ PlaceInv'
<1>1. PICK x \in Tasks \union {None} : x = None
  OBVIOUS
<1>3. Goto(s, l, x, o)
  BY <1>1
<1>4. l \in (Idle \union Busy) \ {"signal"} /\ l \notin Busy /\ l \notin Pushing
  BY DEF Idle, Busy, Pushing
<1>5. done' \in [Tasks -> Objects \union {None}]
  BY DEF TrafficInv, TrafficTypeOK
<1>6. \A t \in Tasks : status'[t] # "new" => done'[t] \in Objects
  BY DEF TrafficInv, HandsInv
<1>7. \A t \in Tasks : status[t] # "new" => status'[t] # "new"
  OBVIOUS
<1>8. \A t \in Tasks : status'[t] = "open" /\ t # x => status[t] = "open" /\ ~Holds(s, t)
  OBVIOUS
<1>9. /\ x # None <=> l \in Busy
      /\ l \in Pushing => o \in Objects
  BY <1>1, <1>4
<1>a. x # None => Holds(s, x) \/ status[x] = "new"
  BY <1>1
<1>b. x # None => status'[x] # "new"
  BY <1>1
<1> QED BY <1>3, <1>4, <1>5, <1>6, <1>7, <1>8, <1>9, <1>a, <1>b, GoStep
-----------------------------------------------------------------------------
LEMMA StatusSame ==
    ASSUME TrafficInv
    PROVE  /\ started \in [Cycles -> SUBSET (0..(notify_num - 1))]
           /\ status \in [Tasks -> {"new", "open", "answered", "refused", "lost", "gone"}]
  BY DEF TrafficInv, TrafficTypeOK

LEMMA RequestTraffic ==
    ASSUME TrafficInv, NEW s \in Slots, NEW t \in Tasks, Request(s, t)
    PROVE  TrafficTypeOK' /\ HandsInv' /\ ApartInv' /\ PlaceInv'
<1> USE DEF Request, Runs
<1>1. PICK own \in Objects : own = Own(s)
  BY OwnObject
<1>2. PICK o \in Objects \union {None} : o = None
  OBVIOUS
<1>3. PICK l \in {"dispatch"} : l = "dispatch"
  OBVIOUS
<1>4. Goto(s, l, t, o)
  BY <1>2, <1>3
<1>5. /\ status' = [status EXCEPT ![t] = "open"]
      /\ done' = [done EXCEPT ![t] = own]
      /\ status[t] = "new" /\ started' = started /\ queue' = queue
  BY <1>1 DEF shared
<1>6. /\ status \in [Tasks -> {"new", "open", "answered", "refused", "lost", "gone"}]
      /\ done \in [Tasks -> Objects \union {None}]
      /\ started \in [Cycles -> SUBSET (0..(notify_num - 1))]
      /\ \A u \in Tasks : status[u] # "new" => done[u] \in Objects
  BY DEF TrafficInv, TrafficTypeOK, HandsInv
<1>7. /\ status' \in [Tasks -> {"new", "open", "answered", "refused", "lost", "gone"}]
      /\ done' \in [Tasks -> Objects \union {None}]
      /\ started' \in [Cycles -> SUBSET (0..(notify_num - 1))]
  BY <1>5, <1>6
<1>8. \A u \in Tasks : status'[u] # "new" => done'[u] \in Objects
  BY <1>5, <1>6
<1>9. \A u \in Tasks : status[u] # "new" => status'[u] # "new"
  BY <1>5, <1>6
<1>a. \A u \in Tasks : ~Holds(s, u)
  BY HasNone DEF Idle
<1>b. \A u \in Tasks : status'[u] = "open" /\ u # t => status[u] = "open" /\ ~Holds(s, u)
  BY <1>5, <1>6, <1>a
<1>c. status'[t] = "open" /\ t # None
  BY <1>5, <1>6, TaskNone
<1>d. l \in (Idle \union Busy) \ {"signal"} /\ l \in Busy /\ l \notin Pushing
  BY <1>3 DEF Busy, Pushing
<1>e. t # None <=> l \in Busy
  BY <1>c, <1>d
<1>f. t # None => Holds(s, t) \/ status[t] = "new"
  BY <1>5
<1>g. t # None => status'[t] # "new"
  BY <1>c
<1>h. queue' = queue /\ (l \in Pushing => o \in Objects)
  BY <1>5, <1>d
<1> HIDE DEF Request
<1> QED BY <1>4, <1>7, <1>8, <1>9, <1>b, <1>d, <1>e, <1>f, <1>g, <1>h, GoStep

LEMMA LockIdlesTraffic ==
    ASSUME TrafficInv, NEW s \in Slots, DispatchLock(s) \/ IdleLock(s)
    PROVE  TrafficTypeOK' /\ HandsInv' /\ ApartInv' /\ PlaceInv'
<1>0. to[s] \in Objects \union {None}
  BY DEF TrafficInv, TrafficTypeOK
<1>1. CASE DispatchLock(s)
  <2> PICK l \in {"take"} : l = "take"
    OBVIOUS
  <2>1. at[s] \in Busy \ {"signal"} /\ l \in Busy \ {"signal"} /\ l \notin Pushing
    BY <1>1 DEF DispatchLock, LockIdles, Runs, Busy, Pushing
  <2>2. Goto(s, l, hand[s], to[s]) /\ UNCHANGED <<started, queue, status, done>>
    BY <1>1 DEF DispatchLock, LockIdles, requests
  <2> QED BY <1>0, <2>1, <2>2, MoveTask
<1>2. CASE IdleLock(s)
  <2>1. at[s] \in Idle /\ Goto(s, "link", hand[s], to[s]) /\ UNCHANGED <<started, queue, status, done>>
    BY <1>2 DEF IdleLock, LockIdles, Runs, requests, Idle
  <2>2. "link" \in Idle
    BY DEF Idle
  <2>3. hand[s] = None /\ (\A t \in Tasks : ~Holds(s, t))
    BY <2>1, HasNone DEF TrafficInv, HandsInv, Busy, Pushing, Idle
  <2>4. PICK o \in Objects \union {None} : o = to[s]
    BY <1>0
  <2>5. Goto(s, "link", None, o)
    BY <2>1, <2>3, <2>4
  <2> QED BY <2>1, <2>2, <2>3, <2>5, StatusSame, GoFree
<1> QED BY <1>1, <1>2

LEMMA TakeTraffic ==
    ASSUME TrafficInv, NEW s \in Slots, Take(s)
    PROVE  TrafficTypeOK' /\ HandsInv' /\ ApartInv' /\ PlaceInv'
<1>0. /\ at[s] = "take" /\ pc[s] = "up"
      /\ UNCHANGED <<started, queue, done>>
  BY DEF Take, Runs
<1>1. at[s] \in Busy \ {"signal"}
  BY <1>0 DEF Busy
<1>2. ASSUME NEW i \in started[CycleOf(s)], UNCHANGED status,
             Goto(s, "push", hand[s], <<CycleOf(s), i>>)
      PROVE  TrafficTypeOK' /\ HandsInv' /\ ApartInv' /\ PlaceInv'
  <2>1. CycleOf(s) \in Cycles
    BY <1>0, OwnObject
  <2>2. i \in 0..(notify_num - 1)
    BY <2>1, StatusSame
  <2>3. PICK o \in Objects : o = <<CycleOf(s), i>>
    BY <2>1, <2>2 DEF Objects
  <2>4. PICK l \in {"push"} : l = "push"
    OBVIOUS
  <2>5. Goto(s, l, hand[s], o) /\ l \in Busy \ {"signal"}
    BY <1>2, <2>3, <2>4 DEF Busy, Pushing
  <2> QED BY <1>0, <1>1, <1>2, <2>5, MoveTask
<1>3. ASSUME status' = [status EXCEPT ![hand[s]] = "refused"], Goto(s, "idle", None, None)
      PROVE  TrafficTypeOK' /\ HandsInv' /\ ApartInv' /\ PlaceInv'
  <2>1. hand[s] \in Tasks /\ status[hand[s]] # "new"
    BY <1>1, Has
  <2>2. /\ status' \in [Tasks -> {"new", "open", "answered", "refused", "lost", "gone"}]
        /\ started' \in [Cycles -> SUBSET (0..(notify_num - 1))]
    BY <1>0, <1>3, StatusSame
  <2>3. \A t \in Tasks : status'[t] = IF t = hand[s] THEN "refused" ELSE status[t]
    BY <1>3, StatusSame
  <2>4. \A t \in Tasks : Holds(s, t) => t = hand[s]
    BY DEF Holds
  <2>5. \A t \in Tasks : status[t] = "new" <=> status'[t] = "new"
    BY <2>1, <2>3
  <2>6. \A t \in Tasks : status'[t] = "open" => status[t] = "open" /\ ~Holds(s, t)
    BY <2>3, <2>4
  <2>7. "idle" \in Idle
    BY DEF Idle
  <2> QED BY <1>0, <1>3, <2>2, <2>5, <2>6, <2>7, GoFree
<1> QED BY <1>2, <1>3 DEF Take

LEMMA IdleInsertTraffic ==
    ASSUME TrafficInv, NEW s \in Slots, IdleInsert(s)
    PROVE  TrafficTypeOK' /\ HandsInv' /\ ApartInv' /\ PlaceInv'
<1>0. /\ at[s] = "link" /\ pc[s] = "up"
      /\ started' = [started EXCEPT ![CycleOf(s)] = @ \union {notify[s]}]
      /\ Goto(s, "idle", None, None) /\ UNCHANGED <<queue, status, done>>
  BY DEF IdleInsert, Runs, requests
<1>1. CycleOf(s) \in Cycles /\ notify[s] \in 0..(notify_num - 1)
  BY <1>0, OwnObject
<1>2. /\ started' \in [Cycles -> SUBSET (0..(notify_num - 1))]
      /\ status' \in [Tasks -> {"new", "open", "answered", "refused", "lost", "gone"}]
  BY <1>0, <1>1, StatusSame
<1>3. at[s] \in Idle \union {"signal"} /\ "idle" \in Idle
  BY <1>0 DEF Idle
<1>4. \A t \in Tasks : status'[t] = "open" => status[t] = "open" /\ ~Holds(s, t)
  BY <1>0, <1>3, HasNone
<1>5. \A t \in Tasks : status[t] = "new" <=> status'[t] = "new"
  BY <1>0
<1> QED BY <1>0, <1>2, <1>3, <1>4, <1>5, GoFree

LEMMA LockQueueTraffic ==
    ASSUME TrafficInv, NEW s \in Slots, PushLock(s) \/ PopLock(s)
    PROVE  TrafficTypeOK' /\ HandsInv' /\ ApartInv' /\ PlaceInv'
<1>0. to[s] \in Objects \union {None}
  BY DEF TrafficInv, TrafficTypeOK
<1>1. CASE PushLock(s)
  <2> PICK l \in {"pushing"} : l = "pushing"
    OBVIOUS
  <2>1. at[s] \in Busy \ {"signal"} /\ at[s] \in Pushing /\ l \in Busy \ {"signal"}
    BY <1>1 DEF PushLock, LockQueue, Runs, Busy, Pushing
  <2>2. Goto(s, l, hand[s], to[s]) /\ UNCHANGED <<started, queue, status, done>>
    BY <1>1 DEF PushLock, LockQueue, requests
  <2>3. to[s] \in Objects
    BY <2>1, Has
  <2> QED BY <1>0, <2>1, <2>2, <2>3, MoveTask
<1>2. CASE PopLock(s)
  <2>1. at[s] \in Idle /\ Goto(s, "popping", hand[s], to[s]) /\ UNCHANGED <<started, queue, status, done>>
    BY <1>2 DEF PopLock, LockQueue, Runs, requests, Idle
  <2>2. "popping" \in Idle
    BY DEF Idle
  <2>3. hand[s] = None /\ (\A t \in Tasks : ~Holds(s, t))
    BY <2>1, HasNone DEF TrafficInv, HandsInv, Busy, Pushing, Idle
  <2>4. PICK o \in Objects \union {None} : o = to[s]
    BY <1>0
  <2>5. Goto(s, "popping", None, o)
    BY <2>1, <2>3, <2>4
  <2> QED BY <2>1, <2>2, <2>3, <2>5, StatusSame, GoFree
<1> QED BY <1>1, <1>2

\* A process that has no task, or none of its own any more, goes on without one.
LEMMA FreeTraffic ==
    ASSUME TrafficInv, NEW s \in Slots, at[s] \in Idle \union {"signal"}, NEW l \in Idle,
           Goto(s, l, None, None), UNCHANGED <<started, queue, status, done>>
    PROVE  TrafficTypeOK' /\ HandsInv' /\ ApartInv' /\ PlaceInv'
<1>1. PICK o \in Objects \union {None} : o = None
  OBVIOUS
<1>2. Goto(s, l, None, o) /\ (\A t \in Tasks : ~Holds(s, t))
  BY <1>1, HasNone
<1> QED BY <1>2, StatusSame, GoFree

LEMMA SignalTraffic ==
    ASSUME TrafficInv, NEW s \in Slots, Signal(s) \/ Wake(s)
    PROVE  TrafficTypeOK' /\ HandsInv' /\ ApartInv' /\ PlaceInv'
<1>1. PICK l \in {"idle", "pop"} : Goto(s, l, None, None)
  BY DEF Signal, Wake
<1>2. at[s] \in Idle \union {"signal"} /\ l \in Idle
  BY DEF Signal, Wake, Runs, Idle
<1>3. UNCHANGED <<started, queue, status, done>>
  BY DEF Signal, Wake, requests
<1> QED BY <1>1, <1>2, <1>3, FreeTraffic

LEMMA RunMethodTraffic ==
    ASSUME TrafficInv, NEW s \in Slots, RunMethod(s)
    PROVE  TrafficTypeOK' /\ HandsInv' /\ ApartInv' /\ PlaceInv'
<1>1. at[s] \in Busy \ {"signal"} /\ UNCHANGED <<started, queue, status, done>>
  BY DEF RunMethod, Runs, Busy, shared, requests
<1>2. hand[s] \in Tasks /\ status[hand[s]] # "new"
  BY <1>1, Has
<1>3. PICK o \in Objects : o = done[hand[s]]
  BY <1>2 DEF TrafficInv, HandsInv
<1>4. PICK l \in {"push"} : l = "push"
  OBVIOUS
<1>5. Goto(s, l, hand[s], o) /\ l \in Busy \ {"signal"}
  BY <1>3, <1>4 DEF RunMethod, Busy, Pushing
<1> QED BY <1>1, <1>5, MoveTask

\* A consumer that parses for ever keeps its task.
LEMMA SpinTraffic ==
    ASSUME TrafficInv, NEW s \in Slots, Spin(s)
    PROVE  TrafficTypeOK' /\ HandsInv' /\ ApartInv' /\ PlaceInv'
<1>1. at[s] \in Busy \ {"signal"} /\ UNCHANGED <<started, queue, status, done>>
  BY DEF Spin, Runs, Busy, shared, requests
<1>2. PICK o \in Objects \union {None} : o = None
  OBVIOUS
<1>3. PICK l \in {"hung"} : l = "hung"
  OBVIOUS
<1>4. Goto(s, l, hand[s], o) /\ l \in Busy \ {"signal"} /\ l \notin Pushing
  BY <1>2, <1>3 DEF Spin, Busy, Pushing
<1> QED BY <1>1, <1>4, MoveTask

LEMMA FinishTraffic ==
    ASSUME TrafficInv, NEW s \in Slots, RunFinish(s) \/ RunStale(s)
    PROVE  TrafficTypeOK' /\ HandsInv' /\ ApartInv' /\ PlaceInv'
<1>1. /\ at[s] \in Busy \ {"signal"}
      /\ UNCHANGED <<started, queue, done>>
      /\ \E l \in {"idle", "pop"} : Goto(s, l, None, None)
      /\ \/ status' = [status EXCEPT ![hand[s]] = "answered"]
         \/ status' = status /\ status[hand[s]] = "gone"
  BY DEF RunFinish, RunStale, Runs, Busy, shared, requests
<1>2. PICK l \in {"idle", "pop"} : Goto(s, l, None, None)
  BY <1>1
<1>3. hand[s] \in Tasks /\ status[hand[s]] # "new"
  BY <1>1, Has
<1>4. \A t \in Tasks : Holds(s, t) => t = hand[s]
  BY DEF Holds
<1>5. /\ status' \in [Tasks -> {"new", "open", "answered", "refused", "lost", "gone"}]
      /\ started' \in [Cycles -> SUBSET (0..(notify_num - 1))]
  BY <1>1, StatusSame
<1>6. \A t \in Tasks : status[t] = "new" <=> status'[t] = "new"
  BY <1>1, <1>3, StatusSame
<1>7. \A t \in Tasks : status'[t] = "open" => status[t] = "open" /\ ~Holds(s, t)
  BY <1>1, <1>3, <1>4, StatusSame
<1>8. l \in Idle
  BY DEF Idle
<1>9. PICK o \in Objects \union {None} : o = None
  OBVIOUS
<1> QED BY <1>1, <1>2, <1>5, <1>6, <1>7, <1>8, <1>9, GoFree

\* A process dies: the task it had is lost.
LEMMA DiesTraffic ==
    ASSUME TrafficInv, NEW s \in Slots, Dies(s)
    PROVE  TrafficTypeOK' /\ HandsInv' /\ ApartInv' /\ PlaceInv'
<1>1. /\ Goto(s, "idle", None, None) /\ UNCHANGED <<started, queue, done>>
      /\ status' = [t \in Tasks |->
                      IF status[t] # "open" THEN status[t]
                      ELSE IF home[t] = s THEN "gone"
                      ELSE IF hand[s] = t /\ at[s] # "signal" THEN "lost"
                      ELSE status[t]]
  BY DEF Dies
<1>2. /\ status' \in [Tasks -> {"new", "open", "answered", "refused", "lost", "gone"}]
      /\ started' \in [Cycles -> SUBSET (0..(notify_num - 1))]
  BY <1>1, StatusSame
<1>3. \A t \in Tasks : status[t] = "new" <=> status'[t] = "new"
  BY <1>1
<1>4. \A t \in Tasks : status'[t] = "open" => status[t] = "open" /\ ~Holds(s, t)
  BY <1>1 DEF Holds
<1>5. PICK o \in Objects \union {None} : o = None
  OBVIOUS
<1>6. "idle" \in Idle
  BY DEF Idle
<1> QED BY <1>1, <1>2, <1>3, <1>4, <1>5, <1>6, GoFree

\* A process quits between two events: the requests of a worker are dropped.
LEMMA ExitTraffic ==
    ASSUME TrafficInv, NEW s \in Slots, ExitNow(s)
    PROVE  TrafficTypeOK' /\ HandsInv' /\ ApartInv' /\ PlaceInv'
<1> USE DEF TrafficInv
<1>1. /\ UNCHANGED <<started, queue, at, hand, to, done>>
      /\ status' = [t \in Tasks |->
                      IF status[t] = "open" /\ home[t] = s THEN "gone" ELSE status[t]]
  BY DEF ExitNow, shared, private
<1>2. status' \in [Tasks -> {"new", "open", "answered", "refused", "lost", "gone"}]
  BY <1>1, StatusSame
<1>3. \A t \in Tasks : /\ status[t] = "new" <=> status'[t] = "new"
                       /\ status'[t] = "open" => status[t] = "open"
  BY <1>1
<1>4. TrafficTypeOK' /\ HandsInv'
  BY <1>1, <1>2, <1>3 DEF TrafficTypeOK, HandsInv
<1>5. \A r \in Slots, t \in Tasks : Holds(r, t)' <=> Holds(r, t)
  BY <1>1 DEF Holds
<1>6. \A q \in Objects : \A i \in DOMAIN queue[q] : queue[q][i] \in Tasks
  BY DEF TrafficTypeOK
<1>7. ApartInv'
  BY <1>1, <1>5, <1>6 DEF ApartInv
<1>8. PlaceInv'
  BY <1>1, <1>3, <1>5 DEF PlaceInv, Queued, Held
<1> QED BY <1>4, <1>7, <1>8
-----------------------------------------------------------------------------
\* PushTail and PopHead move a task between a queue and the hands of a process.
LEMMA PushTraffic ==
    ASSUME TrafficInv, NEW s \in Slots, PushTail(s)
    PROVE  TrafficTypeOK' /\ HandsInv' /\ ApartInv' /\ PlaceInv'
<1> USE DEF TrafficInv
<1> DEFINE x == hand[s]
           o == to[s]
<1>1. /\ at[s] = "pushing" /\ at[s] \in Busy /\ at[s] \in Pushing
      /\ UNCHANGED <<started, status, done>>
  BY DEF PushTail, Runs, requests, Busy, Pushing
<1>2. x \in Tasks /\ x # None /\ o \in Objects /\ Holds(s, x) /\ status[x] # "new"
  BY <1>1, Has
<1>3. /\ queue \in [Objects -> Seq(Tasks)] /\ at \in [Slots -> Idle \union Busy]
      /\ hand \in [Slots -> Tasks \union {None}] /\ to \in [Slots -> Objects \union {None}]
  BY DEF TrafficTypeOK
<1>4. /\ queue' = [queue EXCEPT ![o] = Append(queue[o], x)]
      /\ at' = [at EXCEPT ![s] = "signal"] /\ hand' = hand /\ to' = to
  BY <1>3 DEF PushTail, Goto
<1>5. /\ queue[o] \in Seq(Tasks) /\ queue'[o] = Append(queue[o], x)
      /\ \A q \in Objects : q # o => queue'[q] = queue[q]
  BY <1>2, <1>3, <1>4
<1>6. \A r \in Slots : \A t : Holds(r, t)' <=> r # s /\ Holds(r, t)
  BY <1>3, <1>4 DEF Holds
<1>7. \A r \in Slots : Holds(r, x) => r = s
  BY <1>2 DEF ApartInv
<1>8. TrafficTypeOK'
  <2>1. Append(queue[o], x) \in Seq(Tasks)
    BY <1>2, <1>5, AppendFacts
  <2>2. queue' \in [Objects -> Seq(Tasks)]
    BY <1>2, <1>3, <1>4, <2>1
  <2> QED BY <1>1, <1>3, <1>4, <2>2 DEF TrafficTypeOK, Busy, Pushing
<1>9. HandsInv'
  BY <1>1, <1>2, <1>3, <1>4 DEF HandsInv, Busy, Pushing
<1> HIDE DEF x, o
<1>a. \A q \in Objects : \A i \in DOMAIN queue'[q] :
         \/ i \in DOMAIN queue[q] /\ queue'[q][i] = queue[q][i]
         \/ q = o /\ i = Len(queue[o]) + 1 /\ queue'[q][i] = x
  <2>1. \A i \in DOMAIN queue'[o] :
           \/ i \in DOMAIN queue[o] /\ queue'[o][i] = queue[o][i]
           \/ i = Len(queue[o]) + 1 /\ queue'[o][i] = x
    BY <1>2, <1>5, AppendFacts
  <2> QED BY <1>5, <2>1
<1>b. \A q \in Objects : \A i \in DOMAIN queue[q] :
         i \in DOMAIN queue'[q] /\ queue'[q][i] = queue[q][i]
  <2>1. \A i \in DOMAIN queue[o] : i \in DOMAIN queue'[o] /\ queue'[o][i] = queue[o][i]
    BY <1>2, <1>5, AppendFacts
  <2> QED BY <1>5, <2>1
<1>c. \E i \in DOMAIN queue'[o] : queue'[o][i] = x
  BY <1>2, <1>5, AppendFacts
<1>d. \A q \in Objects : \A i \in DOMAIN queue[q] : queue[q][i] # x
  BY <1>2 DEF ApartInv
<1>e. ApartInv'
  <2>1. \A q, r \in Objects : \A i \in DOMAIN queue'[q], j \in DOMAIN queue'[r] :
            queue'[q][i] = queue'[r][j] => q = r /\ i = j
    BY <1>a, <1>d DEF ApartInv
  <2>2. \A q \in Objects, r \in Slots : \A i \in DOMAIN queue'[q] : ~Holds(r, queue[q][i])'
    BY <1>6, <1>7, <1>a DEF ApartInv
  <2>3. \A r, u \in Slots : \A t \in Tasks : Holds(r, t)' /\ Holds(u, t)' => r = u
    BY <1>6 DEF ApartInv
  <2> QED BY <2>1, <2>2, <2>3 DEF ApartInv
<1>f. PlaceInv'
  <2> SUFFICES ASSUME NEW t \in Tasks
               PROVE  /\ Queued(t)' \/ Held(t)' => status[t] # "new"
                      /\ status[t] = "open" => Queued(t)' \/ Held(t)'
    BY <1>1 DEF PlaceInv
  <2>1. Queued(t)' => Queued(t) \/ t = x
    BY <1>a DEF Queued
  <2>2. Queued(t) => Queued(t)'
    BY <1>b DEF Queued
  <2>3. t = x => Queued(t)'
    BY <1>2, <1>c DEF Queued
  <2>4. Held(t)' => Held(t)
    BY <1>6 DEF Held
  <2>5. Held(t) => Held(t)' \/ t = x
    BY <1>6 DEF Held, Holds, x
  <2> QED BY <1>2, <2>1, <2>2, <2>3, <2>4, <2>5 DEF PlaceInv
<1> QED BY <1>8, <1>9, <1>e, <1>f

LEMMA PopTraffic ==
    ASSUME TrafficInv, NEW s \in Slots, PopHead(s)
    PROVE  TrafficTypeOK' /\ HandsInv' /\ ApartInv' /\ PlaceInv'
<1> USE DEF TrafficInv
<1>0. PICK o \in Objects : o = Own(s)
  BY OwnObject DEF PopHead, Runs
<1>1. /\ at[s] = "popping" /\ at[s] \in Idle
      /\ UNCHANGED <<started, status, done>>
  BY DEF PopHead, Runs, requests, Idle
<1>2. CASE queue[o] = <<>>
  <2>1. PICK l \in {"idle", "insert"} : Goto(s, l, None, None)
    BY <1>0, <1>2 DEF PopHead
  <2>2. queue' = queue
    BY <1>0, <1>2 DEF PopHead
  <2>3. l \in Idle
    BY DEF Idle
  <2> QED BY <1>1, <2>1, <2>2, <2>3, FreeTraffic
<1>3. CASE queue[o] # <<>>
  <2> DEFINE x == Head(queue[o])
  <2>1. /\ queue \in [Objects -> Seq(Tasks)] /\ at \in [Slots -> Idle \union Busy]
        /\ hand \in [Slots -> Tasks \union {None}] /\ to \in [Slots -> Objects \union {None}]
    BY DEF TrafficTypeOK
  <2>2. /\ queue' = [queue EXCEPT ![o] = Tail(queue[o])]
        /\ at' = [at EXCEPT ![s] = "run"] /\ hand' = [hand EXCEPT ![s] = x]
        /\ to' = [to EXCEPT ![s] = None]
    BY <1>0, <1>3 DEF PopHead, Goto
  <2>3. queue[o] \in Seq(Tasks)
    BY <2>1
  <2>4. 1 \in DOMAIN queue[o] /\ x = queue[o][1] /\ x \in Tasks /\ x # None
    BY <1>3, <2>3, TailFacts, TaskNone
  <2>5. \A q \in Objects : \A i \in DOMAIN queue'[q] :
           /\ q # o => queue'[q] = queue[q]
           /\ q = o => /\ i \in Int /\ i + 1 # 1 /\ i + 1 \in DOMAIN queue[o]
                       /\ queue'[o][i] = queue[o][i + 1]
    BY <1>3, <2>1, <2>2, <2>3, TailFacts
  <2>6. \A q \in Objects : \A i \in DOMAIN queue[q] :
           queue[q][i] = x \/ \E j \in DOMAIN queue'[q] : queue'[q][j] = queue[q][i]
    <3> SUFFICES ASSUME NEW q \in Objects, NEW i \in DOMAIN queue[q], queue[q][i] # x
                 PROVE  \E j \in DOMAIN queue'[q] : queue'[q][j] = queue[q][i]
      OBVIOUS
    <3>1. CASE q = o
      BY <1>3, <2>1, <2>2, <2>3, <2>4, <3>1, TailFacts
    <3>2. CASE q # o
      BY <2>1, <2>2, <3>2
    <3> QED BY <3>1, <3>2
  <2>7. \A t \in Tasks : ~Holds(s, t)
    BY <1>1, HasNone
  <2>8. \A r \in Slots, t \in Tasks : Holds(r, t)' <=> IF r = s THEN t = x ELSE Holds(r, t)
    BY <2>1, <2>2 DEF Holds
  <2>9. TrafficTypeOK'
    <3>1. queue' \in [Objects -> Seq(Tasks)]
      BY <1>3, <2>1, <2>2, <2>3, TailFacts
    <3>2. at' \in [Slots -> Idle \union Busy]
      BY <2>1, <2>2 DEF Busy
    <3>3. hand' \in [Slots -> Tasks \union {None}] /\ to' \in [Slots -> Objects \union {None}]
      BY <2>1, <2>2, <2>4
    <3> QED BY <1>1, <3>1, <3>2, <3>3 DEF TrafficTypeOK
  <2>a. HandsInv'
    <3>1. \A r \in Slots : /\ at'[r] = IF r = s THEN "run" ELSE at[r]
                           /\ hand'[r] = IF r = s THEN x ELSE hand[r]
                           /\ to'[r] = IF r = s THEN None ELSE to[r]
      BY <2>1, <2>2
    <3>2. "run" \in Busy /\ "run" \notin Pushing
      BY DEF Busy, Pushing
    <3> QED BY <1>1, <2>4, <3>1, <3>2 DEF HandsInv
  <2>b. \A q \in Objects : \A i \in DOMAIN queue'[q] :
           queue'[q][i] \in Tasks /\ queue'[q][i] # x
    BY <2>1, <2>4, <2>5 DEF ApartInv
  <2> HIDE DEF x
  <2>c. ApartInv'
    <3>1. \A q, r \in Objects : \A i \in DOMAIN queue'[q], j \in DOMAIN queue'[r] :
              queue'[q][i] = queue'[r][j] => q = r /\ i = j
      <4> SUFFICES ASSUME NEW q \in Objects, NEW r \in Objects,
                          NEW i \in DOMAIN queue'[q], NEW j \in DOMAIN queue'[r],
                          queue'[q][i] = queue'[r][j]
                   PROVE  q = r /\ i = j
        OBVIOUS
      <4>1. CASE q = o /\ r = o
        <5>1. i + 1 = j + 1
          BY <2>5, <4>1 DEF ApartInv
        <5> QED BY <2>5, <4>1, <5>1
      <4>2. CASE q = o /\ r # o
        BY <2>5, <4>2 DEF ApartInv
      <4>3. CASE q # o
        BY <2>5, <4>3 DEF ApartInv
      <4> QED BY <4>1, <4>2, <4>3
    <3>2. \A q \in Objects, r \in Slots : \A i \in DOMAIN queue'[q] : ~Holds(r, queue[q][i])'
      <4> SUFFICES ASSUME NEW q \in Objects, NEW r \in Slots, NEW i \in DOMAIN queue'[q]
                   PROVE  ~Holds(r, queue[q][i])'
        OBVIOUS
      <4>1. PICK t \in Tasks : t = queue'[q][i] /\ t # x
        BY <2>b
      <4>2. \E j \in DOMAIN queue[q] : queue[q][j] = t
        BY <2>5, <4>1
      <4>3. ~Holds(r, t)
        BY <4>2 DEF ApartInv
      <4>4. ~Holds(r, t)'
        BY <2>8, <4>1, <4>3
      <4> QED BY <4>1, <4>4
    <3>3. \A r, u \in Slots : \A t \in Tasks : Holds(r, t)' /\ Holds(u, t)' => r = u
      BY <2>4, <2>8 DEF ApartInv
    <3> QED BY <3>1, <3>2, <3>3 DEF ApartInv
  <2>d. PlaceInv'
    <3> SUFFICES ASSUME NEW t \in Tasks
                 PROVE  /\ Queued(t)' \/ Held(t)' => status[t] # "new"
                        /\ status[t] = "open" => Queued(t)' \/ Held(t)'
      BY <1>1 DEF PlaceInv
    <3>1. Queued(t)' => Queued(t)
      BY <2>5 DEF Queued
    <3>2. Queued(t) => Queued(t)' \/ t = x
      BY <2>6 DEF Queued
    <3>3. Queued(x)
      BY <2>4 DEF Queued
    <3>4. Held(t)' => Held(t) \/ t = x
      BY <2>8 DEF Held
    <3>5. Held(t) \/ t = x => Held(t)'
      BY <2>7, <2>8 DEF Held
    <3> QED BY <2>4, <3>1, <3>2, <3>3, <3>4, <3>5 DEF PlaceInv
  <2> QED BY <2>9, <2>a, <2>c, <2>d
<1> QED BY <1>2, <1>3
-----------------------------------------------------------------------------
LEMMA NextTraffic ==
    ASSUME TrafficInv, NextAll
    PROVE  TrafficTypeOK' /\ HandsInv' /\ ApartInv' /\ PlaceInv'
<1>1. ASSUME NEW d \in Directives \union {Unset}, NEW q \in Outcomes, MakeQueue(d, q)
      PROVE  TrafficTypeOK' /\ HandsInv' /\ ApartInv' /\ PlaceInv'
  BY <1>1, StillStep DEF MakeQueue, private, requests
<1>2. ASSUME MasterLoop \/ (Quit /\ UNCHANGED traffic)
      PROVE  TrafficTypeOK' /\ HandsInv' /\ ApartInv' /\ PlaceInv'
  BY <1>2, StillStep DEF MasterLoop, traffic, shared, private, requests
<1>3. ASSUME NEW s \in Slots, RegisterNow(s) \/ ExitNow(s)
      PROVE  TrafficTypeOK' /\ HandsInv' /\ ApartInv' /\ PlaceInv'
  BY <1>3, StillStep, ExitTraffic DEF RegisterNow, private, requests
<1>4. ASSUME NEW s \in Slots, CrashNow(s)
      PROVE  TrafficTypeOK' /\ HandsInv' /\ ApartInv' /\ PlaceInv'
  BY <1>4, DiesTraffic DEF CrashNow
<1>5. ASSUME NEW s \in Slots, Step(s)
      PROVE  TrafficTypeOK' /\ HandsInv' /\ ApartInv' /\ PlaceInv'
  BY <1>5, LockIdlesTraffic, TakeTraffic, IdleInsertTraffic, LockQueueTraffic, PushTraffic,
     SignalTraffic, PopTraffic, RunMethodTraffic, SpinTraffic, FinishTraffic DEF Step
<1>6. ASSUME NEW s \in Slots, NEW t \in Tasks, Request(s, t)
      PROVE  TrafficTypeOK' /\ HandsInv' /\ ApartInv' /\ PlaceInv'
  BY <1>6, RequestTraffic
<1> QED BY <1>1, <1>2, <1>3, <1>4, <1>5, <1>6 DEF NextAll

\* Under crashes, replacements, reloads and shutdown no task is ever in two
\* places, none but those that have come is anywhere, and none that waits for
\* its answer is nowhere.
THEOREM CrashTraffic == SpecAll => []TrafficInv
<1>1. InitAll => TrafficInv
  BY InitTrafficInv
<1>2. TrafficInv /\ [NextAll]_allVars => TrafficInv'
  <2> SUFFICES ASSUME TrafficInv, [NextAll]_allVars PROVE TrafficInv'
    OBVIOUS
  <2>1. [Next]_vars
    BY NextAllNext DEF allVars, vars
  <2>2. Inv' /\ RangeInv'
    BY <2>1, NextInv, NextRangeInv DEF TrafficInv
  <2>3. TrafficTypeOK' /\ HandsInv' /\ ApartInv' /\ PlaceInv'
    <3>1. CASE NextAll
      BY <3>1, NextTraffic
    <3>2. CASE UNCHANGED allVars
      BY <3>2, StillStep DEF allVars, traffic, shared, private, requests
    <3> QED BY <3>1, <3>2
  <2> QED BY <2>2, <2>3 DEF TrafficInv
<1> QED BY <1>1, <1>2, PTL DEF SpecAll

\* A queue has no more tasks than there are requests: each is in it once.
LEMMA QueueBound ==
    ASSUME TrafficInv, NEW o \in Objects
    PROVE  Len(queue[o]) \in Nat /\ Len(queue[o]) <= MaxTasks
<1>1. /\ queue[o] \in Seq(Tasks) /\ Len(queue[o]) \in Nat
      /\ DOMAIN queue[o] = 1..Len(queue[o])
      /\ \A i \in 1..Len(queue[o]) : queue[o][i] \in Tasks
  BY DEF TrafficInv, TrafficTypeOK
<1>2. IsFiniteSet(Tasks) /\ Cardinality(Tasks) = MaxTasks
  BY TrafficAssumption, FS_Interval DEF Tasks
<1>3. IsFiniteSet(1..Len(queue[o])) /\ Cardinality(1..Len(queue[o])) = Len(queue[o])
  BY <1>1, FS_Interval
<1> DEFINE f == [i \in 1..Len(queue[o]) |-> queue[o][i]]
<1>4. \A i, j \in 1..Len(queue[o]) : queue[o][i] = queue[o][j] => i = j
  BY <1>1 DEF TrafficInv, ApartInv
<1>5. f \in Injection(1..Len(queue[o]), Tasks)
  BY <1>1, <1>4 DEF Injection, IsInjective
<1>6. Cardinality(1..Len(queue[o])) <= Cardinality(Tasks)
  BY <1>2, <1>3, <1>5, FS_Injection DEF ExistsInjection
<1> QED BY <1>1, <1>2, <1>3, <1>6

\* A request that waits for its answer is in the hands of one process or once
\* in one queue, whichever processes die and whenever they do: a consumer's
\* successor, a reload and a shutdown neither repeat nor drop it.
THEOREM CrashInOnePlace == SpecAll => []InOnePlace
<1>1. TrafficInv => InOnePlace
  <2> SUFFICES ASSUME TrafficInv, NEW t \in Tasks, status[t] = "open"
               PROVE  Cardinality(Holders(t)) + Cardinality(Places(t)) = 1
    BY DEF InOnePlace
  <2>1. Holders(t) = {s \in Slots : Holds(s, t)}
    BY DEF Holders, Holds
  <2>2. CASE Held(t)
    <3>1. PICK s \in Slots : Holds(s, t)
      BY <2>2 DEF Held
    <3>2. Holders(t) = {s}
      BY <2>1, <3>1 DEF TrafficInv, ApartInv
    <3>3. \A o \in Objects : \A i \in DOMAIN queue[o] : queue[o][i] # t
      BY <3>1 DEF TrafficInv, ApartInv
    <3>4. \A o \in Objects : DOMAIN queue[o] = 1..Len(queue[o])
      BY DEF TrafficInv, TrafficTypeOK
    <3>5. Places(t) = {}
      BY <3>3, <3>4 DEF Places
    <3> QED BY <3>2, <3>5, FS_Singleton, FS_EmptySet
  <2>3. CASE Queued(t)
    <3>1. PICK o \in Objects : \E i \in DOMAIN queue[o] : queue[o][i] = t
      BY <2>3 DEF Queued
    <3>2. PICK i \in DOMAIN queue[o] : queue[o][i] = t
      BY <3>1
    <3>3. \A q \in Objects : DOMAIN queue[q] = 1..Len(queue[q]) /\ Len(queue[q]) \in Nat
      BY DEF TrafficInv, TrafficTypeOK
    <3>4. i \in 1..MaxTasks /\ i <= Len(queue[o])
      BY <3>3, QueueBound, TrafficAssumption
    <3>5. \A q \in Objects : \A j \in DOMAIN queue[q] : queue[q][j] = t => q = o /\ j = i
      BY <3>2 DEF TrafficInv, ApartInv
    <3>6. ASSUME NEW p \in Places(t) PROVE p = <<o, i>>
      <4>1. PICK q \in Objects, j \in 1..MaxTasks : p = <<q, j>>
        BY DEF Places
      <4>2. j \in DOMAIN queue[q] /\ queue[q][j] = t
        BY <3>3, <4>1 DEF Places
      <4> QED BY <3>5, <4>1, <4>2
    <3>7. <<o, i>> \in Places(t)
      BY <3>2, <3>4 DEF Places
    <3>8. Places(t) = {<<o, i>>}
      BY <3>6, <3>7
    <3>9. Holders(t) = {}
      BY <2>1, <3>2 DEF TrafficInv, ApartInv
    <3>a. PICK p : p = <<o, i>>
      OBVIOUS
    <3>b. Cardinality(Places(t)) = 1
      BY <3>8, <3>a, FS_Singleton
    <3>c. Cardinality(Holders(t)) = 0
      BY <3>9, FS_EmptySet
    <3> QED BY <3>b, <3>c
  <2> QED BY <2>2, <2>3 DEF TrafficInv, PlaceInv
<1> QED BY <1>1, CrashTraffic, PTL
=============================================================================
