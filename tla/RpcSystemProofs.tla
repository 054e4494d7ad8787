-------------------------- MODULE RpcSystemProofs --------------------------
(***************************************************************************)
(* The safety of RpcSystem for any number of workers, consumers and        *)
(* requests: a task in flight is in one place, it is only ever run by the  *)
(* process whose heap it points into, channels are released, and the       *)
(* answer of a forwarded call is the one of its subrequest.                *)
(***************************************************************************)
EXTENDS RpcSystem, FiniteSetTheorems, TLAPS

\* The two ends of the list of idle consumers agree on whether it is empty.
ListInv == next[Idles] = Idles <=> prev[Idles] = Idles

\* A process has a task only where it runs or pushes it, or hangs over it.
HandInv == \A p \in Procs : cur[p] # None => pc[p] \in {"run", "push", "hung"}

NoChild(t) == \A u \in Requests : parent[u] # t

\* What the fields of one task say together: a request without a task has none
\* of them set; task->finish is the forwarding exactly while both channels are
\* in the heap of the consumer; only a call that was forwarded has a subrequest.
TaskInv ==
    \A t \in Requests :
        /\ state[t] \in {"new", "reading"} =>
              /\ parent[t] = None /\ NoChild(t)
              /\ closure[t] = "none" /\ finish[t] = "none"
        /\ state[t] # "new" => home[t] \in Workers
        /\ state[t] = "pending" => proc[t] \in Consumers
        /\ state[t] \in {"answered", "closed"} <=> answer[t] # None
        /\ closure[t] # "foward_done" => NoChild(t) /\ finish[t] # "request_foward"
        /\ closure[t] = "foward_done" => finish[t] # "none"
        /\ finish[t] = "request_foward" =>
              /\ state[t] = "pending"
              /\ channel[t] = proc[t] /\ forward[t] = proc[t]
        /\ finish[t] # "request_foward" => channel[t] = None /\ forward[t] = None
        /\ sub[t] # "none" => NoChild(t) /\ finish[t] = "request_foward"

\* What a subrequest and its parent say together: a parent has one subrequest;
\* it waits while that is in flight, and carries its answer afterwards.
ChildInv ==
    \A u \in Requests : parent[u] # None =>
        LET t == parent[u] IN
        /\ \A v \in Requests : parent[v] = t => v = u
        /\ state[u] = "pending" => finish[t] = "request_foward"
        /\ state[u] # "pending" =>
              IF state[t] = "pending" THEN status[t] = answer[u]
                                      ELSE answer[t] = answer[u]

\* Where task t may go: the worker that serves the request, with something to
\* do there, or the consumer that was chosen for it, with its call not finished.
Goes(t, p) ==
    /\ state[t] = "pending"
    /\ p \in Workers => /\ home[t] = p
                        /\ finish[t] # "none"
                        /\ finish[t] = "request_foward" => NoChild(t)
    /\ p \in Consumers => /\ proc[t] = p
                          /\ finish[t] # "request_finish"

\* Tasks are only queued, run and pushed where they may go.
RouteInv ==
    \A p \in Procs :
        /\ \A i \in DOMAIN queue[p] : Goes(queue[p][i], p)
        /\ pc[p] \in {"run", "hung"} => Goes(cur[p], p)
        /\ pc[p] = "push" => Goes(cur[p], target[p])

\* The task of t waits for a subrequest.
Waits(t) == \/ sub[t] # "none"
            \/ \E u \in Requests : parent[u] = t /\ state[u] = "pending"

\* No task is in two places.
UniqueInv ==
    /\ \A p, q \in Procs : \A i \in DOMAIN queue[p], j \in DOMAIN queue[q] :
           queue[p][i] = queue[q][j] => p = q /\ i = j
    /\ \A p, q \in Procs : \A i \in DOMAIN queue[p] : queue[p][i] # cur[q]
    /\ \A p, q \in Procs : cur[p] = cur[q] /\ cur[p] # None => p = q
    /\ \A p \in Procs : \A i \in DOMAIN queue[p] : ~Waits(queue[p][i])
    /\ \A p \in Procs : cur[p] # None => ~Waits(cur[p])

\* The task of a request in flight is somewhere.
Somewhere(t) == \/ \E p \in Procs : \E i \in DOMAIN queue[p] : queue[p][i] = t
                \/ \E p \in Procs : cur[p] = t
                \/ Waits(t)
SomewhereInv == \A t \in Requests : state[t] = "pending" => Somewhere(t)

SysInv == /\ TypeOK /\ ListInv /\ HandInv /\ TaskInv /\ ChildInv
          /\ RouteInv /\ UniqueInv /\ SomewhereInv
-----------------------------------------------------------------------------
(* Sequences *)

LEMMA AppendFacts ==
    ASSUME NEW s \in Seq(Requests), NEW x \in Requests
    PROVE  /\ Append(s, x) \in Seq(Requests)
           /\ DOMAIN s \subseteq DOMAIN Append(s, x)
           /\ \A i \in DOMAIN s : Append(s, x)[i] = s[i]
           /\ \E i \in DOMAIN Append(s, x) : Append(s, x)[i] = x
           /\ \A i \in DOMAIN Append(s, x) :
                  i \in DOMAIN s \/ (i = Len(s) + 1 /\ Append(s, x)[i] = x)
<1>1. /\ Append(s, x) \in Seq(Requests)
      /\ DOMAIN s = 1..Len(s) /\ Len(s) \in Nat
      /\ DOMAIN Append(s, x) = 1..(Len(s) + 1)
      /\ \A i \in 1..Len(s) : Append(s, x)[i] = s[i]
      /\ Append(s, x)[Len(s) + 1] = x
  OBVIOUS
<1> QED BY <1>1

LEMMA TailFacts ==
    ASSUME NEW s \in Seq(Requests), s # <<>>
    PROVE  /\ Tail(s) \in Seq(Requests)
           /\ 1 \in DOMAIN s /\ Head(s) = s[1]
           /\ \A i \in DOMAIN Tail(s) : /\ i \in Int /\ i + 1 # 1
                                        /\ i + 1 \in DOMAIN s
                                        /\ Tail(s)[i] = s[i + 1]
           /\ \A i \in DOMAIN s :
                  i = 1 \/ \E j \in DOMAIN Tail(s) : Tail(s)[j] = s[i]
<1>1. /\ Tail(s) \in Seq(Requests) /\ Head(s) = s[1]
      /\ Len(s) \in Nat /\ Len(s) # 0
      /\ DOMAIN s = 1..Len(s) /\ DOMAIN Tail(s) = 1..(Len(s) - 1)
      /\ \A i \in 1..(Len(s) - 1) : Tail(s)[i] = s[i + 1]
  OBVIOUS
<1>2. ASSUME NEW i \in DOMAIN s, i # 1
      PROVE  \E j \in DOMAIN Tail(s) : Tail(s)[j] = s[i]
  <2>1. i - 1 \in DOMAIN Tail(s) /\ (i - 1) + 1 = i
    BY <1>1, <1>2
  <2> QED BY <1>1, <2>1
<1> QED BY <1>1, <1>2

LEMMA ElementFacts ==
    ASSUME NEW s \in Seq(Requests), NEW i \in DOMAIN s
    PROVE  s[i] \in Requests /\ s[i] # None
  BY NoneAssumption
-----------------------------------------------------------------------------
(* The initial states *)

LEMMA InitSysInv == Init => SysInv
<1> SUFFICES ASSUME Init PROVE SysInv
  OBVIOUS
<1>1. TypeOK
  BY DEF Init, TypeOK, Statuses, Unset
<1>2. ListInv /\ HandInv
  BY DEF Init, ListInv, HandInv, Links, Procs
<1>3. TaskInv
  BY NoneAssumption DEF Init, TaskInv, NoChild
<1>4. ChildInv
  BY DEF Init, ChildInv
<1>5. \A p \in Procs : cur[p] = None /\ queue[p] = <<>> /\ pc[p] = "wait"
  BY DEF Init
<1>6. RouteInv /\ UniqueInv
  BY <1>5 DEF RouteInv, UniqueInv
<1>7. SomewhereInv
  BY DEF Init, SomewhereInv
<1> QED BY <1>1, <1>2, <1>3, <1>4, <1>6, <1>7 DEF SysInv
-----------------------------------------------------------------------------
(* The steps on the notify objects and the list of idle consumers *)

\* A step that moves no task and leaves the requests alone.
LEMMA QuietStep ==
    ASSUME SysInv, NEW p \in Procs, NEW l, l \notin {"run", "push", "hung"},
           pc' = [pc EXCEPT ![p] = l], cur[p] = None,
           \A q \in Procs : q # p => target'[q] = target[q],
           UNCHANGED <<queue, cur, reqVars, taskVars>>
    PROVE  HandInv' /\ TaskInv' /\ ChildInv' /\ RouteInv' /\ UniqueInv' /\ SomewhereInv'
<1> USE DEF SysInv, reqVars, taskVars
<1>1. pc \in [Procs -> {"wait", "read", "write", "pop", "run", "push", "signal", "insert", "hung"}]
  BY DEF TypeOK
<1>2. HandInv'
  BY <1>1 DEF HandInv
<1>3. TaskInv' /\ ChildInv'
  BY DEF TaskInv, ChildInv, NoChild
<1>4. \A t, q : Goes(t, q)' <=> Goes(t, q)
  BY DEF Goes, NoChild
<1>5. RouteInv'
  BY <1>1, <1>4 DEF RouteInv
<1>6. UniqueInv' /\ SomewhereInv'
  BY DEF UniqueInv, SomewhereInv, Somewhere, Waits
<1> QED BY <1>2, <1>3, <1>5, <1>6

LEMMA ReadFdInv == ASSUME SysInv, NEW p \in Procs, ReadFd(p) PROVE SysInv'
<1>1. TypeOK' /\ ListInv'
  BY DEF SysInv, ReadFd, CanRead, Goto, TypeOK, ListInv, listVars, reqVars, taskVars
<1>2. cur[p] = None
  BY DEF SysInv, HandInv, ReadFd, CanRead
<1>3. pc' = [pc EXCEPT ![p] = "pop"] /\ UNCHANGED <<queue, cur, target, reqVars, taskVars>>
  BY DEF ReadFd, Goto
<1> QED BY <1>1, <1>2, <1>3, QuietStep DEF SysInv

LEMMA WriteReadyInv == ASSUME SysInv, NEW p \in Procs, WriteReady(p) PROVE SysInv'
<1>1. TypeOK' /\ ListInv'
  BY DEF SysInv, WriteReady, CanWrite, Goto, TypeOK, ListInv, listVars, reqVars, taskVars
<1>2. cur[p] = None
  BY DEF SysInv, HandInv, WriteReady, CanWrite
<1>3. pc' = [pc EXCEPT ![p] = "pop"] /\ UNCHANGED <<queue, cur, target, reqVars, taskVars>>
  BY DEF WriteReady, Goto
<1> QED BY <1>1, <1>2, <1>3, QuietStep DEF SysInv

LEMMA PopEmptyInv == ASSUME SysInv, NEW p \in Procs, PopEmpty(p) PROVE SysInv'
<1> DEFINE l == IF p \in Consumers THEN "insert" ELSE AfterHandler(p)
<1>1. l \in {"insert", "read", "write", "wait"}
  BY DEF AfterHandler
<1>2. pc' = [pc EXCEPT ![p] = l] /\ UNCHANGED <<queue, cur, target, reqVars, taskVars>>
  BY DEF PopEmpty, Goto
<1> HIDE DEF l
<1>3. TypeOK' /\ ListInv'
  BY <1>1, <1>2 DEF SysInv, PopEmpty, TypeOK, ListInv, listVars, reqVars, taskVars
<1>4. cur[p] = None
  BY DEF SysInv, HandInv, PopEmpty
<1> QED BY <1>1, <1>2, <1>3, <1>4, QuietStep DEF SysInv

LEMMA SignalInv == ASSUME SysInv, NEW p \in Procs, Signal(p) PROVE SysInv'
<1>1. cur[p] = None
  BY DEF SysInv, HandInv, Signal
<1>2. UNCHANGED cur
  BY <1>1 DEF SysInv, TypeOK, Signal, Release
<1>3. Resume(p) \in {"pop", "wait"}
  BY DEF Resume
<1>4. /\ pc' = [pc EXCEPT ![p] = Resume(p)]
      /\ target' = [target EXCEPT ![p] = None]
      /\ UNCHANGED <<queue, reqVars, taskVars>>
  BY DEF Signal, Release, Goto
<1>5. \A q \in Procs : q # p => target'[q] = target[q]
  BY <1>4 DEF SysInv, TypeOK
<1>6. TypeOK' /\ ListInv'
  BY <1>2, <1>3, <1>4
  DEF SysInv, Signal, TypeOK, ListInv, listVars, procVars, reqVars, taskVars
<1> QED BY <1>1, <1>2, <1>3, <1>4, <1>5, <1>6, QuietStep DEF SysInv

LEMMA IdleInsertInv == ASSUME SysInv, NEW c \in Consumers, IdleInsert(c) PROVE SysInv'
<1>1. AfterHandler(c) \in {"read", "write", "wait"}
  BY DEF AfterHandler
<1>2. /\ pc' = [pc EXCEPT ![c] = AfterHandler(c)]
      /\ UNCHANGED <<queue, cur, target, reqVars, taskVars>>
  BY DEF IdleInsert, Goto
<1>3. cur[c] = None
  BY DEF SysInv, HandInv, IdleInsert, Procs
<1>4. TypeOK'
  BY ZenonT(40), <1>1, <1>2 DEF SysInv, IdleInsert, TypeOK, Links, Procs, reqVars, taskVars
<1>5. ListInv'
  BY HeadAssumption DEF SysInv, IdleInsert, TypeOK, ListInv, Links
<1> QED BY <1>1, <1>2, <1>3, <1>4, <1>5, QuietStep DEF SysInv, Procs
\* Pop and Push move a task between a queue and the hands of a process.
LEMMA PopInv == ASSUME SysInv, NEW p \in Procs, Pop(p) PROVE SysInv'
<1> USE DEF SysInv
<1> DEFINE x == Head(queue[p])
<1>1. /\ queue[p] \in Seq(Requests) /\ queue[p] # <<>>
      /\ cur \in [Procs -> Requests \union {None}]
      /\ queue \in [Procs -> Seq(Requests)]
      /\ pc \in [Procs -> {"wait", "read", "write", "pop", "run", "push", "signal", "insert", "hung"}]
  BY DEF TypeOK, Pop
<1>2. /\ pc[p] = "pop"
      /\ cur' = [cur EXCEPT ![p] = x]
      /\ queue' = [queue EXCEPT ![p] = Tail(queue[p])]
      /\ pc' = [pc EXCEPT ![p] = "run"]
      /\ UNCHANGED <<target, reqVars, taskVars>>
  BY DEF Pop, Goto
<1>3. cur[p] = None
  BY <1>2 DEF HandInv
<1>4. 1 \in DOMAIN queue[p] /\ x = queue[p][1] /\ x \in Requests /\ x # None
  BY <1>1, TailFacts, ElementFacts
<1>5. \A q \in Procs : \A i \in DOMAIN queue'[q] :
         /\ q # p => queue'[q] = queue[q]
         /\ q = p => /\ i \in Int /\ i + 1 # 1 /\ i + 1 \in DOMAIN queue[p]
                     /\ queue'[p][i] = queue[p][i + 1]
  BY <1>1, <1>2, TailFacts
<1>6. \A q \in Procs : \A i \in DOMAIN queue[q] :
         queue[q][i] = x \/ \E j \in DOMAIN queue'[q] : queue'[q][j] = queue[q][i]
  <2> SUFFICES ASSUME NEW q \in Procs, NEW i \in DOMAIN queue[q], queue[q][i] # x
               PROVE  \E j \in DOMAIN queue'[q] : queue'[q][j] = queue[q][i]
    OBVIOUS
  <2>1. CASE q = p
    BY <1>1, <1>2, <1>4, <2>1, TailFacts
  <2>2. CASE q # p
    BY <1>1, <1>2, <2>2
  <2> QED BY <2>1, <2>2
<1>7. \A q \in Procs : cur'[q] = IF q = p THEN x ELSE cur[q]
  BY <1>1, <1>2
<1>8. /\ \A t, q : Goes(t, q)' <=> Goes(t, q)
      /\ \A t : Waits(t)' <=> Waits(t)
      /\ TaskInv' /\ ChildInv'
  BY <1>2 DEF Goes, Waits, NoChild, TaskInv, ChildInv, reqVars, taskVars
<1> HIDE DEF x
<1>9. TypeOK' /\ ListInv'
  <2>1. queue' \in [Procs -> Seq(Requests)]
    BY <1>1, <1>2, TailFacts
  <2>2. cur' \in [Procs -> Requests \union {None}]
    BY <1>1, <1>2, <1>4
  <2> QED BY <2>1, <2>2, <1>2, <1>4
          DEF Pop, TypeOK, ListInv, listVars, procVars, reqVars, taskVars
<1>10. HandInv'
  BY <1>1, <1>2, <1>7 DEF HandInv
<1>11. RouteInv'
  BY <1>1, <1>2, <1>4, <1>5, <1>7, <1>8 DEF RouteInv
<1>12. UniqueInv'
  <2>1. \A q, r \in Procs : \A i \in DOMAIN queue'[q], j \in DOMAIN queue'[r] :
            queue'[q][i] = queue'[r][j] => q = r /\ i = j
    <3> SUFFICES ASSUME NEW q \in Procs, NEW r \in Procs,
                        NEW i \in DOMAIN queue'[q], NEW j \in DOMAIN queue'[r],
                        queue'[q][i] = queue'[r][j]
                 PROVE  q = r /\ i = j
      OBVIOUS
    <3>1. CASE q = p /\ r = p
      <4>1. i + 1 = j + 1
        BY <1>5, <3>1 DEF UniqueInv
      <4> QED BY <1>5, <3>1, <4>1
    <3>2. CASE q = p /\ r # p
      BY <1>5, <3>2 DEF UniqueInv
    <3>3. CASE q # p
      BY <1>5, <3>3 DEF UniqueInv
    <3> QED BY <3>1, <3>2, <3>3
  <2>2. \A q, r \in Procs : \A i \in DOMAIN queue'[q] : queue'[q][i] # cur'[r]
    <3> SUFFICES ASSUME NEW q \in Procs, NEW r \in Procs, NEW i \in DOMAIN queue'[q]
                 PROVE  queue'[q][i] # cur'[r]
      OBVIOUS
    <3>1. CASE r = p
      BY <1>4, <1>5, <1>7, <3>1 DEF UniqueInv
    <3>2. CASE r # p
      BY <1>5, <1>7, <3>2 DEF UniqueInv
    <3> QED BY <3>1, <3>2
  <2>3. \A q, r \in Procs : cur'[q] = cur'[r] /\ cur'[q] # None => q = r
    BY <1>4, <1>7 DEF UniqueInv
  <2>4. \A q \in Procs : \A i \in DOMAIN queue'[q] : ~Waits(queue'[q][i])
    BY <1>5 DEF UniqueInv
  <2>5. \A q \in Procs : cur'[q] # None => ~Waits(cur'[q])
    BY <1>4, <1>7 DEF UniqueInv
  <2> QED BY <1>8, <2>1, <2>2, <2>3, <2>4, <2>5 DEF UniqueInv
<1>13. SomewhereInv'
  <2> SUFFICES ASSUME NEW t \in Requests, state[t] = "pending" PROVE Somewhere(t)'
    BY <1>2 DEF SomewhereInv, reqVars
  <2>1. Somewhere(t)
    BY DEF SomewhereInv
  <2>2. CASE t = x
    BY <1>7, <2>2 DEF Somewhere
  <2>3. CASE t # x /\ \E q \in Procs : \E i \in DOMAIN queue[q] : queue[q][i] = t
    BY <1>6, <2>3 DEF Somewhere
  <2>4. CASE \E q \in Procs : cur[q] = t
    BY <1>3, <1>7, <2>4, NoneAssumption DEF Somewhere
  <2> QED BY <1>8, <2>1, <2>2, <2>3, <2>4 DEF Somewhere
<1> QED BY <1>8, <1>9, <1>10, <1>11, <1>12, <1>13

LEMMA PushInv == ASSUME SysInv, NEW p \in Procs, Push(p) PROVE SysInv'
<1> USE DEF SysInv
<1> DEFINE x == cur[p]
           o == target[p]
<1>1. /\ cur \in [Procs -> Requests \union {None}]
      /\ queue \in [Procs -> Seq(Requests)]
      /\ pc \in [Procs -> {"wait", "read", "write", "pop", "run", "push", "signal", "insert", "hung"}]
  BY DEF TypeOK
<1>2. x \in Requests /\ x # None /\ o \in Procs /\ pc[p] = "push"
  BY DEF TypeOK, Push
<1>3. /\ cur' = [cur EXCEPT ![p] = None]
      /\ queue' = [queue EXCEPT ![o] = Append(queue[o], x)]
      /\ pc' = [pc EXCEPT ![p] = "signal"]
      /\ UNCHANGED <<target, reqVars, taskVars>>
  BY DEF Push, Goto
<1>4. \A q \in Procs : cur'[q] = IF q = p THEN None ELSE cur[q]
  BY <1>1, <1>3
<1>4a. /\ queue[o] \in Seq(Requests) /\ queue'[o] = Append(queue[o], x)
       /\ \A q \in Procs : q # o => queue'[q] = queue[q]
  BY <1>1, <1>2, <1>3
<1> HIDE DEF x, o
<1>4b. PICK s \in Seq(Requests), y \in Requests : s = queue[o] /\ y = x
  BY <1>2, <1>4a
<1>4c. /\ \A i \in DOMAIN queue[o] : i \in DOMAIN queue'[o] /\ queue'[o][i] = queue[o][i]
       /\ \E i \in DOMAIN queue'[o] : queue'[o][i] = x
       /\ \A i \in DOMAIN queue'[o] :
              i \in DOMAIN queue[o] \/ (i = Len(queue[o]) + 1 /\ queue'[o][i] = x)
  <2>1. /\ DOMAIN s \subseteq DOMAIN Append(s, y)
        /\ \A i \in DOMAIN s : Append(s, y)[i] = s[i]
        /\ \E i \in DOMAIN Append(s, y) : Append(s, y)[i] = y
        /\ \A i \in DOMAIN Append(s, y) :
               i \in DOMAIN s \/ (i = Len(s) + 1 /\ Append(s, y)[i] = y)
    BY AppendFacts
  <2>2. queue'[o] = Append(s, y)
    BY <1>4a, <1>4b
  <2> QED BY <1>4b, <2>1, <2>2, Zenon
<1>5. \A q \in Procs : \A i \in DOMAIN queue'[q] :
         \/ i \in DOMAIN queue[q] /\ queue'[q][i] = queue[q][i]
         \/ q = o /\ i = Len(queue[o]) + 1 /\ queue'[q][i] = x
  BY <1>4a, <1>4c, Zenon
<1>6. \A q \in Procs : \A i \in DOMAIN queue[q] :
         i \in DOMAIN queue'[q] /\ queue'[q][i] = queue[q][i]
  BY <1>4a, <1>4c, Zenon
<1>7. \E i \in DOMAIN queue'[o] : queue'[o][i] = x
  BY <1>4c, Zenon
<1>8. /\ \A t, q : Goes(t, q)' <=> Goes(t, q)
      /\ \A t : Waits(t)' <=> Waits(t)
      /\ TaskInv' /\ ChildInv'
  BY <1>3 DEF Goes, Waits, NoChild, TaskInv, ChildInv, reqVars, taskVars
<1>9. Goes(x, o)
  BY <1>2 DEF RouteInv, x, o
<1>10. TypeOK' /\ ListInv'
  <2>1. queue' \in [Procs -> Seq(Requests)]
    BY <1>1, <1>2, <1>3, AppendFacts
  <2> QED BY <2>1, <1>2, <1>3
          DEF Push, TypeOK, ListInv, listVars, procVars, reqVars, taskVars, x, o
<1>11. HandInv'
  BY <1>1, <1>3, <1>4 DEF HandInv
<1>12. RouteInv'
  BY <1>1, <1>3, <1>4, <1>5, <1>8, <1>9 DEF RouteInv
<1>13. UniqueInv'
  <2>1. \A q, r \in Procs : \A i \in DOMAIN queue'[q], j \in DOMAIN queue'[r] :
            queue'[q][i] = queue'[r][j] => q = r /\ i = j
    BY <1>2, <1>5 DEF UniqueInv, x
  <2>2. \A q, r \in Procs : \A i \in DOMAIN queue'[q] : queue'[q][i] # cur'[r]
    <3> SUFFICES ASSUME NEW q \in Procs, NEW r \in Procs, NEW i \in DOMAIN queue'[q]
                 PROVE  queue'[q][i] # cur'[r]
      OBVIOUS
    <3>1. queue'[q][i] # None
      BY <1>1, <1>2, <1>5, ElementFacts
    <3>2. CASE queue'[q][i] = x
      BY <1>2, <1>4, <3>2 DEF UniqueInv, x
    <3>3. CASE i \in DOMAIN queue[q] /\ queue'[q][i] = queue[q][i]
      BY <1>4, <3>1, <3>3 DEF UniqueInv
    <3> QED BY <1>5, <3>2, <3>3
  <2>3. \A q, r \in Procs : cur'[q] = cur'[r] /\ cur'[q] # None => q = r
    BY <1>4 DEF UniqueInv
  <2>4. \A q \in Procs : \A i \in DOMAIN queue'[q] : ~Waits(queue'[q][i])
    BY <1>2, <1>5 DEF UniqueInv, x
  <2>5. \A q \in Procs : cur'[q] # None => ~Waits(cur'[q])
    BY <1>4 DEF UniqueInv
  <2> QED BY <1>8, <2>1, <2>2, <2>3, <2>4, <2>5 DEF UniqueInv
<1>14. SomewhereInv'
  <2> SUFFICES ASSUME NEW t \in Requests, state[t] = "pending" PROVE Somewhere(t)'
    BY <1>3 DEF SomewhereInv, reqVars
  <2>1. Somewhere(t)
    BY DEF SomewhereInv
  <2>2. CASE \E q \in Procs : \E i \in DOMAIN queue[q] : queue[q][i] = t
    BY <1>6, <2>2 DEF Somewhere
  <2>3. CASE \E q \in Procs : q # p /\ cur[q] = t
    BY <1>4, <2>3 DEF Somewhere
  <2>4. CASE t = x
    BY <1>2, <1>7, <2>4 DEF Somewhere
  <2> QED BY <1>8, <2>1, <2>2, <2>3, <2>4 DEF Somewhere, x
<1> QED BY <1>8, <1>10, <1>11, <1>12, <1>13, <1>14
-----------------------------------------------------------------------------
(* The steps of the handlers *)

\* A process ends a handler with task x to push to y, or with none.  Nothing
\* changes for the tasks that are elsewhere, x was its own, waited, or was not
\* in flight, and the task it had goes on, waits, or is over.
LEMMA MoveStep ==
    ASSUME SysInv, NEW p \in Procs, NEW x \in Requests \union {None}, NEW y, NEW l,
           cur' = [cur EXCEPT ![p] = x],
           target' = [target EXCEPT ![p] = y],
           pc' = [pc EXCEPT ![p] = l],
           queue' = queue,
           l # "run", l # "hung", l = "push" <=> x # None,
           x # None => /\ Goes(x, y)' /\ ~Waits(x)'
                       /\ x = cur[p] \/ Waits(x) \/ state[x] # "pending",
           \A t \in Requests, q \in Procs : t # cur[p] /\ Goes(t, q) => Goes(t, q)',
           \A t \in Requests : t # cur[p] /\ Waits(t)' => Waits(t),
           \A t \in Requests : t # x /\ state'[t] = "pending" =>
               /\ state[t] = "pending"
               /\ t = cur[p] \/ Waits(t) => Waits(t)'
    PROVE  HandInv' /\ RouteInv' /\ UniqueInv' /\ SomewhereInv'
<1> USE DEF SysInv
<1>1. /\ cur \in [Procs -> Requests \union {None}]
      /\ target \in [Procs -> Procs \union {None}]
      /\ queue \in [Procs -> Seq(Requests)]
      /\ pc \in [Procs -> {"wait", "read", "write", "pop", "run", "push", "signal", "insert", "hung"}]
      /\ \A q \in Procs : /\ pc[q] \in {"run", "push", "hung"} => cur[q] # None
                          /\ pc[q] = "push" => target[q] \in Procs
  BY DEF TypeOK
<1>2. \A q \in Procs : /\ cur'[q] = IF q = p THEN x ELSE cur[q]
                       /\ target'[q] = IF q = p THEN y ELSE target[q]
                       /\ pc'[q] = IF q = p THEN l ELSE pc[q]
  BY <1>1
<1>3. \A q \in Procs : \A i \in DOMAIN queue[q] :
         queue[q][i] \in Requests /\ queue[q][i] # None /\ queue[q][i] # cur[p]
  BY <1>1, ElementFacts DEF UniqueInv
<1>4. \A q \in Procs : q # p /\ cur[q] # None => cur[q] \in Requests /\ cur[q] # cur[p]
  BY <1>1 DEF UniqueInv
<1>5. HandInv'
  BY <1>2 DEF HandInv
<1>6. RouteInv'
  <2>1. \A q \in Procs : \A i \in DOMAIN queue[q] : Goes(queue[q][i], q)'
    BY <1>3 DEF RouteInv
  <2>2. \A q \in Procs : /\ pc'[q] \in {"run", "hung"} => Goes(cur[q], q)'
                         /\ pc'[q] = "push" => Goes(cur[q], target[q])'
    BY <1>1, <1>2, <1>4 DEF RouteInv
  <2> QED BY <2>1, <2>2 DEF RouteInv
<1>7. UniqueInv'
  <2>1. \A q \in Procs : \A i \in DOMAIN queue[q] :
            state[queue[q][i]] = "pending" /\ ~Waits(queue[q][i])
    BY DEF RouteInv, UniqueInv, Goes
  <2>2. \A q \in Procs : cur[q] # None => state[cur[q]] = "pending" /\ ~Waits(cur[q])
    BY DEF RouteInv, UniqueInv, Goes, HandInv
  <2>3. \A q, r \in Procs : \A i \in DOMAIN queue[q] : queue[q][i] # cur'[r]
    BY <1>2, <1>3, <2>1 DEF UniqueInv
  <2>4. \A q, r \in Procs : cur'[q] = cur'[r] /\ cur'[q] # None => q = r
    BY <1>2, <1>4, <2>2 DEF UniqueInv
  <2>5. \A q \in Procs : \A i \in DOMAIN queue[q] : ~Waits(queue[q][i])'
    BY <1>3, <2>1
  <2>6. \A q \in Procs : cur'[q] # None => ~Waits(cur[q])'
    BY <1>2, <1>4, <2>2
  <2> QED BY <2>3, <2>4, <2>5, <2>6 DEF UniqueInv
<1>8. SomewhereInv'
  <2> SUFFICES ASSUME NEW t \in Requests, state'[t] = "pending" PROVE Somewhere(t)'
    BY DEF SomewhereInv
  <2>1. CASE t = x
    BY <1>2, <2>1 DEF Somewhere
  <2>2. CASE t # x
    <3>1. Somewhere(t)
      BY <2>2 DEF SomewhereInv
    <3>2. CASE Waits(t) \/ t = cur[p]
      BY <2>2, <3>2 DEF Somewhere
    <3>3. CASE \E q \in Procs : q # p /\ cur[q] = t
      BY <1>2, <3>3 DEF Somewhere
    <3> QED BY <3>1, <3>2, <3>3 DEF Somewhere
  <2> QED BY <2>1, <2>2
<1> QED BY <1>5, <1>6, <1>7, <1>8

\* A handler that neither has a task nor gets one.
LEMMA StayStep ==
    ASSUME SysInv, NEW p \in Procs, pc[p] = "wait",
           UNCHANGED <<queue, pc, cur, target>>,
           \A t \in Requests, q \in Procs : Goes(t, q) => Goes(t, q)',
           \A t \in Requests : Waits(t)' => Waits(t),
           \A t \in Requests : state'[t] = "pending" =>
               state[t] = "pending" /\ (Waits(t) => Waits(t)')
    PROVE  HandInv' /\ RouteInv' /\ UniqueInv' /\ SomewhereInv'
<1>1. cur[p] = None
  BY DEF SysInv, HandInv
<1>2. /\ cur' = [cur EXCEPT ![p] = None]
      /\ target' = [target EXCEPT ![p] = target[p]]
      /\ pc' = [pc EXCEPT ![p] = "wait"]
  BY <1>1 DEF SysInv, TypeOK
<1>3. \A t \in Requests : t # cur[p]
  BY <1>1, NoneAssumption
<1>4. PICK y : y = target[p]
  OBVIOUS
<1>5. target' = [target EXCEPT ![p] = y]
  BY <1>2, <1>4
<1>6. queue' = queue
  OBVIOUS
<1> QED BY ONLY SysInv, <1>2, <1>3, <1>5, <1>6, p \in Procs,
           \A t \in Requests, q \in Procs : Goes(t, q) => Goes(t, q)',
           \A t \in Requests : Waits(t)' => Waits(t),
           \A t \in Requests : state'[t] = "pending" =>
               state[t] = "pending" /\ (Waits(t) => Waits(t)'), MoveStep

\* A handler that ends without a task to push.
LEMMA ReleaseStep ==
    ASSUME SysInv, NEW p \in Procs, Release(p), queue' = queue,
           \A t \in Requests, q \in Procs : t # cur[p] /\ Goes(t, q) => Goes(t, q)',
           \A t \in Requests : t # cur[p] /\ Waits(t)' => Waits(t),
           \A t \in Requests : state'[t] = "pending" =>
               /\ state[t] = "pending"
               /\ t = cur[p] \/ Waits(t) => Waits(t)'
    PROVE  HandInv' /\ RouteInv' /\ UniqueInv' /\ SomewhereInv'
<1>1. PICK x \in Requests \union {None}, l \in {"pop", "wait"} : x = None /\ l = Resume(p)
  BY DEF Resume
<1>2. /\ cur' = [cur EXCEPT ![p] = x] /\ target' = [target EXCEPT ![p] = x]
      /\ pc' = [pc EXCEPT ![p] = l]
  BY <1>1 DEF Release, Goto
<1>3. l # "run" /\ l # "hung" /\ l # "push"
  OBVIOUS
<1> QED BY <1>1, <1>2, <1>3, MoveStep

\* A handler that ends with a task that was not in flight.
LEMMA DispatchStep ==
    ASSUME SysInv, NEW p \in Procs, NEW x \in Requests, NEW y, HandOver(p, x, y),
           queue' = queue, state[x] # "pending", Goes(x, y)', ~Waits(x)',
           \A t \in Requests, q \in Procs : t # cur[p] /\ Goes(t, q) => Goes(t, q)',
           \A t \in Requests : t # cur[p] /\ Waits(t)' => Waits(t),
           \A t \in Requests : t # x /\ state'[t] = "pending" =>
               /\ state[t] = "pending"
               /\ t = cur[p] \/ Waits(t) => Waits(t)'
    PROVE  HandInv' /\ RouteInv' /\ UniqueInv' /\ SomewhereInv'
<1>1. PICK l : l = "push"
  OBVIOUS
<1>2. /\ cur' = [cur EXCEPT ![p] = x] /\ target' = [target EXCEPT ![p] = y]
      /\ pc' = [pc EXCEPT ![p] = l]
  BY <1>1 DEF HandOver, Goto
<1>3. l # "run" /\ l # "hung" /\ x # None /\ x \in Requests \union {None}
  BY <1>1, NoneAssumption
<1> QED BY <1>1, <1>2, <1>3, MoveStep

LEMMA NewRequestInv ==
    ASSUME SysInv, NEW w \in Workers, NEW t \in Requests,
           NEW m \in {"interface", "requeststatus"}, NewRequest(w, t, m)
    PROVE  SysInv'
<1> USE DEF SysInv
<1>1. /\ pc[w] = "wait" /\ state[t] = "new" /\ w \in Procs
      /\ state' = [state EXCEPT ![t] = "reading"]
      /\ home' = [home EXCEPT ![t] = w]
      /\ UNCHANGED <<next, prev, queue, pc, cur, target, parent, sub, answer,
                     closure, finish, status, proc, channel, forward>>
  BY DEF NewRequest, Procs, listVars, taskVars
<1>2. TypeOK' /\ ListInv'
  BY <1>1 DEF NewRequest, TypeOK, ListInv, procVars
<1>3. /\ \A u \in Requests : u # t => state'[u] = state[u] /\ home'[u] = home[u]
      /\ state'[t] = "reading" /\ home'[t] = w
  BY <1>1 DEF TypeOK
<1>4. \A u \in Requests : NoChild(u)' <=> NoChild(u)
  BY <1>1 DEF NoChild
<1>5. TaskInv'
  BY <1>1, <1>3, <1>4 DEF TaskInv
<1>6. ChildInv'
  BY <1>1, <1>3 DEF ChildInv, TaskInv, NoChild, TypeOK
<1>7. \A u \in Requests, q \in Procs : Goes(u, q) => Goes(u, q)'
  BY <1>1, <1>3, <1>4 DEF Goes
<1>8. \A u \in Requests : Waits(u)' <=> Waits(u)
  BY <1>1, <1>3 DEF Waits
<1> QED BY <1>1, <1>2, <1>3, <1>5, <1>6, <1>7, <1>8, StayStep

LEMMA NoMemoryInv ==
    ASSUME SysInv, NEW w \in Workers, NEW t \in Requests, NoMemory(w, t)
    PROVE  SysInv'
<1> USE DEF SysInv
<1>1. /\ pc[w] = "wait" /\ state[t] = "new" /\ w \in Procs
      /\ state' = [state EXCEPT ![t] = "answered"]
      /\ answer' = [answer EXCEPT ![t] = ServerError]
      /\ home' = [home EXCEPT ![t] = w]
      /\ UNCHANGED <<next, prev, queue, pc, cur, target, parent, sub,
                     closure, finish, status, proc, channel, forward>>
  BY DEF NoMemory, Procs, listVars, taskVars
<1>2. ServerError \in Statuses /\ ServerError # None
  BY UnsentAssumption DEF Statuses
<1>3. TypeOK' /\ ListInv'
  BY <1>1, <1>2 DEF NoMemory, TypeOK, ListInv, procVars
<1>4. /\ \A u \in Requests : u # t => /\ state'[u] = state[u] /\ home'[u] = home[u]
                                      /\ answer'[u] = answer[u]
      /\ state'[t] = "answered" /\ home'[t] = w /\ answer'[t] # None
  BY <1>1, <1>2 DEF TypeOK
<1>5. \A u \in Requests : NoChild(u)' <=> NoChild(u)
  BY <1>1 DEF NoChild
<1>6. TaskInv'
  BY <1>1, <1>4, <1>5 DEF TaskInv
<1>7. ChildInv'
  BY <1>1, <1>4 DEF ChildInv, TaskInv, NoChild, TypeOK
<1>8. \A u \in Requests, q \in Procs : Goes(u, q) => Goes(u, q)'
  BY <1>1, <1>4, <1>5 DEF Goes
<1>9. \A u \in Requests : Waits(u)' <=> Waits(u)
  BY <1>1, <1>4 DEF Waits
<1> QED BY <1>1, <1>3, <1>4, <1>6, <1>7, <1>8, <1>9, StayStep

LEMMA NoBodyInv ==
    ASSUME SysInv, NEW w \in Workers, NEW t \in Requests, NoBody(w, t)
    PROVE  SysInv'
<1> USE DEF SysInv
<1>1. /\ pc[w] = "wait" /\ state[t] = "reading" /\ w \in Procs
      /\ state' = [state EXCEPT ![t] = "answered"]
      /\ answer' = [answer EXCEPT ![t] = BadRequest]
      /\ UNCHANGED <<next, prev, queue, pc, cur, target, parent, sub, home,
                     closure, finish, status, proc, channel, forward>>
  BY DEF NoBody, Procs, listVars, taskVars
<1>2. BadRequest # None
  BY UnsentAssumption
<1>3. TypeOK' /\ ListInv'
  BY <1>1 DEF NoBody, TypeOK, ListInv, procVars
<1>4. /\ \A u \in Requests : u # t => state'[u] = state[u] /\ answer'[u] = answer[u]
      /\ state'[t] = "answered" /\ answer'[t] # None
  BY <1>1, <1>2 DEF TypeOK
<1>5. \A u \in Requests : NoChild(u)' <=> NoChild(u)
  BY <1>1 DEF NoChild
<1>6. TaskInv'
  BY <1>1, <1>4, <1>5 DEF TaskInv
<1>7. ChildInv'
  BY <1>1, <1>4 DEF ChildInv, TaskInv, NoChild, TypeOK
<1>8. \A u \in Requests, q \in Procs : Goes(u, q) => Goes(u, q)'
  BY <1>1, <1>4, <1>5 DEF Goes
<1>9. \A u \in Requests : Waits(u)' <=> Waits(u)
  BY <1>1, <1>4 DEF Waits
<1> QED BY <1>1, <1>3, <1>4, <1>6, <1>7, <1>8, <1>9, StayStep

\* The subrequests that are closed with their parent are over, too.
LEMMA CloseInv ==
    ASSUME SysInv, NEW w \in Workers, NEW t \in Requests, Close(w, t)
    PROVE  SysInv'
<1> USE DEF SysInv
<1>1. /\ pc[w] = "wait" /\ state[t] = "answered" /\ parent[t] = None /\ w \in Procs
      /\ state' = [u \in Requests |->
                      IF u = t \/ parent[u] = t THEN "closed" ELSE state[u]]
      /\ UNCHANGED <<next, prev, queue, pc, cur, target, parent, sub, home, answer,
                     closure, finish, status, proc, channel, forward>>
  BY DEF Close, Procs, listVars, taskVars
<1>2. TypeOK' /\ ListInv'
  BY <1>1 DEF Close, TypeOK, ListInv, procVars
<1>3. \A u \in Requests : parent[u] = t => state[u] \in {"answered", "closed"}
  <2> SUFFICES ASSUME NEW u \in Requests, parent[u] = t
               PROVE  state[u] \in {"answered", "closed"}
    OBVIOUS
  <2>1. parent[u] # None
    BY NoneAssumption
  <2>2. state[u] \notin {"new", "reading"}
    BY <2>1 DEF TaskInv
  <2>3. state[u] # "pending"
    BY <1>1, <2>1 DEF ChildInv, TaskInv
  <2> QED BY <2>2, <2>3 DEF TypeOK
<1>4. \A u \in Requests : \/ state'[u] = state[u]
                          \/ state'[u] = "closed" /\ state[u] \in {"answered", "closed"}
  BY <1>1, <1>3
<1>5. \A u \in Requests : NoChild(u)' <=> NoChild(u)
  BY <1>1 DEF NoChild
<1>6. TaskInv'
  BY <1>1, <1>4, <1>5 DEF TaskInv
<1>7. ChildInv'
  <2> SUFFICES ASSUME NEW u \in Requests, parent[u] # None
               PROVE  /\ \A v \in Requests : parent[v] = parent[u] => v = u
                      /\ state'[u] = "pending" => finish[parent[u]] = "request_foward"
                      /\ state'[u] # "pending" =>
                           IF state'[parent[u]] = "pending"
                             THEN status[parent[u]] = answer[u]
                             ELSE answer[parent[u]] = answer[u]
    BY <1>1 DEF ChildInv
  <2>1. parent[u] \in Requests
    BY DEF TypeOK
  <2> QED BY <1>4, <2>1 DEF ChildInv
<1>8. \A u \in Requests, q \in Procs : Goes(u, q) => Goes(u, q)'
  BY <1>1, <1>4, <1>5 DEF Goes
<1>9. \A u \in Requests : Waits(u)' <=> Waits(u)
  BY <1>1, <1>4 DEF Waits
<1> QED BY <1>1, <1>2, <1>4, <1>6, <1>7, <1>8, <1>9, StayStep

\* What is known of the task that a process runs.
LEMMA RunFacts ==
    ASSUME SysInv, NEW p \in Procs, pc[p] = "run"
    PROVE  /\ cur[p] \in Requests /\ Goes(cur[p], p) /\ ~Waits(cur[p])
           /\ state[cur[p]] = "pending"
           /\ home[cur[p]] \in Workers /\ proc[cur[p]] \in Consumers
<1>1. cur[p] \in Requests
  BY DEF SysInv, TypeOK
<1>2. Goes(cur[p], p) /\ ~Waits(cur[p])
  BY <1>1, NoneAssumption DEF SysInv, RouteInv, UniqueInv
<1>3. state[cur[p]] = "pending"
  BY <1>2 DEF Goes
<1> QED BY <1>1, <1>2, <1>3 DEF SysInv, TaskInv

\* The end of a method and of a forwarding: the consumer changes only the task
\* it runs, and sends it home.
LEMMA ConsumerMove ==
    ASSUME SysInv, NEW c \in Consumers, pc[c] = "run",
           HandOver(c, cur[c], home[cur[c]]),
           finish'[cur[c]] # "none",
           finish'[cur[c]] = "request_foward" => NoChild(cur[c]),
           \A t \in Requests : t # cur[c] => finish'[t] = finish[t],
           UNCHANGED <<queue, state, home, parent, sub, proc>>
    PROVE  HandInv' /\ RouteInv' /\ UniqueInv' /\ SomewhereInv'
<1>1. PICK x \in Requests, y \in Workers : x = cur[c] /\ y = home[cur[c]]
  BY RunFacts DEF Procs
<1>2. c \in Procs /\ y \in Procs /\ y \notin Consumers
  BY DisjointAssumption DEF Procs
<1>3. /\ cur' = [cur EXCEPT ![c] = x] /\ target' = [target EXCEPT ![c] = y]
      /\ pc' = [pc EXCEPT ![c] = "push"] /\ queue' = queue
  BY <1>1 DEF HandOver, Goto
<1>4. Goes(x, y)'
  BY <1>1, <1>2, RunFacts DEF Goes, NoChild
<1>5. \A t : Waits(t)' <=> Waits(t)
  BY DEF Waits
<1>6. ~Waits(x)
  BY <1>1, <1>2, RunFacts
<1>7. \A t \in Requests, q \in Procs : t # x /\ Goes(t, q) => Goes(t, q)'
  BY <1>1 DEF Goes, NoChild
<1>8. x # None
  BY NoneAssumption
<1> QED BY <1>1, <1>2, <1>3, <1>4, <1>5, <1>6, <1>7, <1>8, MoveStep

LEMMA RunInterfaceInv ==
    ASSUME SysInv, NEW c \in Consumers, NEW st \in {OK, ServerError}, RunInterface(c, st)
    PROVE  SysInv'
<1> USE DEF SysInv
<1>1. PICK t \in Requests : t = cur[c]
  BY RunFacts DEF Procs, RunInterface
<1>2. c \in Procs /\ pc[c] = "run" /\ closure[t] = "method"
  BY <1>1 DEF RunInterface, Procs
<1>3. Goes(t, c) /\ ~Waits(t) /\ state[t] = "pending" /\ home[t] \in Workers /\ home[t] \in Procs
  BY <1>1, <1>2, RunFacts DEF Procs
<1>4. /\ status' = [status EXCEPT ![t] = st]
      /\ finish' = [finish EXCEPT ![t] = "request_finish"]
      /\ channel' = [channel EXCEPT ![t] = None]
      /\ HandOver(c, t, home[t])
      /\ UNCHANGED <<next, prev, queue, signal, armed, ret, inside, state, method, home,
                     parent, sub, answer, closure, proc, forward>>
  BY <1>1 DEF RunInterface, FinishRequest, listVars, procVars, reqVars
<1>5. TypeOK' /\ ListInv'
  BY ZenonT(40), <1>3, <1>4, NoneAssumption DEF HandOver, Goto, TypeOK, ListInv, Statuses
<1>6. /\ finish'[t] = "request_finish" /\ channel'[t] = None
      /\ \A u \in Requests : u # t => /\ finish'[u] = finish[u] /\ channel'[u] = channel[u]
                                      /\ status'[u] = status[u]
  BY <1>4 DEF TypeOK
<1>7. NoChild(t) /\ forward[t] = None
  BY <1>2 DEF TaskInv
<1>8. TaskInv'
  <2>1. \A u \in Requests : NoChild(u)' <=> NoChild(u)
    BY <1>4 DEF NoChild
  <2>2. sub[t] = "none"
    BY <1>3 DEF Waits
  <2> QED BY <1>2, <1>3, <1>4, <1>6, <1>7, <2>1, <2>2 DEF TaskInv
<1>9. ChildInv'
  BY <1>4, <1>6, <1>7 DEF ChildInv, NoChild, TypeOK
<1> QED BY <1>1, <1>2, <1>4, <1>5, <1>6, <1>8, <1>9, ConsumerMove

LEMMA RunRequestStatusInv ==
    ASSUME SysInv, NEW c \in Consumers, RunRequestStatus(c)
    PROVE  SysInv'
<1> USE DEF SysInv
<1>1. PICK t \in Requests : t = cur[c]
  BY RunFacts DEF Procs, RunRequestStatus
<1>2. c \in Procs /\ pc[c] = "run" /\ closure[t] = "method"
  BY <1>1 DEF RunRequestStatus, Procs
<1>3. Goes(t, c) /\ ~Waits(t) /\ state[t] = "pending" /\ home[t] \in Workers /\ home[t] \in Procs
  BY <1>1, <1>2, RunFacts DEF Procs
<1>4. /\ forward' = [forward EXCEPT ![t] = c]
      /\ finish' = [finish EXCEPT ![t] = "request_foward"]
      /\ channel' = [channel EXCEPT ![t] = c]
      /\ closure' = [closure EXCEPT ![t] = "foward_done"]
      /\ HandOver(c, t, home[t])
      /\ UNCHANGED <<next, prev, queue, signal, armed, ret, inside, state, method, home,
                     parent, sub, answer, status, proc>>
  BY <1>1 DEF RunRequestStatus, ForwardRequest, listVars, procVars, reqVars
<1>5. TypeOK' /\ ListInv'
  BY ZenonT(40), <1>3, <1>4, NoneAssumption DEF HandOver, Goto, TypeOK, ListInv
<1>6. /\ finish'[t] = "request_foward" /\ channel'[t] = c /\ forward'[t] = c
      /\ closure'[t] = "foward_done"
      /\ \A u \in Requests : u # t => /\ finish'[u] = finish[u] /\ channel'[u] = channel[u]
                                      /\ forward'[u] = forward[u] /\ closure'[u] = closure[u]
  BY <1>4 DEF TypeOK
<1>7. NoChild(t)
  BY <1>2 DEF TaskInv
<1>8. proc[t] = c
  BY <1>3 DEF Goes
<1>9. TaskInv'
  <2>1. \A u \in Requests : NoChild(u)' <=> NoChild(u)
    BY <1>4 DEF NoChild
  <2> QED BY <1>3, <1>4, <1>6, <1>7, <1>8, <2>1 DEF TaskInv
<1>10. ChildInv'
  BY <1>4, <1>6, <1>7 DEF ChildInv, NoChild, TypeOK
<1> QED BY <1>1, <1>2, <1>4, <1>5, <1>6, <1>7, <1>9, <1>10, ConsumerMove

LEMMA RunFowardDoneInv ==
    ASSUME SysInv, NEW c \in Consumers, RunFowardDone(c)
    PROVE  SysInv'
<1> USE DEF SysInv
<1>1. PICK t \in Requests : t = cur[c]
  BY RunFacts DEF Procs, RunFowardDone
<1>2. c \in Procs /\ pc[c] = "run" /\ closure[t] = "foward_done"
  BY <1>1 DEF RunFowardDone, Procs
<1>3. Goes(t, c) /\ ~Waits(t) /\ state[t] = "pending" /\ home[t] \in Workers /\ home[t] \in Procs
  BY <1>1, <1>2, RunFacts DEF Procs
<1>4. /\ status' = [status EXCEPT ![t] = status[t]]
      /\ finish' = [finish EXCEPT ![t] = "request_finish"]
      /\ channel' = [channel EXCEPT ![t] = None]
      /\ forward' = [forward EXCEPT ![t] = None]
      /\ HandOver(c, t, home[t])
      /\ UNCHANGED <<next, prev, queue, signal, armed, ret, inside, state, method, home,
                     parent, sub, answer, closure, proc>>
  BY <1>1 DEF RunFowardDone, RequestStatusForwardDone, FinishRequest,
              listVars, procVars, reqVars
<1>5. TypeOK' /\ ListInv'
  BY ZenonT(40), <1>3, <1>4, NoneAssumption DEF HandOver, Goto, TypeOK, ListInv
<1>6. /\ status' = status
      /\ finish'[t] = "request_finish" /\ channel'[t] = None /\ forward'[t] = None
      /\ \A u \in Requests : u # t => /\ finish'[u] = finish[u] /\ channel'[u] = channel[u]
                                      /\ forward'[u] = forward[u]
  BY <1>4 DEF TypeOK
<1>7. sub[t] = "none" /\ \A u \in Requests : parent[u] = t => state[u] # "pending"
  BY <1>3 DEF Waits
<1>8. TaskInv'
  <2>1. \A u \in Requests : NoChild(u)' <=> NoChild(u)
    BY <1>4 DEF NoChild
  <2> QED BY <1>2, <1>3, <1>4, <1>6, <1>7, <2>1 DEF TaskInv
<1>9. ChildInv'
  BY <1>4, <1>6, <1>7 DEF ChildInv, TypeOK
<1> QED BY <1>1, <1>2, <1>4, <1>5, <1>6, <1>8, <1>9, ConsumerMove

\* The subrequest goes to another server, or nowhere: the parent waits.
LEMMA FowardUpstreamInv ==
    ASSUME SysInv, NEW w \in Workers, NEW how \in {"upstream", "failed"},
           FowardUpstream(w, how)
    PROVE  SysInv'
<1> USE DEF SysInv
<1>1. PICK t \in Requests : t = cur[w]
  BY RunFacts DEF Procs, FowardUpstream
<1>2. w \in Procs /\ pc[w] = "run" /\ finish[t] = "request_foward"
  BY <1>1 DEF FowardUpstream, Procs
<1>3. Goes(t, w) /\ ~Waits(t) /\ state[t] = "pending"
  BY <1>1, <1>2, RunFacts
<1>4. Resume(w) \in {"pop", "wait"}
  BY DEF Resume
<1>5. /\ sub' = [sub EXCEPT ![t] = how]
      /\ cur' = [cur EXCEPT ![w] = None] /\ target' = [target EXCEPT ![w] = None]
      /\ pc' = [pc EXCEPT ![w] = Resume(w)]
      /\ UNCHANGED <<next, prev, queue, signal, armed, ret, inside, state, method, home,
                     parent, answer, closure, finish, status, proc, channel, forward>>
  BY <1>1 DEF FowardUpstream, Release, Goto, listVars, procVars, taskVars
<1>6. TypeOK' /\ ListInv'
  BY <1>4, <1>5 DEF TypeOK, ListInv
<1>7. sub'[t] # "none" /\ \A u \in Requests : u # t => sub'[u] = sub[u]
  BY <1>5 DEF TypeOK
<1>8. NoChild(t)
  BY <1>2, <1>3 DEF Goes
<1>9. TaskInv'
  <2>1. \A u \in Requests : NoChild(u)' <=> NoChild(u)
    BY <1>5 DEF NoChild
  <2> QED BY <1>2, <1>5, <1>7, <1>8, <2>1 DEF TaskInv
<1>10. ChildInv'
  BY <1>5 DEF ChildInv
<1>11. \A u \in Requests, q \in Procs : Goes(u, q) => Goes(u, q)'
  BY <1>5 DEF Goes, NoChild
<1>12. Waits(t)' /\ \A u \in Requests : u # t => (Waits(u)' <=> Waits(u))
  BY <1>5, <1>7 DEF Waits
<1>13. Release(w) /\ queue' = queue /\ state' = state
  BY <1>5 DEF FowardUpstream
<1> QED BY <1>1, <1>2, <1>6, <1>9, <1>10, <1>11, <1>12, <1>13, ReleaseStep

\* A subrequest is over: a task without a subrequest of this module goes back to
\* its consumer.
LEMMA SubrequestMove ==
    ASSUME SysInv, NEW w \in Workers, NEW t \in Requests, NEW st \in Statuses,
           finish[t] = "request_foward", NoChild(t),
           t = cur[w] \/ (cur[w] = None /\ Waits(t)),
           SubrequestDone(w, t, st),
           sub'[t] = "none", \A u \in Requests : u # t => sub'[u] = sub[u],
           UNCHANGED <<queue, state, home, parent, answer, closure, finish, proc,
                       channel, forward>>
    PROVE  /\ TaskInv' /\ ChildInv'
           /\ HandInv' /\ RouteInv' /\ UniqueInv' /\ SomewhereInv'
<1> USE DEF SysInv
<1>1. state[t] = "pending" /\ proc[t] \in Consumers
  BY DEF TaskInv
<1>2. PICK y \in Consumers : y = proc[t]
  BY <1>1
<1>3. w \in Procs /\ y \in Procs /\ y \notin Workers
  BY DisjointAssumption DEF Procs
<1>4. /\ status' = [status EXCEPT ![t] = st]
      /\ cur' = [cur EXCEPT ![w] = t] /\ target' = [target EXCEPT ![w] = y]
      /\ pc' = [pc EXCEPT ![w] = "push"] /\ queue' = queue
  BY <1>2 DEF SubrequestDone, HandOver, Goto
<1>5. \A u \in Requests : u # t => status'[u] = status[u]
  BY <1>4 DEF TypeOK
<1>6. \A u \in Requests : NoChild(u)' <=> NoChild(u)
  BY DEF NoChild
<1>7. TaskInv'
  BY <1>6 DEF TaskInv
<1>8. ChildInv'
  BY <1>5 DEF ChildInv, NoChild, TypeOK
<1>9. Goes(t, y)'
  BY <1>1, <1>2, <1>3 DEF Goes
<1>10. \A u \in Requests, q \in Procs : Goes(u, q) => Goes(u, q)'
  BY <1>6 DEF Goes
<1>11. ~Waits(t)' /\ \A u \in Requests : u # t => (Waits(u)' <=> Waits(u))
  BY DEF Waits, NoChild
<1>12. t # None /\ state' = state
  BY NoneAssumption
<1>13. \A u \in Requests : u # t => u # cur[w]
  BY NoneAssumption
<1>14. HandInv' /\ RouteInv' /\ UniqueInv' /\ SomewhereInv'
  <2> HIDE DEF SysInv
  <2> QED BY <1>3, <1>4, <1>9, <1>10, <1>11, <1>12, <1>13, MoveStep
<1> QED BY <1>7, <1>8, <1>14

LEMMA SubrequestType ==
    ASSUME SysInv, NEW w \in Workers, NEW t \in Requests, NEW st \in Statuses,
           finish[t] = "request_foward", SubrequestDone(w, t, st),
           sub' \in [Requests -> {"none", "upstream", "failed"}],
           UNCHANGED <<listVars, queue, signal, procVars, state, method, home, parent,
                       answer, closure, finish, proc, channel, forward>>
    PROVE  TypeOK' /\ ListInv'
<1>1. proc[t] \in Consumers /\ w \in Procs /\ proc[t] \in Procs
  BY DEF SysInv, TaskInv, Procs
<1>2. proc[t] # None
  BY <1>1, NoneAssumption
<1> QED BY ZenonT(40), <1>1, <1>2, NoneAssumption
    DEF SysInv, SubrequestDone, HandOver, Goto, TypeOK, ListInv, listVars, procVars

LEMMA FowardNoMemoryInv ==
    ASSUME SysInv, NEW w \in Workers, FowardNoMemory(w)
    PROVE  SysInv'
<1>1. PICK t \in Requests : t = cur[w]
  BY RunFacts DEF Procs, FowardNoMemory
<1>2. w \in Procs /\ pc[w] = "run" /\ finish[t] = "request_foward"
  BY <1>1 DEF FowardNoMemory, Procs
<1>3. Goes(t, w) /\ ~Waits(t)
  BY <1>1, <1>2, RunFacts
<1>4. NoChild(t) /\ sub[t] = "none"
  BY <1>2, <1>3 DEF Goes, Waits
<1>5. /\ SubrequestDone(w, t, Unset)
      /\ UNCHANGED <<listVars, queue, signal, procVars, state, method, home, parent, sub,
                     answer, closure, finish, proc, channel, forward>>
  BY <1>1 DEF FowardNoMemory, reqVars
<1>6. Unset \in Statuses /\ sub' \in [Requests -> {"none", "upstream", "failed"}]
  BY <1>5 DEF Statuses, SysInv, TypeOK
<1>7. TypeOK' /\ ListInv'
  BY <1>2, <1>5, <1>6, SubrequestType
<1>8. sub'[t] = "none" /\ \A u \in Requests : sub'[u] = sub[u]
  BY <1>4, <1>5
<1> QED BY <1>1, <1>2, <1>4, <1>5, <1>6, <1>7, <1>8, SubrequestMove DEF SysInv

LEMMA UpstreamDoneInv ==
    ASSUME SysInv, NEW w \in Workers, NEW t \in Requests, NEW st \in Statuses,
           UpstreamDone(w, t, st)
    PROVE  SysInv'
<1>1. pc[w] = "wait" /\ sub[t] = "upstream" /\ w \in Procs
  BY DEF UpstreamDone, Procs
<1>2. cur[w] = None
  BY <1>1 DEF SysInv, HandInv
<1>3. NoChild(t) /\ finish[t] = "request_foward" /\ Waits(t)
  BY <1>1 DEF SysInv, TaskInv, Waits
<1>4. /\ SubrequestDone(w, t, st) /\ sub' = [sub EXCEPT ![t] = "none"]
      /\ UNCHANGED <<listVars, queue, signal, procVars, state, method, home, parent,
                     answer, closure, finish, proc, channel, forward>>
  BY DEF UpstreamDone
<1>5. /\ sub'[t] = "none" /\ \A u \in Requests : u # t => sub'[u] = sub[u]
      /\ sub' \in [Requests -> {"none", "upstream", "failed"}]
  BY <1>4 DEF SysInv, TypeOK
<1>6. TypeOK' /\ ListInv'
  BY <1>3, <1>4, <1>5, SubrequestType
<1> QED BY <1>2, <1>3, <1>4, <1>5, <1>6, SubrequestMove DEF SysInv

\* The status that is sent is one.
LEMMA StatusFacts ==
    ASSUME SysInv, NEW st \in Statuses
    PROVE  st # None
  BY UnsentAssumption

LEMMA RunFinishInv ==
    ASSUME SysInv, NEW w \in Workers, RunFinish(w)
    PROVE  SysInv'
<1> USE DEF SysInv
<1>1. PICK t \in Requests : t = cur[w]
  BY RunFacts DEF Procs, RunFinish
<1>2. w \in Procs /\ pc[w] = "run" /\ finish[t] = "request_finish"
  BY <1>1 DEF RunFinish, Procs
<1>3. Goes(t, w) /\ ~Waits(t) /\ state[t] = "pending"
  BY <1>1, <1>2, RunFacts
<1>4. PICK st \in Statuses, pr \in Requests \union {None} : st = status[t] /\ pr = parent[t]
  BY DEF TypeOK
<1>5. /\ Answer(w, t, st, pr)
      /\ UNCHANGED <<next, prev, queue, signal, armed, ret, inside, method, home, parent,
                     sub, closure, finish, proc, channel, forward>>
  BY <1>1, <1>4 DEF RunFinish, listVars, procVars
<1>6. /\ state' = [state EXCEPT ![t] = "answered"]
      /\ answer' = [answer EXCEPT ![t] = st]
  BY <1>5 DEF Answer
<1>7. /\ \A u \in Requests : u # t => state'[u] = state[u] /\ answer'[u] = answer[u]
      /\ state'[t] = "answered" /\ answer'[t] = st /\ answer'[t] # None
  BY <1>6, StatusFacts DEF TypeOK
<1>8. \A u \in Requests : NoChild(u)' <=> NoChild(u)
  BY <1>5 DEF NoChild
<1>9. TaskInv'
  BY <1>2, <1>3, <1>5, <1>7, <1>8 DEF TaskInv
<1>10. ListInv'
  BY <1>5 DEF ListInv
<1>11. \A u \in Requests, q \in Procs : u # t /\ Goes(u, q) => Goes(u, q)'
  BY <1>5, <1>7, <1>8 DEF Goes
<1>12. /\ \A u \in Requests : Waits(u)' => Waits(u)
       /\ \A u \in Requests : u # pr /\ Waits(u) => Waits(u)'
  BY <1>3, <1>4, <1>5, <1>7 DEF Waits
<1>13. sub[t] = "none" /\ \A u \in Requests : parent[u] = t => state[u] # "pending" /\ u # t
  BY <1>3 DEF Waits
<1>14. CASE pr = None
  <2>1. status' = [status EXCEPT ![t] = st] /\ Release(w)
    BY <1>5, <1>14 DEF Answer
  <2>2. status' = status
    BY <1>4, <2>1 DEF TypeOK
  <2>3. TypeOK'
    BY <1>5, <1>6, <2>1, <2>2 DEF TypeOK, Release, Goto, Resume
  <2>4. ChildInv'
    <3> SUFFICES ASSUME NEW u \in Requests, parent[u] # None
                 PROVE  /\ \A v \in Requests : parent[v] = parent[u] => v = u
                        /\ state'[u] = "pending" => finish[parent[u]] = "request_foward"
                        /\ state'[u] # "pending" =>
                             IF state'[parent[u]] = "pending"
                               THEN status[parent[u]] = answer'[u]
                               ELSE answer'[parent[u]] = answer'[u]
      BY <1>5, <2>2 DEF ChildInv
    <3>1. parent[u] \in Requests /\ u # t
      BY <1>4, <1>14 DEF TypeOK
    <3>2. CASE parent[u] = t
      BY <1>3, <1>4, <1>7, <1>13, <3>1, <3>2 DEF ChildInv
    <3>3. CASE parent[u] # t
      BY <1>7, <3>1, <3>3 DEF ChildInv
    <3> QED BY <3>2, <3>3
  <2>5. queue' = queue
    BY <1>5
  <2>6. \A u \in Requests : u # None
    BY NoneAssumption
  <2>7. HandInv' /\ RouteInv' /\ UniqueInv' /\ SomewhereInv'
    <3> HIDE DEF SysInv
    <3> QED BY <1>1, <1>2, <1>7, <1>11, <1>12, <1>14, <2>1, <2>5, <2>6, ReleaseStep
  <2> QED BY <1>9, <1>10, <2>3, <2>4, <2>7
<1>15. CASE pr # None
  <2>1. pr \in Requests /\ parent[t] = pr
    BY <1>4, <1>15
  <2>2. /\ status' = [status EXCEPT ![t] = st, ![pr] = st]
        /\ HandOver(w, pr, proc[pr])
    BY <1>5, <1>15 DEF Answer
  <2>3. /\ finish[pr] = "request_foward" /\ ~NoChild(pr)
        /\ \A v \in Requests : parent[v] = pr => v = t
    BY <1>3, <2>1, <1>15 DEF ChildInv, NoChild
  <2>4. /\ pr # t /\ state[pr] = "pending" /\ proc[pr] \in Consumers /\ sub[pr] = "none"
    BY <1>2, <2>1, <2>3 DEF TaskInv
  <2>5. PICK y \in Consumers : y = proc[pr]
    BY <2>4
  <2>6. y \in Procs /\ y \notin Workers /\ y # None
    BY DisjointAssumption, NoneAssumption DEF Procs
  <2>7. /\ cur' = [cur EXCEPT ![w] = pr] /\ target' = [target EXCEPT ![w] = y]
        /\ pc' = [pc EXCEPT ![w] = "push"] /\ queue' = queue
    BY <1>5, <2>2, <2>5 DEF HandOver, Goto
  <2>8. TypeOK'
    BY <1>5, <1>6, <1>15, <2>1, <2>2, <2>6, <2>7 DEF TypeOK
  <2>9. /\ status'[t] = status[t] /\ status'[pr] = st
        /\ \A u \in Requests : u # pr => status'[u] = status[u]
    BY <1>4, <2>1, <2>2, <2>4 DEF TypeOK
  <2>10. ChildInv'
    <3> SUFFICES ASSUME NEW u \in Requests, parent[u] # None
                 PROVE  /\ \A v \in Requests : parent[v] = parent[u] => v = u
                        /\ state'[u] = "pending" => finish[parent[u]] = "request_foward"
                        /\ state'[u] # "pending" =>
                             IF state'[parent[u]] = "pending"
                               THEN status'[parent[u]] = answer'[u]
                               ELSE answer'[parent[u]] = answer'[u]
      BY <1>5 DEF ChildInv
    <3>1. parent[u] \in Requests
      BY DEF TypeOK
    <3>2. CASE u = t
      BY <1>7, <2>1, <2>3, <2>4, <2>9, <3>2
    <3>3. CASE parent[u] = t
      BY <1>3, <1>4, <1>7, <1>13, <3>3 DEF ChildInv
    <3>4. CASE u # t /\ parent[u] # t
      BY <1>7, <2>3, <2>9, <3>1, <3>4 DEF ChildInv
    <3> QED BY <3>2, <3>3, <3>4
  <2>11. Goes(pr, y)'
    BY <1>5, <1>7, <2>1, <2>3, <2>4, <2>5, <2>6 DEF Goes
  <2>12. Waits(pr) /\ ~Waits(pr)'
    BY <1>3, <1>5, <1>7, <2>1, <2>3, <2>4 DEF Waits
  <2>13. \A u \in Requests : u # pr /\ state'[u] = "pending" =>
             state[u] = "pending" /\ (u = cur[w] \/ Waits(u) => Waits(u)')
    BY <1>1, <1>7, <1>12
  <2>14. HandInv' /\ RouteInv' /\ UniqueInv' /\ SomewhereInv'
    <3> HIDE DEF SysInv
    <3> QED BY ZenonT(40), <1>1, <1>2, <1>11, <1>12, <1>15, <2>7, <2>11, <2>12, <2>13, MoveStep
  <2> QED BY <1>9, <1>10, <2>8, <2>10, <2>14
<1> QED BY <1>14, <1>15

\* A list that is not empty gives a consumer, and stays a list.
LEMMA TakeIdle ==
    ASSUME SysInv, prev[Idles] # Idles,
           next' = [next EXCEPT ![Idles] = next[next[Idles]]],
           prev' = [prev EXCEPT ![next[next[Idles]]] = Idles]
    PROVE  /\ next[Idles] \in Consumers
           /\ next' \in [Links -> Links] /\ prev' \in [Links -> Links]
           /\ ListInv'
<1>1. next \in [Links -> Links] /\ prev \in [Links -> Links] /\ Idles \in Links
  BY DEF SysInv, TypeOK, Links
<1>2. next[Idles] \in Consumers
  BY <1>1 DEF SysInv, ListInv, Links
<1>3. next[next[Idles]] \in Links
  BY <1>1
<1>4. PICK n \in Links : n = next[next[Idles]]
  BY <1>3
<1>5. /\ \A x \in Links : next'[x] = IF x = Idles THEN n ELSE next[x]
      /\ \A x \in Links : prev'[x] = IF x = n THEN Idles ELSE prev[x]
      /\ next' \in [Links -> Links] /\ prev' \in [Links -> Links]
  BY <1>1, <1>4
<1> QED BY <1>1, <1>2, <1>5 DEF ListInv

\* The task of a new call, as Post and FowardLocal leave it: pending with its
\* consumer and in the hands of the worker.
LEMMA PostInv ==
    ASSUME SysInv, NEW w \in Workers, NEW t \in Requests, Post(w, t)
    PROVE  SysInv'
<1> USE DEF SysInv
<1>1. /\ w \in Procs /\ pc[w] = "wait" /\ state[t] = "reading"
      /\ closure' = [closure EXCEPT ![t] = "method"]
      /\ UNCHANGED <<queue, signal, armed, ret, inside, method, home, parent, sub, finish,
                     channel, forward>>
  BY DEF Post, Dispatch, Procs, procVars
<1>2. cur[w] = None /\ t # None
  BY <1>1, NoneAssumption DEF HandInv
<1>3. /\ closure'[t] = "method"
      /\ \A u \in Requests : u # t => closure'[u] = closure[u]
  BY <1>1 DEF TypeOK
<1>4. \A u \in Requests : NoChild(u)' <=> NoChild(u)
  BY <1>1 DEF NoChild
<1>5. /\ NoChild(t) /\ parent[t] = None /\ finish[t] = "none" /\ home[t] \in Workers
      /\ channel[t] = None /\ forward[t] = None /\ sub[t] = "none"
  BY <1>1 DEF TaskInv
<1>6. ~Waits(t)
  BY <1>5 DEF Waits, NoChild
<1>7. CASE /\ prev[Idles] = Idles
           /\ Answer(w, t, ServerError, None)
           /\ UNCHANGED <<listVars, proc>>
  <2>1. /\ state' = [state EXCEPT ![t] = "answered"]
        /\ answer' = [answer EXCEPT ![t] = ServerError]
        /\ status' = [status EXCEPT ![t] = ServerError]
        /\ Release(w)
        /\ UNCHANGED <<next, prev, proc>>
    BY <1>7 DEF Answer, listVars
  <2>2. ServerError \in Statuses /\ ServerError # None
    BY UnsentAssumption DEF Statuses
  <2>3. /\ state'[t] = "answered" /\ answer'[t] # None
        /\ \A u \in Requests : u # t => /\ state'[u] = state[u] /\ answer'[u] = answer[u]
                                        /\ status'[u] = status[u]
    BY <2>1, <2>2 DEF TypeOK
  <2>4. TypeOK' /\ ListInv'
    BY <1>1, <2>1, <2>2 DEF TypeOK, ListInv, Release, Goto, Resume
  <2>5. TaskInv'
    BY <1>1, <1>3, <1>4, <1>5, <2>1, <2>3 DEF TaskInv
  <2>6. ChildInv'
    BY <1>1, <1>5, <2>3 DEF ChildInv, NoChild, TypeOK
  <2>7. \A u \in Requests, q \in Procs : Goes(u, q) => Goes(u, q)'
    BY <1>1, <1>4, <2>1, <2>3 DEF Goes
  <2>8. \A u \in Requests : Waits(u)' <=> Waits(u)
    BY <1>1, <1>5, <2>3 DEF Waits
  <2>9. \A u \in Requests : state'[u] = "pending" =>
            state[u] = "pending" /\ u # cur[w]
    BY <1>2, <2>3, NoneAssumption
  <2>10. queue' = queue
    BY <1>1
  <2>11. HandInv' /\ RouteInv' /\ UniqueInv' /\ SomewhereInv'
    <3> HIDE DEF SysInv
    <3> QED BY <1>1, <2>1, <2>7, <2>8, <2>9, <2>10, ReleaseStep
  <2> QED BY <2>4, <2>5, <2>6, <2>11
<1>8. CASE /\ prev[Idles] # Idles
           /\ next' = [next EXCEPT ![Idles] = next[next[Idles]]]
           /\ prev' = [prev EXCEPT ![next[next[Idles]]] = Idles]
           /\ proc' = [proc EXCEPT ![t] = next[Idles]]
           /\ HandOver(w, t, next[Idles])
           /\ state' = [state EXCEPT ![t] = "pending"]
           /\ UNCHANGED <<answer, status>>
  <2>1. next' \in [Links -> Links] /\ prev' \in [Links -> Links] /\ ListInv'
    BY <1>8, TakeIdle
  <2>2. PICK y \in Consumers : y = next[Idles]
    BY <1>8, TakeIdle
  <2>3. y \in Procs /\ y \notin Workers /\ y # None
    BY DisjointAssumption, NoneAssumption DEF Procs
  <2>4. /\ cur' = [cur EXCEPT ![w] = t] /\ target' = [target EXCEPT ![w] = y]
        /\ pc' = [pc EXCEPT ![w] = "push"] /\ queue' = queue
        /\ proc' = [proc EXCEPT ![t] = y]
    BY <1>1, <1>8, <2>2 DEF HandOver, Goto
  <2>5. /\ state'[t] = "pending" /\ proc'[t] = y
        /\ \A u \in Requests : u # t => state'[u] = state[u] /\ proc'[u] = proc[u]
    BY <1>8, <2>4 DEF TypeOK
  <2>6. TypeOK'
    BY <1>1, <1>2, <1>8, <2>1, <2>3, <2>4 DEF TypeOK
  <2>7. TaskInv'
    BY <1>1, <1>3, <1>4, <1>5, <1>8, <2>5 DEF TaskInv
  <2>8. ChildInv'
    BY <1>1, <1>5, <1>8, <2>5 DEF ChildInv, NoChild, TypeOK
  <2>9. Goes(t, y)'
    BY <1>1, <1>5, <2>3, <2>5 DEF Goes
  <2>10. \A u \in Requests, q \in Procs : Goes(u, q) => Goes(u, q)'
    BY <1>1, <1>4, <2>5 DEF Goes
  <2>11. \A u \in Requests : Waits(u)' <=> Waits(u)
    BY <1>1, <1>5, <2>5, NoneAssumption DEF Waits
  <2>12. \A u \in Requests : u # t /\ state'[u] = "pending" =>
            state[u] = "pending" /\ u # cur[w]
    BY <1>2, <2>5, NoneAssumption
  <2>13. state[t] # "pending"
    BY <1>1
  <2>14. HandInv' /\ RouteInv' /\ UniqueInv' /\ SomewhereInv'
    <3> HIDE DEF SysInv
    <3>1. HandOver(w, t, y)
      BY <1>8, <2>2
    <3> QED BY <1>1, <1>6, <2>4, <2>9, <2>10, <2>11, <2>12, <2>13, <3>1, DispatchStep
  <2> QED BY <2>1, <2>6, <2>7, <2>8, <2>14
<1> QED BY <1>7, <1>8 DEF Post, Dispatch

\* The subrequest of a forwarded call: its parent waits for it, or gets the 500
\* of a subrequest that found no idle consumer.
LEMMA FowardLocalInv ==
    ASSUME SysInv, NEW w \in Workers, NEW u \in Requests, FowardLocal(w, u)
    PROVE  SysInv'
<1> USE DEF SysInv
<1>1. PICK t \in Requests : t = cur[w]
  BY RunFacts DEF Procs, FowardLocal
<1>2. /\ w \in Procs /\ pc[w] = "run" /\ finish[t] = "request_foward" /\ state[u] = "new"
      /\ home' = [home EXCEPT ![u] = w]
      /\ parent' = [parent EXCEPT ![u] = t]
      /\ closure' = [closure EXCEPT ![u] = "method"]
      /\ UNCHANGED <<queue, signal, armed, ret, inside, method, sub, finish, channel, forward>>
  BY <1>1 DEF FowardLocal, Dispatch, Procs, procVars
<1>3. Goes(t, w) /\ ~Waits(t) /\ state[t] = "pending" /\ proc[t] \in Consumers
  BY <1>1, <1>2, RunFacts
<1>4. /\ NoChild(t) /\ sub[t] = "none" /\ u # t /\ u # None /\ t # None
      /\ closure[t] = "foward_done"
  BY <1>2, <1>3, NoneAssumption DEF Goes, Waits, TaskInv, TypeOK
<1>5. /\ closure'[u] = "method" /\ home'[u] = w /\ parent'[u] = t
      /\ \A v \in Requests : v # u => /\ closure'[v] = closure[v] /\ home'[v] = home[v]
                                      /\ parent'[v] = parent[v]
  BY <1>2 DEF TypeOK
<1>6. /\ NoChild(u) /\ parent[u] = None /\ finish[u] = "none"
      /\ channel[u] = None /\ forward[u] = None /\ sub[u] = "none"
  BY <1>2 DEF TaskInv
<1>7. \A v \in Requests : v # t => (NoChild(v)' <=> NoChild(v))
  BY <1>5, <1>6, NoneAssumption DEF NoChild
<1>8. CASE /\ prev[Idles] = Idles
           /\ Answer(w, u, ServerError, t)
           /\ UNCHANGED <<listVars, proc>>
  <2>1. /\ state' = [state EXCEPT ![u] = "answered"]
        /\ answer' = [answer EXCEPT ![u] = ServerError]
        /\ status' = [status EXCEPT ![u] = ServerError, ![t] = ServerError]
        /\ HandOver(w, t, proc[t])
        /\ UNCHANGED <<next, prev, proc>>
    BY <1>4, <1>8 DEF Answer, listVars
  <2>2. ServerError \in Statuses /\ ServerError # None
    BY UnsentAssumption DEF Statuses
  <2>3. /\ state'[u] = "answered" /\ answer'[u] = ServerError /\ status'[t] = ServerError
        /\ \A v \in Requests : v # u => state'[v] = state[v] /\ answer'[v] = answer[v]
        /\ \A v \in Requests : v \notin {u, t} => status'[v] = status[v]
    BY <1>4, <2>1, <2>2 DEF TypeOK
  <2>4. PICK y \in Consumers : y = proc[t]
    BY <1>3
  <2>5. y \in Procs /\ y \notin Workers /\ y # None
    BY DisjointAssumption, NoneAssumption DEF Procs
  <2>6. /\ cur' = [cur EXCEPT ![w] = t] /\ target' = [target EXCEPT ![w] = y]
        /\ pc' = [pc EXCEPT ![w] = "push"] /\ queue' = queue
    BY <1>2, <2>1, <2>4 DEF HandOver, Goto
  <2>7. TypeOK' /\ ListInv'
    <3>1. /\ state' \in [Requests -> {"new", "reading", "pending", "answered", "closed"}]
          /\ answer' \in [Requests -> Statuses \union {BadRequest, None}]
          /\ status' \in [Requests -> Statuses]
      BY <2>1, <2>2 DEF TypeOK
    <3>2. /\ cur' \in [Procs -> Requests \union {None}]
          /\ target' \in [Procs -> Procs \union {None}]
          /\ pc' \in [Procs -> {"wait", "read", "write", "pop", "run", "push",
                                "signal", "insert", "hung"}]
      BY <2>5, <2>6 DEF TypeOK
    <3>3. \A p \in Procs : /\ pc'[p] \in {"run", "push", "hung"} => cur'[p] # None
                           /\ pc'[p] \in {"push", "signal"} => target'[p] # None
      BY <1>2, <2>5, <2>6, NoneAssumption DEF TypeOK
    <3>4. /\ home' \in [Requests -> Workers \union {None}]
          /\ parent' \in [Requests -> Requests \union {None}]
          /\ closure' \in [Requests -> {"none", "method", "foward_done"}]
          /\ UNCHANGED <<signal, armed, ret, inside, method, sub, finish, channel, forward>>
      BY <1>2 DEF TypeOK
    <3> QED BY <2>1, <2>6, <3>1, <3>2, <3>3, <3>4 DEF TypeOK, ListInv
  <2>8. TaskInv'
    BY <1>2, <1>3, <1>4, <1>5, <1>6, <1>7, <2>1, <2>2, <2>3 DEF TaskInv
  <2>9. ChildInv'
    <3> SUFFICES ASSUME NEW x \in Requests, parent'[x] # None
                 PROVE  /\ \A v \in Requests : parent'[v] = parent'[x] => v = x
                        /\ state'[x] = "pending" => finish[parent'[x]] = "request_foward"
                        /\ state'[x] # "pending" =>
                             IF state'[parent'[x]] = "pending"
                               THEN status'[parent'[x]] = answer'[x]
                               ELSE answer'[parent'[x]] = answer'[x]
      BY <1>2 DEF ChildInv
    <3>1. CASE x = u
      BY <1>3, <1>4, <1>5, <2>3, <3>1 DEF NoChild
    <3>2. CASE x # u
      <4>1. /\ parent'[x] = parent[x] /\ parent[x] \in Requests
            /\ parent[x] # t /\ parent[x] # u
        BY <1>4, <1>5, <1>6, <3>2 DEF NoChild, TypeOK
      <4> QED BY <1>5, <2>3, <3>2, <4>1 DEF ChildInv
    <3> QED BY <3>1, <3>2
  <2>10. Goes(t, y)'
    BY <1>2, <1>3, <1>4, <2>1, <2>3, <2>4, <2>5 DEF Goes
  <2>11. \A v \in Requests, q \in Procs : v # t /\ Goes(v, q) => Goes(v, q)'
    BY <1>2, <1>5, <1>7, <2>1, <2>3 DEF Goes
  <2>12. \A v \in Requests : Waits(v)' <=> Waits(v)
    BY <1>2, <1>5, <1>6, <2>3, NoneAssumption DEF Waits
  <2>13. \A v \in Requests : v # t /\ state'[v] = "pending" => state[v] = "pending" /\ v # cur[w]
    BY <1>1, <2>3
  <2>14. HandInv' /\ RouteInv' /\ UniqueInv' /\ SomewhereInv'
    <3> HIDE DEF SysInv
    <3> QED BY ZenonT(40), <1>1, <1>2, <1>3, <1>4, <2>6, <2>10, <2>11, <2>12, <2>13, MoveStep
  <2> QED BY <2>7, <2>8, <2>9, <2>14
<1>9. CASE /\ prev[Idles] # Idles
           /\ next' = [next EXCEPT ![Idles] = next[next[Idles]]]
           /\ prev' = [prev EXCEPT ![next[next[Idles]]] = Idles]
           /\ proc' = [proc EXCEPT ![u] = next[Idles]]
           /\ HandOver(w, u, next[Idles])
           /\ state' = [state EXCEPT ![u] = "pending"]
           /\ UNCHANGED <<answer, status>>
  <2>1. next' \in [Links -> Links] /\ prev' \in [Links -> Links] /\ ListInv'
    BY <1>9, TakeIdle
  <2>2. PICK y \in Consumers : y = next[Idles]
    BY <1>9, TakeIdle
  <2>3. y \in Procs /\ y \notin Workers /\ y # None
    BY DisjointAssumption, NoneAssumption DEF Procs
  <2>4. /\ cur' = [cur EXCEPT ![w] = u] /\ target' = [target EXCEPT ![w] = y]
        /\ pc' = [pc EXCEPT ![w] = "push"] /\ queue' = queue
        /\ proc' = [proc EXCEPT ![u] = y]
    BY <1>2, <1>9, <2>2 DEF HandOver, Goto
  <2>5. /\ state'[u] = "pending" /\ proc'[u] = y
        /\ \A v \in Requests : v # u => state'[v] = state[v] /\ proc'[v] = proc[v]
    BY <1>9, <2>4 DEF TypeOK
  <2>6. TypeOK'
    BY <1>2, <1>4, <1>9, <2>1, <2>3, <2>4 DEF TypeOK
  <2>7. TaskInv'
    BY <1>2, <1>3, <1>4, <1>5, <1>6, <1>7, <1>9, <2>5 DEF TaskInv
  <2>8. ChildInv'
    <3> SUFFICES ASSUME NEW x \in Requests, parent'[x] # None
                 PROVE  /\ \A v \in Requests : parent'[v] = parent'[x] => v = x
                        /\ state'[x] = "pending" => finish[parent'[x]] = "request_foward"
                        /\ state'[x] # "pending" =>
                             IF state'[parent'[x]] = "pending"
                               THEN status[parent'[x]] = answer[x]
                               ELSE answer[parent'[x]] = answer[x]
      BY <1>2, <1>9 DEF ChildInv
    <3>1. CASE x = u
      BY <1>2, <1>4, <1>5, <2>5, <3>1 DEF NoChild
    <3>2. CASE x # u
      <4>1. /\ parent'[x] = parent[x] /\ parent[x] \in Requests
            /\ parent[x] # t /\ parent[x] # u
        BY <1>4, <1>5, <1>6, <3>2 DEF NoChild, TypeOK
      <4> QED BY <1>5, <2>5, <3>2, <4>1 DEF ChildInv
    <3> QED BY <3>1, <3>2
  <2>9. Goes(u, y)'
    BY <1>2, <1>6, <2>3, <2>5 DEF Goes
  <2>10. \A v \in Requests, q \in Procs : v # t /\ Goes(v, q) => Goes(v, q)'
    BY <1>2, <1>5, <1>7, <2>5 DEF Goes
  <2>11. /\ Waits(t)' /\ ~Waits(u)'
         /\ \A v \in Requests : v # t => (Waits(v)' <=> Waits(v))
    <3>1. Waits(t)'
      BY <1>5, <2>5 DEF Waits
    <3>2. \A v \in Requests : v # t => (Waits(v)' <=> Waits(v))
      BY <1>2, <1>5, <1>6, <2>5, NoneAssumption DEF Waits
    <3>3. ~Waits(u)
      BY <1>6 DEF Waits, NoChild
    <3> QED BY <1>4, <3>1, <3>2, <3>3
  <2>12. \A v \in Requests : v # u /\ state'[v] = "pending" =>
            state[v] = "pending" /\ (v = cur[w] \/ Waits(v) => Waits(v)')
    BY <1>1, <2>5, <2>11
  <2>13. state[u] # "pending"
    BY <1>2
  <2>14. HandInv' /\ RouteInv' /\ UniqueInv' /\ SomewhereInv'
    <3> HIDE DEF SysInv
    <3>1. HandOver(w, u, y)
      BY <1>9, <2>2
    <3> QED BY <1>1, <1>2, <2>4, <2>9, <2>10, <2>11, <2>12, <2>13, <3>1, DispatchStep
  <2> QED BY <2>1, <2>6, <2>7, <2>8, <2>14
<1> QED BY <1>1, <1>8, <1>9 DEF FowardLocal, Dispatch
\* A consumer that hangs keeps the task that it ran.
LEMMA HangsInv == ASSUME SysInv, NEW c \in Consumers, Hangs(c) PROVE SysInv'
<1> USE DEF SysInv
<1>1. /\ c \in Procs /\ pc[c] = "run" /\ pc' = [pc EXCEPT ![c] = "hung"]
      /\ UNCHANGED <<next, prev, queue, signal, armed, ret, inside, cur, target, state,
                     method, home, parent, sub, answer, closure, finish, status, proc,
                     channel, forward>>
  BY DEF Hangs, Goto, Procs, listVars, procVars, reqVars, taskVars
<1>2. DOMAIN pc = Procs
  BY DEF TypeOK
<1>3. TypeOK' /\ ListInv'
  BY <1>1, <1>2 DEF TypeOK, ListInv
<1>4. HandInv'
  BY <1>1, <1>2 DEF HandInv
<1>5. TaskInv' /\ ChildInv'
  BY <1>1 DEF TaskInv, ChildInv, NoChild
<1>6. \A t, q : Goes(t, q)' <=> Goes(t, q)
  BY <1>1 DEF Goes, NoChild
<1>7. RouteInv'
  BY <1>1, <1>2, <1>6 DEF RouteInv
<1>8. UniqueInv' /\ SomewhereInv'
  BY <1>1 DEF UniqueInv, SomewhereInv, Somewhere, Waits
<1> QED BY <1>3, <1>4, <1>5, <1>7, <1>8
-----------------------------------------------------------------------------
(* The theorems *)

LEMMA NextSysInv == SysInv /\ [Next]_vars => SysInv'
<1> SUFFICES ASSUME SysInv, [Next]_vars PROVE SysInv'
  OBVIOUS
<1>1. ASSUME NEW p \in Procs, NotifyStep(p) PROVE SysInv'
  BY <1>1, ReadFdInv, WriteReadyInv, PopInv, PopEmptyInv, PushInv, SignalInv DEF NotifyStep
<1>2. ASSUME NEW w \in Workers, WorkerStep(w) PROVE SysInv'
  BY <1>1, <1>2, RunFinishInv, FowardUpstreamInv, FowardLocalInv, FowardNoMemoryInv
  DEF WorkerStep, Procs
<1>3. ASSUME NEW c \in Consumers, ConsumerStep(c) PROVE SysInv'
  BY <1>1, <1>3, RunInterfaceInv, RunRequestStatusInv, RunFowardDoneInv, HangsInv,
     IdleInsertInv
  DEF ConsumerStep, Procs
<1>4. ASSUME NEW w \in Workers, NEW t \in Requests, ClientStep(w, t) PROVE SysInv'
  BY <1>4, NewRequestInv, NoMemoryInv, NoBodyInv, PostInv, CloseInv DEF ClientStep
<1>5. ASSUME NEW t \in Requests, UpstreamStep(t) PROVE SysInv'
  BY <1>5, UpstreamDoneInv DEF UpstreamStep
<1>6. ASSUME UNCHANGED vars PROVE SysInv'
  <2> USE <1>6 DEF vars, listVars, procVars, reqVars, taskVars
  <2>1. TypeOK' /\ ListInv' /\ HandInv' /\ TaskInv' /\ ChildInv'
    BY DEF SysInv, TypeOK, ListInv, HandInv, TaskInv, ChildInv, NoChild
  <2>2. RouteInv' /\ UniqueInv' /\ SomewhereInv'
    BY DEF SysInv, RouteInv, Goes, NoChild, UniqueInv, SomewhereInv, Somewhere, Waits
  <2> QED BY <2>1, <2>2 DEF SysInv
<1> QED BY <1>2, <1>3, <1>4, <1>5, <1>6 DEF Next

\* The inductive invariant holds for any number of processes and requests.
THEOREM SystemInvariant == Spec => []SysInv
  BY InitSysInv, NextSysInv, PTL DEF Spec

\* Tasks, links and program counters keep their types: a process that runs or
\* pushes a task always has one, and a notify object to push it to.
THEOREM SystemTypeOK == Spec => []TypeOK
<1>1. SysInv => TypeOK
  BY DEF SysInv
<1> QED BY <1>1, SystemInvariant, PTL

LEMMA PlacesFacts ==
    ASSUME NEW t, NEW x
    PROVE  x \in Places(t) <=>
             \/ \E p \in Procs : \E i \in DOMAIN queue[p] :
                    queue[p][i] = t /\ x = <<"queue", <<p, i>>>>
             \/ \E p \in Procs : cur[p] = t /\ x = <<"hands", p>>
             \/ \E u \in Requests : parent[u] = t /\ state[u] = "pending" /\ x = <<"local", u>>
             \/ sub[t] # "none" /\ x = <<"server", sub[t]>>
<1>1. \A s : s \in Slots <=> \E p \in Procs : \E i \in DOMAIN queue[p] : s = <<p, i>>
  BY DEF Slots
<1>2. x \in {<<"queue", s>> : s \in {y \in Slots : queue[y[1]][y[2]] = t}} <=>
        \E p \in Procs : \E i \in DOMAIN queue[p] :
            queue[p][i] = t /\ x = <<"queue", <<p, i>>>>
  BY <1>1
<1>3. x \in {<<"server", s>> : s \in {sub[t]} \ {"none"}} <=>
        sub[t] # "none" /\ x = <<"server", sub[t]>>
  OBVIOUS
<1> QED BY <1>2, <1>3 DEF Places

\* The task of a request in flight is in exactly one queue, pair of hands or
\* waiting place, and that of any other request is nowhere.
THEOREM SystemOnePlace == Spec => []OnePlace
<1>1. ASSUME SysInv PROVE OnePlace
  <2> USE <1>1 DEF SysInv
  <2> SUFFICES ASSUME NEW t \in Requests
               PROVE  Cardinality(Places(t)) = IF state[t] = "pending" THEN 1 ELSE 0
    BY DEF OnePlace
  <2>1. /\ \A p \in Procs : \A i \in DOMAIN queue[p] :
               queue[p][i] = t => state[t] = "pending" /\ ~Waits(t)
        /\ \A p \in Procs : cur[p] = t => state[t] = "pending" /\ ~Waits(t)
    BY NoneAssumption DEF RouteInv, Goes, UniqueInv, HandInv
  <2>2. \A u \in Requests : parent[u] = t /\ state[u] = "pending" =>
            state[t] = "pending" /\ sub[t] = "none"
    BY NoneAssumption DEF ChildInv, TaskInv, NoChild
  <2>3. sub[t] # "none" => state[t] = "pending"
    BY DEF TaskInv
  <2>4. CASE state[t] # "pending"
    <3>1. Places(t) = {}
      BY <2>1, <2>2, <2>3, <2>4, PlacesFacts
    <3> QED BY <2>4, <3>1, FS_EmptySet
  <2>5. CASE state[t] = "pending"
    <3>1. Somewhere(t)
      BY <2>5 DEF SomewhereInv
    <3>2. ASSUME NEW p \in Procs, NEW i \in DOMAIN queue[p], queue[p][i] = t
          PROVE  \E x : Places(t) = {x}
      <4>1. Places(t) = {<<"queue", <<p, i>>>>}
        BY <2>1, <3>2, PlacesFacts DEF UniqueInv, Waits
      <4> QED BY <4>1
    <3>3. ASSUME NEW p \in Procs, cur[p] = t
          PROVE  \E x : Places(t) = {x}
      <4>1. Places(t) = {<<"hands", p>>}
        BY <2>1, <3>3, PlacesFacts, NoneAssumption DEF UniqueInv, Waits
      <4> QED BY <4>1
    <3>4. ASSUME NEW u \in Requests, parent[u] = t, state[u] = "pending"
          PROVE  \E x : Places(t) = {x}
      <4>1. Waits(t) /\ sub[t] = "none"
        BY <2>2, <3>4 DEF Waits
      <4>2. \A v \in Requests : parent[v] = t => v = u
        BY <3>4, NoneAssumption DEF ChildInv
      <4>3. Places(t) = {<<"local", u>>}
        BY <2>1, <3>4, <4>1, <4>2, PlacesFacts
      <4> QED BY <4>3
    <3>5. ASSUME sub[t] # "none"
          PROVE  \E x : Places(t) = {x}
      <4>1. Waits(t) /\ NoChild(t)
        BY <3>5 DEF Waits, TaskInv
      <4>2. Places(t) = {<<"server", sub[t]>>}
        BY <2>1, <3>5, <4>1, PlacesFacts DEF NoChild
      <4> QED BY <4>2
    <3>6. \E x : Places(t) = {x}
      BY <3>1, <3>2, <3>3, <3>4, <3>5 DEF Somewhere, Waits
    <3> QED BY <2>5, <3>6, FS_Singleton
  <2> QED BY <2>4, <2>5
<1> QED BY <1>1, SystemInvariant, PTL

\* Only the worker that has the ngx_http_request_t runs task->finish.
THEOREM SystemRequestIsLocal == Spec => []RequestIsLocal
<1>1. SysInv => RequestIsLocal
  BY RunFacts DEF RequestIsLocal, Goes, Procs
<1> QED BY <1>1, SystemInvariant, PTL

\* Only the consumer that has the channels runs foward_done, while it has both.
THEOREM SystemChannelIsLocal == Spec => []ChannelIsLocal
<1>1. ASSUME SysInv, NEW c \in Consumers, pc[c] = "run", closure[cur[c]] = "foward_done"
      PROVE  channel[cur[c]] = c /\ forward[cur[c]] = c
  <2>1. cur[c] \in Requests /\ Goes(cur[c], c)
    BY <1>1, RunFacts DEF Procs
  <2>2. finish[cur[c]] = "request_foward" /\ proc[cur[c]] = c
    BY <1>1, <2>1 DEF SysInv, TypeOK, TaskInv, Goes
  <2> QED BY <2>1, <2>2, <1>1 DEF SysInv, TaskInv
<1>2. SysInv => ChannelIsLocal
  BY <1>1 DEF ChannelIsLocal
<1> QED BY <1>2, SystemInvariant, PTL

\* Both channels of a call are deleted by the time its forwarding is over.
THEOREM SystemChannelsReleased == Spec => []ChannelsReleased
<1>1. SysInv => ChannelsReleased
  BY NoneAssumption DEF SysInv, TaskInv, ChannelsReleased
<1> QED BY <1>1, SystemInvariant, PTL

\* A forwarded call answers what its subrequest answered.
THEOREM SystemForwardedAnswer == Spec => []ForwardedAnswer
<1>1. ASSUME SysInv, NEW t \in Requests, NEW u \in Requests, parent[u] = t,
             state[t] \in {"answered", "closed"}
      PROVE  answer[u] # None /\ answer[t] = answer[u]
  <2>1. t # None
    BY NoneAssumption
  <2>2. state[u] # "pending"
    BY <1>1, <2>1 DEF SysInv, ChildInv, TaskInv
  <2>3. state[u] \in {"answered", "closed"}
    BY <1>1, <2>1, <2>2 DEF SysInv, TypeOK, TaskInv
  <2> QED BY <1>1, <2>1, <2>2, <2>3 DEF SysInv, ChildInv, TaskInv
<1>2. SysInv => ForwardedAnswer
  BY <1>1 DEF ForwardedAnswer
<1> QED BY <1>2, SystemInvariant, PTL

\* What is sent to the client is never replaced: no request is answered twice,
\* although its task comes back to the worker for every forwarding.
AnswerKept == \A t \in Requests : answer[t] # None => answer'[t] = answer[t]

\* ngx_http_rpc_request_finish and the error paths of the HTTP handlers finish a
\* request at most once.
THEOREM SystemAnswersOnce == Spec => [][AnswerKept]_vars
<1>1. ASSUME SysInv, [Next]_vars PROVE [AnswerKept]_vars
  <2>1. \A t \in Requests : state[t] \in {"new", "reading", "pending"} => answer[t] = None
    BY <1>1 DEF SysInv, TaskInv
  <2>2. ASSUME NEW t \in Requests, NEW st, answer[t] = None,
               answer' = [answer EXCEPT ![t] = st]
        PROVE  AnswerKept
    BY <1>1, <2>2 DEF SysInv, TypeOK, AnswerKept
  <2>3. ASSUME UNCHANGED answer PROVE AnswerKept
    BY <2>3 DEF AnswerKept
  <2>4. ASSUME NEW w \in Workers, NEW t \in Requests, NEW pr, Dispatch(w, t, pr),
               answer[t] = None
        PROVE  AnswerKept
    BY <2>2, <2>3, <2>4 DEF Dispatch, Answer
  <2>5. ASSUME NEW p \in Procs, NotifyStep(p) PROVE AnswerKept
    BY <2>3, <2>5
    DEF NotifyStep, ReadFd, WriteReady, Pop, PopEmpty, Push, Signal, reqVars
  <2>6. ASSUME NEW w \in Workers, WorkerStep(w) PROVE AnswerKept
    <3>1. ASSUME RunFinish(w) PROVE AnswerKept
      <4>1. cur[w] \in Requests /\ answer[cur[w]] = None
        BY <1>1, <2>1, <3>1, RunFacts DEF RunFinish, Procs
      <4> QED BY <2>2, <3>1, <4>1 DEF RunFinish, Answer
    <3>2. ASSUME NEW u \in Requests, FowardLocal(w, u) PROVE AnswerKept
      BY <2>1, <2>4, <3>2 DEF FowardLocal
    <3>3. ASSUME NEW how, FowardUpstream(w, how) PROVE AnswerKept
      BY <2>3, <3>3 DEF FowardUpstream
    <3>4. ASSUME FowardNoMemory(w) PROVE AnswerKept
      BY <2>3, <3>4 DEF FowardNoMemory, reqVars
    <3> QED BY <2>5, <2>6, <3>1, <3>2, <3>3, <3>4 DEF WorkerStep, Procs
  <2>7. ASSUME NEW c \in Consumers, ConsumerStep(c) PROVE AnswerKept
    BY <2>3, <2>5, <2>7
    DEF ConsumerStep, Procs, RunInterface, RunRequestStatus, RunFowardDone, Hangs, IdleInsert,
        reqVars
  <2>8. ASSUME NEW w \in Workers, NEW t \in Requests, ClientStep(w, t) PROVE AnswerKept
    <3>1. ASSUME NEW m, NewRequest(w, t, m) PROVE AnswerKept
      BY <2>3, <3>1 DEF NewRequest
    <3>2. ASSUME NoMemory(w, t) PROVE AnswerKept
      BY <2>1, <2>2, <3>2 DEF NoMemory
    <3>3. ASSUME NoBody(w, t) PROVE AnswerKept
      BY <2>1, <2>2, <3>3 DEF NoBody
    <3>4. ASSUME Post(w, t) PROVE AnswerKept
      BY <2>1, <2>4, <3>4 DEF Post
    <3>5. ASSUME Close(w, t) PROVE AnswerKept
      BY <2>3, <3>5 DEF Close
    <3> QED BY <2>8, <3>1, <3>2, <3>3, <3>4, <3>5 DEF ClientStep
  <2>9. ASSUME NEW t \in Requests, UpstreamStep(t) PROVE AnswerKept
    BY <2>3, <2>9 DEF UpstreamStep, UpstreamDone
  <2> QED BY <1>1, <2>6, <2>7, <2>8, <2>9 DEF Next
<1> QED BY <1>1, SystemInvariant, PTL DEF Spec
-----------------------------------------------------------------------------
(* No sleep over a task *)

\* A process is inside a handler of its notify object where it pops and runs
\* tasks, where it hangs and where a consumer lists itself, and outside where it waits for an
\* event or is about to call a handler.
InsideInv ==
    \A p \in Procs : /\ pc[p] \in {"pop", "run", "hung", "insert"} => inside[p]
                     /\ pc[p] \in {"wait", "read", "write"} => ~inside[p]

\* A process will not look into its queue again unless it is signalled: its
\* eventfd is at zero and it is past the pop that found the queue empty.
PastLastPop(p) == \/ pc[p] = "insert"
                  \/ ~inside[p] /\ pc[p] \notin {"read", "write"}
Unaware(p) == ~armed[p] /\ ~signal[p] /\ PastLastPop(p)
Coming(p) == \E q \in Procs : pc[q] = "signal" /\ target[q] = p

\* A task that such a process has in its queue has a sender that is between its
\* push and its write to the eventfd.
WakeInv == \A p \in Procs : Unaware(p) /\ queue[p] # <<>> => Coming(p)

\* A subrequest calls interface: it is not forwarded in its turn.
LeafInv ==
    \A u \in Requests :
        /\ parent[u] # None => method[u] = "interface" /\ closure[u] # "foward_done"
        /\ state[u] = "new" => method[u] = "interface"

RestInv == InsideInv /\ WakeInv /\ LeafInv

LEMMA InitRestInv == Init => RestInv
<1> SUFFICES ASSUME Init PROVE RestInv
  OBVIOUS
<1>1. InsideInv
  BY DEF Init, InsideInv
<1>2. WakeInv
  BY DEF Init, WakeInv
<1>3. LeafInv
  BY DEF Init, LeafInv
<1> QED BY <1>1, <1>2, <1>3 DEF RestInv

\* A handler moves on with its task or lets go of it.
LEMMA HandlerStep ==
    ASSUME TypeOK, InsideInv, WakeInv, NEW p \in Procs, NEW l,
           pc[p] = "run" \/ pc[p] = "wait", l = "push" \/ l = Resume(p),
           pc' = [pc EXCEPT ![p] = l],
           \A q \in Procs : q # p => target'[q] = target[q],
           queue' = queue, signal' = signal, procVars' = procVars
    PROVE  InsideInv' /\ WakeInv'
<1>1. /\ pc'[p] = l /\ \A q \in Procs : q # p => pc'[q] = pc[q]
      /\ queue' = queue /\ signal' = signal /\ armed' = armed /\ inside' = inside
  BY DEF TypeOK, procVars
<1>2. l \in {"push", "pop", "wait"} /\ (l = "pop" => inside[p]) /\ (l = "wait" => ~inside[p])
  BY DEF Resume
<1>3. InsideInv'
  BY <1>1, <1>2 DEF InsideInv
<1>4. \A q \in Procs : PastLastPop(q)' => PastLastPop(q)
  <2> SUFFICES ASSUME NEW q \in Procs, PastLastPop(q)' PROVE PastLastPop(q)
    OBVIOUS
  <2>1. CASE q = p
    BY <1>1, <1>2, <2>1 DEF PastLastPop
  <2>2. CASE q # p
    BY <1>1, <2>2 DEF PastLastPop
  <2> QED BY <2>1, <2>2
<1>5. \A q \in Procs : Coming(q) => Coming(q)'
  <2> SUFFICES ASSUME NEW q \in Procs, NEW r \in Procs, pc[r] = "signal", target[r] = q
               PROVE  Coming(q)'
    BY DEF Coming
  <2>1. r # p
    OBVIOUS
  <2> QED BY <1>1, <2>1 DEF Coming
<1>6. WakeInv'
  BY <1>1, <1>4, <1>5 DEF WakeInv, Unaware
<1> QED BY <1>3, <1>6

\* A handler that hangs has popped a task, and will not pop again.
LEMMA HangsStep ==
    ASSUME TypeOK, InsideInv, WakeInv, NEW c \in Consumers, Hangs(c)
    PROVE  InsideInv' /\ WakeInv'
<1>1. /\ c \in Procs /\ pc[c] = "run" /\ pc'[c] = "hung"
      /\ \A q \in Procs : q # c => pc'[q] = pc[q]
      /\ inside' = inside /\ armed' = armed /\ signal' = signal /\ target' = target
      /\ queue' = queue
  BY DEF Hangs, Goto, TypeOK, Procs, procVars
<1>2. inside[c]
  BY <1>1 DEF InsideInv
<1>3. InsideInv'
  BY <1>1, <1>2 DEF InsideInv
<1>4. \A q \in Procs : Coming(q) => Coming(q)'
  BY <1>1 DEF Coming
<1>5. \A q \in Procs : Unaware(q)' => Unaware(q)
  BY <1>1, <1>2 DEF Unaware, PastLastPop
<1>6. WakeInv'
  BY <1>1, <1>4, <1>5 DEF WakeInv
<1> QED BY <1>3, <1>6

\* A handler of the HTTP core that does not touch a notify object.
LEMMA OtherStep ==
    ASSUME InsideInv, WakeInv, UNCHANGED <<queue, signal, procVars, pc, target>>
    PROVE  InsideInv' /\ WakeInv'
  BY DEF InsideInv, WakeInv, Unaware, PastLastPop, Coming, procVars

\* The event handlers: the process looks into its queue.
LEMMA EnterStep ==
    ASSUME TypeOK, InsideInv, WakeInv, NEW p \in Procs, ReadFd(p) \/ WriteReady(p)
    PROVE  InsideInv' /\ WakeInv'
<1>1. /\ pc[p] \in {"wait", "read", "write"}
      /\ pc'[p] = "pop" /\ inside'[p]
      /\ \A q \in Procs : q # p => /\ pc'[q] = pc[q] /\ inside'[q] = inside[q]
                                   /\ armed'[q] = armed[q] /\ signal'[q] = signal[q]
      /\ queue' = queue /\ target' = target
  BY DEF ReadFd, WriteReady, CanRead, CanWrite, Goto, TypeOK
<1>2. InsideInv'
  BY <1>1 DEF InsideInv
<1>3. \A q \in Procs : Coming(q) => Coming(q)'
  BY <1>1 DEF Coming
<1>4. \A q \in Procs : Unaware(q)' => Unaware(q)
  <2> SUFFICES ASSUME NEW q \in Procs, Unaware(q)' PROVE Unaware(q)
    OBVIOUS
  <2>1. q # p
    BY <1>1 DEF Unaware, PastLastPop
  <2> QED BY <1>1, <2>1 DEF Unaware, PastLastPop
<1>5. WakeInv'
  BY <1>1, <1>3, <1>4 DEF WakeInv
<1> QED BY <1>2, <1>5

LEMMA PopStep ==
    ASSUME TypeOK, InsideInv, WakeInv, NEW p \in Procs, Pop(p)
    PROVE  InsideInv' /\ WakeInv'
<1>1. /\ pc[p] = "pop" /\ pc'[p] = "run"
      /\ \A q \in Procs : q # p => pc'[q] = pc[q] /\ queue'[q] = queue[q]
      /\ inside' = inside /\ armed' = armed /\ signal' = signal /\ target' = target
  BY DEF Pop, Goto, TypeOK, procVars
<1>2. inside[p]
  BY <1>1 DEF InsideInv
<1>3. InsideInv'
  BY <1>1, <1>2 DEF InsideInv
<1>4. \A q \in Procs : Coming(q) => Coming(q)'
  BY <1>1 DEF Coming
<1>5. \A q \in Procs : Unaware(q)' => q # p /\ Unaware(q)
  <2> SUFFICES ASSUME NEW q \in Procs, Unaware(q)' PROVE q # p /\ Unaware(q)
    OBVIOUS
  <2>1. q # p
    BY <1>1, <1>2 DEF Unaware, PastLastPop
  <2> QED BY <1>1, <2>1 DEF Unaware, PastLastPop
<1>6. WakeInv'
  BY <1>1, <1>4, <1>5 DEF WakeInv
<1> QED BY <1>3, <1>6

LEMMA PopEmptyStep ==
    ASSUME TypeOK, InsideInv, WakeInv, NEW p \in Procs, PopEmpty(p)
    PROVE  InsideInv' /\ WakeInv'
<1>01. /\ pc[p] = "pop" /\ queue[p] = <<>>
       /\ pc' = [pc EXCEPT ![p] = IF p \in Consumers THEN "insert" ELSE AfterHandler(p)]
       /\ inside' = [inside EXCEPT ![p] = p \in Consumers]
       /\ queue' = queue /\ armed' = armed /\ signal' = signal /\ target' = target
  BY DEF PopEmpty, Goto
<1>02. DOMAIN pc = Procs /\ DOMAIN inside = Procs
  BY DEF TypeOK
<1>03. inside'[p] = (p \in Consumers)
  BY <1>01, <1>02, Zenon
<1>04. /\ p \in Consumers => pc'[p] = "insert"
       /\ p \notin Consumers => pc'[p] = AfterHandler(p)
  BY <1>01, <1>02
<1>05. \A q \in Procs : q # p => pc'[q] = pc[q] /\ inside'[q] = inside[q]
  BY <1>01, <1>02
<1>1. /\ pc[p] = "pop" /\ queue[p] = <<>>
      /\ p \in Consumers => pc'[p] = "insert" /\ inside'[p]
      /\ p \notin Consumers => pc'[p] = AfterHandler(p) /\ ~inside'[p]
      /\ \A q \in Procs : q # p => pc'[q] = pc[q] /\ inside'[q] = inside[q]
      /\ queue' = queue /\ armed' = armed /\ signal' = signal /\ target' = target
  BY <1>01, <1>03, <1>04, <1>05, Zenon
<1>2. AfterHandler(p) \in {"read", "write", "wait"}
  BY DEF AfterHandler
<1>3. InsideInv'
  BY <1>1, <1>2 DEF InsideInv
<1>4. \A q \in Procs : Coming(q) => Coming(q)'
  BY <1>1 DEF Coming
<1>5. WakeInv'
  BY <1>1, <1>4 DEF WakeInv, Unaware, PastLastPop
<1> QED BY <1>3, <1>5

\* A consumer lists itself.  It does not look into its queue once more: a task
\* that was pushed after its last pop is followed by a signal.
LEMMA InsertStep ==
    ASSUME TypeOK, InsideInv, WakeInv, NEW c \in Consumers, IdleInsert(c)
    PROVE  InsideInv' /\ WakeInv'
<1>0. c \in Procs
  BY DEF Procs
<1>1. /\ pc[c] = "insert" /\ pc'[c] = AfterHandler(c) /\ ~inside'[c]
      /\ \A q \in Procs : q # c => pc'[q] = pc[q] /\ inside'[q] = inside[q]
      /\ queue' = queue /\ armed' = armed /\ signal' = signal /\ target' = target
  BY <1>0 DEF IdleInsert, Goto, TypeOK
<1>2. AfterHandler(c) \in {"read", "write", "wait"}
  BY DEF AfterHandler
<1>3. InsideInv'
  BY <1>1, <1>2 DEF InsideInv
<1>4. \A q \in Procs : Coming(q) => Coming(q)'
  BY <1>1 DEF Coming
<1>5. \A q \in Procs : Unaware(q)' => Unaware(q)
  BY <1>1 DEF Unaware, PastLastPop
<1>6. WakeInv'
  BY <1>1, <1>4, <1>5 DEF WakeInv
<1> QED BY <1>3, <1>6

\* The task is in the queue, and its sender is about to write to the eventfd.
LEMMA PushStep ==
    ASSUME TypeOK, InsideInv, WakeInv, NEW p \in Procs, Push(p)
    PROVE  InsideInv' /\ WakeInv'
<1>1. /\ pc[p] = "push" /\ pc'[p] = "signal"
      /\ \A q \in Procs : q # p => pc'[q] = pc[q]
      /\ \A q \in Procs : q # target[p] => queue'[q] = queue[q]
      /\ inside' = inside /\ armed' = armed /\ signal' = signal /\ target' = target
  BY DEF Push, Goto, TypeOK, procVars
<1>2. InsideInv'
  BY <1>1 DEF InsideInv
<1>3. \A q \in Procs : Coming(q) \/ q = target[p] => Coming(q)'
  BY <1>1 DEF Coming
<1>4. \A q \in Procs : Unaware(q)' => Unaware(q)
  BY <1>1 DEF Unaware, PastLastPop
<1>5. WakeInv'
  BY <1>1, <1>3, <1>4 DEF WakeInv
<1> QED BY <1>2, <1>5

LEMMA SignalStep ==
    ASSUME TypeOK, InsideInv, WakeInv, NEW p \in Procs, Signal(p)
    PROVE  InsideInv' /\ WakeInv'
<1>1. /\ pc[p] = "signal" /\ pc'[p] = Resume(p)
      /\ \A q \in Procs : q # p => pc'[q] = pc[q] /\ target'[q] = target[q]
      /\ \A q \in Procs : signal'[q] = IF q = target[p] THEN TRUE ELSE signal[q]
      /\ inside' = inside /\ armed' = armed /\ queue' = queue
  BY DEF Signal, Release, Goto, TypeOK, procVars
<1>2. /\ Resume(p) \in {"pop", "wait"}
      /\ Resume(p) = "pop" => inside[p]
      /\ Resume(p) = "wait" => ~inside[p]
  BY DEF Resume
<1>3. InsideInv'
  BY <1>1, <1>2 DEF InsideInv
<1>4. \A q \in Procs : Coming(q) /\ q # target[p] => Coming(q)'
  BY <1>1 DEF Coming
<1>5. \A q \in Procs : Unaware(q)' => q # target[p] /\ Unaware(q)
  <2> SUFFICES ASSUME NEW q \in Procs, Unaware(q)' PROVE q # target[p] /\ Unaware(q)
    OBVIOUS
  <2>1. q # target[p] /\ ~signal[q] /\ ~armed[q]
    BY <1>1 DEF Unaware
  <2>2. PastLastPop(q)
    BY <1>1, <1>2 DEF Unaware, PastLastPop
  <2> QED BY <2>1, <2>2 DEF Unaware
<1>6. WakeInv'
  BY <1>1, <1>4, <1>5 DEF WakeInv
<1> QED BY <1>3, <1>6

\* The handlers of the worker and of the consumer, and of the HTTP core, move on
\* with a task or let go of it.
LEMMA HandOverStep ==
    ASSUME TypeOK, InsideInv, WakeInv, NEW p \in Procs, NEW t, NEW y,
           pc[p] \in {"run", "wait"}, HandOver(p, t, y),
           UNCHANGED <<queue, signal, procVars>>
    PROVE  InsideInv' /\ WakeInv'
<1>1. PICK l : l = "push"
  OBVIOUS
<1>2. pc' = [pc EXCEPT ![p] = l] /\ \A q \in Procs : q # p => target'[q] = target[q]
  BY <1>1 DEF HandOver, Goto, TypeOK
<1>3. /\ l = "push" \/ l = Resume(p)
      /\ pc[p] = "run" \/ pc[p] = "wait"
      /\ queue' = queue /\ signal' = signal /\ procVars' = procVars
  BY <1>1
<1> QED BY <1>2, <1>3, HandlerStep

LEMMA LetGoStep ==
    ASSUME TypeOK, InsideInv, WakeInv, NEW p \in Procs,
           pc[p] \in {"run", "wait"}, Release(p),
           UNCHANGED <<queue, signal, procVars>>
    PROVE  InsideInv' /\ WakeInv'
<1>1. PICK l : l = Resume(p)
  OBVIOUS
<1>2. pc' = [pc EXCEPT ![p] = l] /\ \A q \in Procs : q # p => target'[q] = target[q]
  BY <1>1 DEF Release, Goto, TypeOK
<1>3. /\ l = "push" \/ l = Resume(p)
      /\ pc[p] = "run" \/ pc[p] = "wait"
      /\ queue' = queue /\ signal' = signal /\ procVars' = procVars
  BY <1>1
<1> QED BY <1>2, <1>3, HandlerStep

LEMMA NextWakeInv == ASSUME TypeOK, InsideInv, WakeInv, Next PROVE InsideInv' /\ WakeInv'
<1>1. ASSUME NEW p \in Procs, NotifyStep(p) PROVE InsideInv' /\ WakeInv'
  BY <1>1, EnterStep, PopStep, PopEmptyStep, PushStep, SignalStep DEF NotifyStep
<1>2. ASSUME NEW w \in Workers, NEW t, NEW st, NEW pr, Answer(w, t, st, pr),
             pc[w] \in {"run", "wait"}, UNCHANGED <<queue, signal, procVars>>
      PROVE  InsideInv' /\ WakeInv'
  BY <1>2, HandOverStep, LetGoStep DEF Answer, Procs
<1>3. ASSUME NEW w \in Workers, NEW t, NEW pr, Dispatch(w, t, pr),
             pc[w] \in {"run", "wait"}, UNCHANGED <<queue, signal, procVars>>
      PROVE  InsideInv' /\ WakeInv'
  BY <1>2, <1>3, HandOverStep DEF Dispatch, Procs
<1>4. ASSUME NEW w \in Workers, WorkerStep(w) PROVE InsideInv' /\ WakeInv'
  <2> w \in Procs
    BY DEF Procs
  <2>1. ASSUME RunFinish(w) PROVE InsideInv' /\ WakeInv'
    BY <1>2, <2>1 DEF RunFinish
  <2>2. ASSUME NEW how, FowardUpstream(w, how) PROVE InsideInv' /\ WakeInv'
    BY <2>2, LetGoStep DEF FowardUpstream
  <2>3. ASSUME NEW u \in Requests, FowardLocal(w, u) PROVE InsideInv' /\ WakeInv'
    BY <1>3, <2>3 DEF FowardLocal
  <2>4. ASSUME FowardNoMemory(w) PROVE InsideInv' /\ WakeInv'
    BY <2>4, HandOverStep DEF FowardNoMemory, SubrequestDone
  <2> QED BY <1>1, <1>4, <2>1, <2>2, <2>3, <2>4 DEF WorkerStep
<1>5. ASSUME NEW c \in Consumers, ConsumerStep(c) PROVE InsideInv' /\ WakeInv'
  <2> c \in Procs
    BY DEF Procs
  <2>1. ASSUME NEW st, RunInterface(c, st) PROVE InsideInv' /\ WakeInv'
    BY <2>1, HandOverStep DEF RunInterface, FinishRequest
  <2>2. ASSUME RunRequestStatus(c) PROVE InsideInv' /\ WakeInv'
    BY <2>2, HandOverStep DEF RunRequestStatus, ForwardRequest
  <2>3. ASSUME RunFowardDone(c) PROVE InsideInv' /\ WakeInv'
    BY <2>3, HandOverStep DEF RunFowardDone, RequestStatusForwardDone, FinishRequest
  <2> QED BY <1>1, <1>5, <2>1, <2>2, <2>3, HangsStep, InsertStep DEF ConsumerStep
<1>6. ASSUME NEW w \in Workers, NEW t \in Requests, ClientStep(w, t)
      PROVE  InsideInv' /\ WakeInv'
  <2>1. ASSUME Post(w, t) PROVE InsideInv' /\ WakeInv'
    BY <1>3, <2>1 DEF Post
  <2> QED BY <1>6, <2>1, OtherStep DEF ClientStep, NewRequest, NoMemory, NoBody, Close
<1>7. ASSUME NEW t \in Requests, UpstreamStep(t) PROVE InsideInv' /\ WakeInv'
  BY <1>7, HandOverStep DEF UpstreamStep, UpstreamDone, SubrequestDone, Procs
<1> QED BY <1>4, <1>5, <1>6, <1>7 DEF Next

\* Only NewRequest sets a method, and only RunRequestStatus makes a call wait for
\* a subrequest.
LEMMA NextLeafInv == ASSUME SysInv, LeafInv, Next PROVE LeafInv'
<1>0. TypeOK
  BY DEF SysInv
<1>1. ASSUME UNCHANGED <<method, parent, closure>>,
             \A u \in Requests : state'[u] = "new" => state[u] = "new"
      PROVE  LeafInv'
  BY <1>1 DEF LeafInv
<1>2. ASSUME NEW w \in Workers, NEW t \in Requests, NEW pr, Dispatch(w, t, pr)
      PROVE  /\ closure'[t] = "method"
             /\ \A u \in Requests : u # t => closure'[u] = closure[u]
             /\ \A u \in Requests : state'[u] = "new" => state[u] = "new" /\ u # t
  BY <1>0, <1>2 DEF Dispatch, Answer, TypeOK
<1>3. ASSUME NEW p \in Procs, NotifyStep(p) PROVE LeafInv'
  BY <1>1, <1>3
  DEF NotifyStep, ReadFd, WriteReady, Pop, PopEmpty, Push, Signal, reqVars, taskVars
<1>4. ASSUME NEW w \in Workers, WorkerStep(w) PROVE LeafInv'
  <2>1. ASSUME RunFinish(w) PROVE LeafInv'
    <3>1. \A u \in Requests : state'[u] = "new" => state[u] = "new"
      BY <1>0, <2>1 DEF RunFinish, Answer, TypeOK
    <3> QED BY <1>1, <2>1, <3>1 DEF RunFinish
  <2>2. ASSUME NEW how, FowardUpstream(w, how) PROVE LeafInv'
    BY <1>1, <2>2 DEF FowardUpstream, taskVars
  <2>3. ASSUME NEW u \in Requests, FowardLocal(w, u) PROVE LeafInv'
    <3>1. /\ method' = method /\ method[u] = "interface"
          /\ \A v \in Requests : v # u => parent'[v] = parent[v]
      BY <1>0, <2>3 DEF FowardLocal, LeafInv, TypeOK
    <3> QED BY <1>2, <2>3, <3>1 DEF FowardLocal, LeafInv
  <2>4. ASSUME FowardNoMemory(w) PROVE LeafInv'
    BY <1>1, <2>4 DEF FowardNoMemory, reqVars
  <2> QED BY <1>3, <1>4, <2>1, <2>2, <2>3, <2>4 DEF WorkerStep, Procs
<1>5. ASSUME NEW c \in Consumers, ConsumerStep(c) PROVE LeafInv'
  <2>1. ASSUME NEW st, RunInterface(c, st) PROVE LeafInv'
    BY <1>1, <2>1 DEF RunInterface, reqVars
  <2>2. ASSUME RunRequestStatus(c) PROVE LeafInv'
    <3>1. cur[c] \in Requests /\ parent[cur[c]] = None
      BY <2>2, RunFacts DEF RunRequestStatus, LeafInv, Procs
    <3>2. /\ \A u \in Requests : u # cur[c] => closure'[u] = closure[u]
          /\ UNCHANGED <<state, method, parent>>
      BY <1>0, <2>2 DEF RunRequestStatus, ForwardRequest, TypeOK, reqVars
    <3> QED BY <3>1, <3>2 DEF LeafInv
  <2>3. ASSUME RunFowardDone(c) PROVE LeafInv'
    BY <1>1, <2>3 DEF RunFowardDone, reqVars
  <2>4. ASSUME IdleInsert(c) \/ Hangs(c) PROVE LeafInv'
    BY <1>1, <2>4 DEF IdleInsert, Hangs, reqVars, taskVars
  <2> QED BY <1>3, <1>5, <2>1, <2>2, <2>3, <2>4 DEF ConsumerStep, Procs
<1>6. ASSUME NEW w \in Workers, NEW t \in Requests, ClientStep(w, t) PROVE LeafInv'
  <2>1. ASSUME NEW m, NewRequest(w, t, m) PROVE LeafInv'
    <3>1. parent[t] = None
      BY <2>1 DEF NewRequest, SysInv, TaskInv
    <3>2. /\ state'[t] = "reading" /\ parent' = parent /\ closure' = closure
          /\ \A u \in Requests : u # t => state'[u] = state[u] /\ method'[u] = method[u]
      BY <1>0, <2>1 DEF NewRequest, TypeOK, taskVars
    <3> QED BY <3>1, <3>2 DEF LeafInv
  <2>2. ASSUME NoMemory(w, t) \/ NoBody(w, t) \/ Close(w, t) PROVE LeafInv'
    <3>1. \A u \in Requests : state'[u] = "new" => state[u] = "new"
      BY <1>0, <2>2 DEF NoMemory, NoBody, Close, TypeOK
    <3> QED BY <1>1, <2>2, <3>1 DEF NoMemory, NoBody, Close, taskVars
  <2>3. ASSUME Post(w, t) PROVE LeafInv'
    <3>1. parent' = parent /\ method' = method
      BY <2>3 DEF Post
    <3>2. Dispatch(w, t, None)
      BY <2>3 DEF Post
    <3> QED BY <1>2, <3>1, <3>2 DEF LeafInv
  <2> QED BY <1>6, <2>1, <2>2, <2>3 DEF ClientStep
<1>7. ASSUME NEW t \in Requests, UpstreamStep(t) PROVE LeafInv'
  BY <1>1, <1>7 DEF UpstreamStep, UpstreamDone
<1> QED BY <1>4, <1>5, <1>6, <1>7 DEF Next

LEMMA SystemRestInv == Spec => [](SysInv /\ RestInv)
<1>1. SysInv /\ RestInv /\ [Next]_vars => RestInv'
  <2> SUFFICES ASSUME SysInv, RestInv, [Next]_vars PROVE RestInv'
    OBVIOUS
  <2>1. CASE Next
    BY <2>1, NextWakeInv, NextLeafInv DEF SysInv, RestInv
  <2>2. CASE UNCHANGED vars
    <3>1. InsideInv' /\ WakeInv'
      BY <2>2, OtherStep DEF RestInv, vars
    <3>2. LeafInv'
      BY <2>2 DEF RestInv, LeafInv, vars, reqVars, taskVars
    <3> QED BY <3>1, <3>2 DEF RestInv
  <2> QED BY <2>1, <2>2
<1> QED BY <1>1, InitRestInv, InitSysInv, NextSysInv, PTL DEF Spec

\* A process that sleeps over a task is about to be woken.
NoSleepOverTask == \A p \in Procs : Sleeps(p) /\ queue[p] # <<>> => Coming(p)

\* No wake-up is lost on the way of a request: whichever process goes to sleep
\* while a task is in its queue, the sender of a task is about to write to its
\* eventfd.
THEOREM SystemNoLostWakeup == Spec => []NoSleepOverTask
<1>1. RestInv => NoSleepOverTask
  BY DEF RestInv, InsideInv, WakeInv, NoSleepOverTask, Sleeps, Unaware, PastLastPop
<1> QED BY <1>1, SystemRestInv, PTL

\* The processes never all go to sleep with work left: then no task is queued and
\* a request without an answer is one whose subrequest is with another server or
\* could not be started.
THEOREM SystemRestsWhenDone == Spec => []RestsWhenDone
<1>1. SysInv /\ RestInv => RestsWhenDone
  <2> SUFFICES ASSUME SysInv, RestInv, \A p \in Procs : Sleeps(p)
               PROVE  /\ \A p \in Procs : queue[p] = <<>>
                      /\ \A t \in Requests : state[t] = "pending" => sub[t] # "none"
    BY DEF RestsWhenDone
  <2>1. \A p \in Procs : pc[p] = "wait" /\ cur[p] = None
    BY DEF Sleeps, SysInv, HandInv
  <2>2. \A p \in Procs : queue[p] = <<>>
    BY <2>1 DEF RestInv, InsideInv, WakeInv, Coming, Sleeps, Unaware, PastLastPop
  <2>3. \A t \in Requests : state[t] = "pending" => Waits(t)
    <3>1. \A p \in Procs : \A t \in Requests : cur[p] # t
      BY <2>1, NoneAssumption
    <3>2. \A p \in Procs : DOMAIN queue[p] = {}
      BY <2>2
    <3> QED BY <3>1, <3>2 DEF SysInv, SomewhereInv, Somewhere
  <2>4. \A u \in Requests : parent[u] # None => ~Waits(u)
    BY NoneAssumption DEF SysInv, TaskInv, NoChild, RestInv, LeafInv, Waits
  <2>5. \A t \in Requests : state[t] = "pending" => sub[t] # "none"
    BY <2>3, <2>4, NoneAssumption DEF Waits
  <2> QED BY <2>2, <2>5
<1> QED BY <1>1, SystemRestInv, PTL
-----------------------------------------------------------------------------
(* Every notify object is used as RpcMailbox, which RpcNotify implements,   *)
(* demands of its users                                                     *)

LEMMA MailboxInit == ASSUME NEW q \in Procs, Init PROVE Mailbox(q)!Init
  BY DEF Init, Mailbox!Init, Pushing, Handling

\* A step of p that takes no task and gives none away.
LEMMA MailboxQuiet ==
    ASSUME NEW q \in Procs, NEW p \in Procs, queue' = queue, cur' = cur,
           pc[p] \notin {"run", "hung", "push"}, pc'[p] \notin {"run", "hung", "push"},
           \A r \in Procs : r # p => pc'[r] = pc[r] /\ target'[r] = target[r]
    PROVE  UNCHANGED Mailbox(q)!vars
<1>1. Pushing(q)' = Pushing(q)
  BY DEF Pushing
<1>2. Handling(q)' = Handling(q)
  BY DEF Handling
<1> QED BY <1>1, <1>2 DEF Mailbox!vars

LEMMA MailboxPop ==
    ASSUME TypeOK, NEW q \in Procs, NEW p \in Procs, Pop(p)
    PROVE  [Mailbox(q)!Next]_(Mailbox(q)!vars)
<1>1. /\ pc[p] = "pop" /\ pc'[p] = "run" /\ queue[p] # <<>>
      /\ cur'[p] = Head(queue[p]) /\ queue'[p] = Tail(queue[p]) /\ target' = target
      /\ \A r \in Procs : r # p => /\ pc'[r] = pc[r] /\ cur'[r] = cur[r]
                                   /\ queue'[r] = queue[r]
  BY DEF Pop, Goto, TypeOK
<1>2. Pushing(q)' = Pushing(q)
  BY <1>1 DEF Pushing
<1>3. CASE q = p
  <2>1. Handling(q) = None /\ Handling(q)' = Head(queue[q])
    BY <1>1, <1>3 DEF Handling
  <2>2. Mailbox(q)!Take
    BY <1>1, <1>2, <1>3, <2>1 DEF Mailbox!Take
  <2> QED BY <2>2 DEF Mailbox!Next
<1>4. CASE q # p
  <2>1. Handling(q)' = Handling(q)
    BY <1>1, <1>4 DEF Handling
  <2> QED BY <1>1, <1>2, <1>4, <2>1 DEF Mailbox!vars
<1> QED BY <1>3, <1>4

LEMMA MailboxPush ==
    ASSUME TypeOK, NEW q \in Procs, NEW p \in Procs, Push(p)
    PROVE  [Mailbox(q)!Next]_(Mailbox(q)!vars)
<1>1. /\ pc[p] = "push" /\ pc'[p] = "signal" /\ target' = target
      /\ cur[p] # None /\ target[p] \in Procs
      /\ queue'[target[p]] = Append(queue[target[p]], cur[p])
      /\ \A r \in Procs : r # p => pc'[r] = pc[r] /\ cur'[r] = cur[r]
      /\ \A r \in Procs : r # target[p] => queue'[r] = queue[r]
  BY DEF Push, Goto, TypeOK
<1>2. Handling(q)' = Handling(q)
  BY <1>1 DEF Handling
<1>3. CASE q = target[p]
  <2>1. Pushing(q)[p] = cur[p] /\ Pushing(q)' = [Pushing(q) EXCEPT ![p] = None]
    BY <1>1, <1>3 DEF Pushing
  <2>2. queue'[q] = Append(queue[q], cur[p])
    BY <1>1, <1>3
  <2>3. Mailbox(q)!Put(p)
    BY <1>1, <1>2, <2>1, <2>2 DEF Mailbox!Put
  <2> QED BY <2>3 DEF Mailbox!Next
<1>4. CASE q # target[p]
  <2>1. Pushing(q)' = Pushing(q)
    BY <1>1, <1>4 DEF Pushing
  <2> QED BY <1>1, <1>2, <1>4, <2>1 DEF Mailbox!vars
<1> QED BY <1>3, <1>4

\* A handler of p ends, with a task for another process or without.
Ends(p) ==
    /\ pc[p] \in {"run", "wait"} /\ pc'[p] \in {"push", "pop", "wait"}
    /\ queue' = queue
    /\ \A r \in Procs : r # p => /\ pc'[r] = pc[r] /\ cur'[r] = cur[r]
                                 /\ target'[r] = target[r]
    /\ pc'[p] = "push" => target'[p] \in Procs \ {p}

\* The receiver of a task that it hands on has done with it, and the task is then
\* in no mailbox: SysInv' says that it is nowhere but in the hands of p.
LEMMA MailboxEnds ==
    ASSUME SysInv, SysInv', NEW q \in Procs, NEW p \in Procs, Ends(p)
    PROVE  [Mailbox(q)!Next]_(Mailbox(q)!vars)
<1>1. /\ pc[p] \in {"run", "wait"} /\ pc'[p] \in {"push", "pop", "wait"}
      /\ queue' = queue
      /\ \A r \in Procs : r # p => /\ pc'[r] = pc[r] /\ cur'[r] = cur[r]
                                   /\ target'[r] = target[r]
      /\ pc'[p] = "push" => target'[p] \in Procs /\ target'[p] # p
  BY DEF Ends
<1>2. CASE q = p
  <2>1. Pushing(q)' = Pushing(q)
    BY <1>1, <1>2 DEF Pushing
  <2>2. Handling(q)' = None
    BY <1>1, <1>2 DEF Handling
  <2>3. CASE Handling(q) = None
    BY <1>1, <2>1, <2>2, <2>3 DEF Mailbox!vars
  <2>4. CASE Handling(q) # None
    BY <1>1, <2>1, <2>2, <2>4 DEF Mailbox!Done, Mailbox!Next
  <2> QED BY <2>3, <2>4
<1>3. CASE q # p
  <2>1. Handling(q)' = Handling(q)
    BY <1>1, <1>3 DEF Handling
  <2>2. CASE pc'[p] = "push" /\ target'[p] = q
    <3>1. cur'[p] \in Requests /\ cur'[p] # None
      BY <2>2 DEF SysInv, TypeOK
    <3>2. PICK t \in Requests : t = cur'[p]
      BY <3>1
    <3>3. \A r \in Procs : r # p => cur[r] # t
      <4>1. \A r \in Procs : cur'[p] = cur'[r] => p = r
        BY <3>1 DEF SysInv, UniqueInv
      <4> QED BY <1>1, <3>2, <4>1
    <3>4. t \notin Mailbox(q)!Contents
      <4>1. \A i \in DOMAIN queue'[q] : queue'[q][i] # cur'[p]
        BY DEF SysInv, UniqueInv
      <4> QED BY <1>1, <3>2, <4>1 DEF Mailbox!Contents
    <3>5. t # Handling(q)
      BY <1>3, <3>1, <3>2, <3>3 DEF Handling
    <3>6. /\ Pushing(q)[p] = None
          /\ \A r \in Procs : Pushing(q)[r] # t
          /\ Pushing(q)' = [Pushing(q) EXCEPT ![p] = t]
      BY <1>1, <2>2, <3>1, <3>2, <3>3 DEF Pushing
    <3>7. Mailbox(q)!Begin(p, t)
      BY <1>1, <2>1, <3>4, <3>5, <3>6 DEF Mailbox!Begin
    <3> QED BY <3>7 DEF Mailbox!Next
  <2>3. CASE ~(pc'[p] = "push" /\ target'[p] = q)
    <3>1. Pushing(q)' = Pushing(q)
      BY <1>1, <2>3 DEF Pushing
    <3> QED BY <1>1, <2>1, <3>1 DEF Mailbox!vars
  <2> QED BY <2>2, <2>3
<1> QED BY <1>2, <1>3

\* The handlers end with a task for a process of the other kind, or without one.
LEMMA HandOverEnds ==
    ASSUME SysInv, NEW p \in Procs, NEW t, NEW y, HandOver(p, t, y), queue' = queue,
           pc[p] \in {"run", "wait"}, y \in Procs \ {p}
    PROVE  Ends(p)
  BY DEF SysInv, TypeOK, HandOver, Goto, Ends

LEMMA ReleaseEnds ==
    ASSUME SysInv, NEW p \in Procs, Release(p), queue' = queue,
           pc[p] \in {"run", "wait"}
    PROVE  Ends(p)
<1>1. Resume(p) \in {"pop", "wait"}
  BY DEF Resume
<1> QED BY <1>1 DEF SysInv, TypeOK, Release, Goto, Ends

LEMMA WorkerEnds ==
    ASSUME SysInv, SysInv', NEW w \in Workers, NEW t \in Requests, HandOver(w, t, proc[t]),
           queue' = queue, pc[w] \in {"run", "wait"}
    PROVE  Ends(w)
<1>1. w \in Procs /\ proc[t] \in Consumers \union {None}
  BY DEF Procs, SysInv, TypeOK
<1>2. pc'[w] = "push" /\ target'[w] = proc[t]
  BY <1>1 DEF HandOver, Goto, SysInv, TypeOK
<1>3. target'[w] # None
  BY <1>1, <1>2 DEF SysInv, TypeOK
<1>4. proc[t] \in Procs \ {w}
  BY <1>1, <1>2, <1>3, DisjointAssumption DEF Procs
<1> QED BY <1>1, <1>4, HandOverEnds

LEMMA ConsumerEnds ==
    ASSUME SysInv, SysInv', NEW c \in Consumers, NEW t \in Requests, HandOver(c, t, home[t]),
           queue' = queue, pc[c] = "run"
    PROVE  Ends(c)
<1>1. c \in Procs /\ home[t] \in Workers \union {None}
  BY DEF Procs, SysInv, TypeOK
<1>2. pc'[c] = "push" /\ target'[c] = home[t]
  BY <1>1 DEF HandOver, Goto, SysInv, TypeOK
<1>3. target'[c] # None
  BY <1>1, <1>2 DEF SysInv, TypeOK
<1>4. home[t] \in Procs \ {c}
  BY <1>1, <1>2, <1>3, DisjointAssumption DEF Procs
<1> QED BY <1>1, <1>4, HandOverEnds

LEMMA DispatchEnds ==
    ASSUME SysInv, SysInv', NEW w \in Workers, NEW t \in Requests,
           NEW pr \in Requests \union {None}, Dispatch(w, t, pr), queue' = queue,
           pc[w] \in {"run", "wait"}
    PROVE  Ends(w)
<1>0. w \in Procs
  BY DEF Procs
<1>1. CASE Release(w)
  BY <1>0, <1>1, ReleaseEnds
<1>2. CASE pr # None /\ HandOver(w, pr, proc[pr])
  BY <1>2, WorkerEnds
<1>3. CASE prev[Idles] # Idles /\ HandOver(w, t, next[Idles])
  <2>1. next[Idles] \in Consumers
    BY <1>3 DEF SysInv, ListInv, TypeOK, Links
  <2>2. next[Idles] \in Procs \ {w}
    BY <2>1, DisjointAssumption DEF Procs
  <2> QED BY <1>0, <1>3, <2>2, HandOverEnds
<1> QED BY <1>1, <1>2, <1>3 DEF Dispatch, Answer

LEMMA MailboxStep ==
    ASSUME SysInv, SysInv', [Next]_vars, NEW q \in Procs
    PROVE  [Mailbox(q)!Next]_(Mailbox(q)!vars)
<1> DEFINE Mails == [Mailbox(q)!Next]_(Mailbox(q)!vars)
<1>0. TypeOK
  BY DEF SysInv
<1>1. ASSUME UNCHANGED <<queue, pc, cur, target>> PROVE Mails
  BY <1>1 DEF Mailbox!vars, Pushing, Handling
<1>2. ASSUME NEW p \in Procs, Ends(p) PROVE Mails
  BY <1>2, MailboxEnds
<1>3. ASSUME NEW p \in Procs, NEW l, queue' = queue, cur' = cur,
             pc[p] \notin {"run", "hung", "push"}, l \notin {"run", "hung", "push"},
             pc' = [pc EXCEPT ![p] = l],
             \A r \in Procs : r # p => target'[r] = target[r]
      PROVE  Mails
  <2>1. pc'[p] = l /\ \A r \in Procs : r # p => pc'[r] = pc[r]
    BY <1>0, <1>3 DEF TypeOK
  <2>2. UNCHANGED Mailbox(q)!vars
    BY <1>3, <2>1, MailboxQuiet
  <2> QED BY <2>2
<1> HIDE DEF Mails
<1>4. ASSUME NEW p \in Procs, NotifyStep(p) PROVE Mails
  <2>1. ASSUME ReadFd(p) \/ WriteReady(p) PROVE Mails
    <3>1. PICK l : l = "pop"
      OBVIOUS
    <3> QED BY <1>3, <2>1, <3>1 DEF ReadFd, WriteReady, CanRead, CanWrite, Goto
  <2>2. ASSUME Pop(p) \/ Push(p) PROVE Mails
    BY <1>0, <2>2, MailboxPop, MailboxPush DEF Mails
  <2>3. ASSUME PopEmpty(p) PROVE Mails
    <3>1. PICK l : l = IF p \in Consumers THEN "insert" ELSE AfterHandler(p)
      OBVIOUS
    <3>2. l \notin {"run", "hung", "push"}
      BY <3>1 DEF AfterHandler
    <3> QED BY <1>3, <2>3, <3>1, <3>2 DEF PopEmpty, Goto
  <2>4. ASSUME Signal(p) PROVE Mails
    <3>1. PICK l : l = Resume(p)
      OBVIOUS
    <3>2. l \notin {"run", "hung", "push"}
      BY <3>1 DEF Resume
    <3>3. cur[p] = None
      BY <2>4 DEF SysInv, HandInv, Signal
    <3>4. cur' = cur /\ \A r \in Procs : r # p => target'[r] = target[r]
      BY <1>0, <2>4, <3>3 DEF TypeOK, Signal, Release
    <3> QED BY <1>3, <2>4, <3>1, <3>2, <3>3, <3>4 DEF Signal, Release, Goto
  <2> QED BY <1>4, <2>1, <2>2, <2>3, <2>4 DEF NotifyStep
<1>5. ASSUME NEW w \in Workers, WorkerStep(w) PROVE Mails
  <2>0. w \in Procs
    BY DEF Procs
  <2>1. pc[w] = "run" => cur[w] \in Requests
    BY <2>0, <1>0 DEF TypeOK
  <2>2. ASSUME RunFinish(w) PROVE Mails
    <3>1. parent[cur[w]] \in Requests \union {None}
      BY <1>0, <2>1, <2>2 DEF TypeOK, RunFinish
    <3>2. CASE Release(w)
      BY <1>2, <2>0, <2>2, <3>2, ReleaseEnds DEF RunFinish
    <3>3. CASE parent[cur[w]] # None /\ HandOver(w, parent[cur[w]], proc[parent[cur[w]]])
      BY <1>2, <2>0, <2>2, <3>1, <3>3, WorkerEnds DEF RunFinish
    <3> QED BY <2>2, <3>2, <3>3 DEF RunFinish, Answer
  <2>3. ASSUME NEW how, FowardUpstream(w, how) PROVE Mails
    BY <1>2, <2>0, <2>3, ReleaseEnds DEF FowardUpstream
  <2>4. ASSUME NEW u \in Requests, FowardLocal(w, u) PROVE Mails
    BY <1>2, <2>0, <2>1, <2>4, DispatchEnds DEF FowardLocal
  <2>5. ASSUME FowardNoMemory(w) PROVE Mails
    BY <1>2, <2>0, <2>1, <2>5, WorkerEnds DEF FowardNoMemory, SubrequestDone
  <2> QED BY <1>4, <1>5, <2>0, <2>2, <2>3, <2>4, <2>5 DEF WorkerStep
<1>6. ASSUME NEW c \in Consumers, ConsumerStep(c) PROVE Mails
  <2>0. c \in Procs
    BY DEF Procs
  <2>1. pc[c] = "run" => cur[c] \in Requests
    BY <2>0, <1>0 DEF TypeOK
  <2>2. ASSUME NEW st, RunInterface(c, st) PROVE Mails
    BY <1>2, <2>0, <2>1, <2>2, ConsumerEnds DEF RunInterface, FinishRequest
  <2>3. ASSUME RunRequestStatus(c) PROVE Mails
    BY <1>2, <2>0, <2>1, <2>3, ConsumerEnds DEF RunRequestStatus, ForwardRequest
  <2>4. ASSUME RunFowardDone(c) PROVE Mails
    BY <1>2, <2>0, <2>1, <2>4, ConsumerEnds
    DEF RunFowardDone, RequestStatusForwardDone, FinishRequest
  <2>5. ASSUME IdleInsert(c) PROVE Mails
    <3>1. PICK l : l = AfterHandler(c)
      OBVIOUS
    <3>2. l \notin {"run", "hung", "push"}
      BY <3>1 DEF AfterHandler
    <3> QED BY <1>3, <2>0, <2>5, <3>1, <3>2 DEF IdleInsert, Goto
  <2>6. ASSUME Hangs(c) PROVE Mails
    <3>1. /\ pc[c] = "run" /\ pc'[c] = "hung" /\ queue' = queue /\ cur' = cur
          /\ target' = target /\ \A r \in Procs : r # c => pc'[r] = pc[r]
      BY <1>0, <2>0, <2>6 DEF Hangs, Goto, TypeOK
    <3>2. Pushing(q)' = Pushing(q) /\ Handling(q)' = Handling(q)
      BY <3>1 DEF Pushing, Handling
    <3>3. UNCHANGED Mailbox(q)!vars
      BY <3>1, <3>2 DEF Mailbox!vars
    <3> QED BY <3>3 DEF Mails
  <2> QED BY <1>4, <1>6, <2>0, <2>2, <2>3, <2>4, <2>5, <2>6 DEF ConsumerStep
<1>7. ASSUME NEW w \in Workers, NEW t \in Requests, ClientStep(w, t) PROVE Mails
  <2>1. ASSUME Post(w, t) PROVE Mails
    BY <1>2, <2>1, DispatchEnds DEF Post, Procs
  <2> QED BY <1>1, <1>7, <2>1 DEF ClientStep, NewRequest, NoMemory, NoBody, Close
<1>8. ASSUME NEW t \in Requests, UpstreamStep(t) PROVE Mails
  BY <1>2, <1>8, WorkerEnds DEF UpstreamStep, UpstreamDone, SubrequestDone, Procs
<1>9. ASSUME UNCHANGED vars PROVE Mails
  BY <1>1, <1>9 DEF vars
<1> QED BY <1>5, <1>6, <1>7, <1>8, <1>9 DEF Next, Mails

\* The notify object of every process is used as a mailbox may be used: a task
\* is handed in only when it is neither in the queue nor with the receiver nor
\* in the hands of another sender, and tasks are taken in the order of the
\* pushes.  With RpcNotify, which implements the same mailbox, this justifies
\* the atomic queues of RpcSystem.
THEOREM SystemUsesMailboxes ==
    ASSUME NEW q \in Procs PROVE Spec => Mailbox(q)!SafeSpec
<1>1. Init => Mailbox(q)!Init
  BY MailboxInit
<1>2. SysInv /\ SysInv' /\ [Next]_vars => [Mailbox(q)!Next]_(Mailbox(q)!vars)
  BY MailboxStep
<1> QED BY <1>1, <1>2, SystemInvariant, PTL DEF Spec, Mailbox!SafeSpec
-----------------------------------------------------------------------------
(* RpcSystem implements RpcService *)

\* A request that is dispatched when no subrequest of it exists: accepted, or
\* refused because no consumer is idle.
LEMMA DispatchFacts ==
    ASSUME NEW w, NEW t, NEW pr, Dispatch(w, t, pr)
    PROVE  \/ state' = [state EXCEPT ![t] = "pending"] /\ answer' = answer
           \/ /\ state' = [state EXCEPT ![t] = "answered"]
              /\ answer' = [answer EXCEPT ![t] = ServerError]
  BY DEF Dispatch, Answer

LEMMA ServiceRefuse ==
    ASSUME SysInv, NEW t \in Requests, NEW st \in {BadRequest, ServerError},
           state[t] \in {"new", "reading"},
           state' = [state EXCEPT ![t] = "answered"],
           answer' = [answer EXCEPT ![t] = st], parent' = parent
    PROVE  Service!Next
<1>1. answer[t] = None
  BY DEF SysInv, TaskInv
<1>2. Service!Refuse(t, st)
  BY <1>1 DEF Service!Refuse, Service!Moves, Service!Replies
<1> QED BY <1>2 DEF Service!Next

LEMMA ServicePost ==
    ASSUME SysInv, NEW w \in Workers, NEW t \in Requests, Post(w, t)
    PROVE  Service!Next
<1>1. state[t] = "reading" /\ parent' = parent /\ Dispatch(w, t, None)
  BY DEF Post
<1>2. CASE state' = [state EXCEPT ![t] = "pending"] /\ answer' = answer
  <2>1. Service!Accept(t)
    BY <1>1, <1>2 DEF Service!Accept, Service!Moves
  <2> QED BY <2>1 DEF Service!Next
<1>3. CASE /\ state' = [state EXCEPT ![t] = "answered"]
           /\ answer' = [answer EXCEPT ![t] = ServerError]
  <2>1. PICK st \in {BadRequest, ServerError} : st = ServerError
    OBVIOUS
  <2> QED BY <1>1, <1>3, <2>1, ServiceRefuse
<1> QED BY <1>1, <1>2, <1>3, DispatchFacts

\* The subrequest starts in the hands of the worker that runs its parent, and the
\* parent has no other.
LEMMA ServiceForward ==
    ASSUME SysInv, NEW w \in Workers, NEW u \in Requests, FowardLocal(w, u)
    PROVE  Service!Next
<1>0. w \in Procs
  BY DEF Procs
<1>1. PICK t \in Requests : t = cur[w]
  BY <1>0, RunFacts DEF FowardLocal
<1>2. /\ pc[w] = "run" /\ finish[t] = "request_foward" /\ state[u] = "new"
      /\ parent' = [parent EXCEPT ![u] = t] /\ Dispatch(w, u, t)
  BY <1>1 DEF FowardLocal
<1>3. state[t] = "pending" /\ NoChild(t)
  BY <1>0, <1>1, <1>2 DEF SysInv, RouteInv, Goes
<1>4. Service!Children(t) = {}
  BY <1>3 DEF Service!Children, NoChild
<1>5. answer[u] = None
  BY <1>2 DEF SysInv, TaskInv
<1>6. \/ Service!Moves(u, "pending") /\ UNCHANGED answer
      \/ Service!Moves(u, "answered") /\ \E st \in {BadRequest, ServerError} : Service!Replies(u, st)
  BY <1>2, <1>5, DispatchFacts DEF Service!Moves, Service!Replies
<1>7. Service!Forward(t, u)
  BY <1>2, <1>3, <1>4, <1>6 DEF Service!Forward
<1> QED BY <1>7 DEF Service!Next

\* The worker answers a call with the status in its task, which is the answer of
\* its subrequest.
LEMMA ServiceAnswer ==
    ASSUME SysInv, NEW w \in Workers, RunFinish(w)
    PROVE  Service!Next
<1>0. w \in Procs
  BY DEF Procs
<1>1. PICK t \in Requests : t = cur[w]
  BY <1>0, RunFacts DEF RunFinish
<1>2. PICK st \in Statuses : st = status[t]
  BY DEF SysInv, TypeOK
<1>3. /\ pc[w] = "run" /\ finish[t] = "request_finish" /\ parent' = parent
      /\ state' = [state EXCEPT ![t] = "answered"]
      /\ answer' = [answer EXCEPT ![t] = st]
  BY <1>1, <1>2 DEF RunFinish, Answer
<1>4. state[t] = "pending"
  BY <1>0, <1>1, <1>3 DEF SysInv, RouteInv, Goes
<1>5. answer[t] = None
  BY <1>4 DEF SysInv, TaskInv
<1>6. ASSUME NEW u \in Requests, parent[u] = t PROVE answer[u] = st
  <2>1. parent[u] # None
    BY <1>6, NoneAssumption
  <2>2. state[u] # "pending"
    BY <1>3, <1>6, <2>1 DEF SysInv, ChildInv
  <2> QED BY <1>2, <1>4, <1>6, <2>1, <2>2 DEF SysInv, ChildInv
<1>7. \A u \in Service!Children(t) : answer[u] = st
  BY <1>6 DEF Service!Children
<1>8. Service!Answer(t, st)
  BY <1>3, <1>4, <1>5, <1>7 DEF Service!Answer, Service!Moves, Service!Replies
<1> QED BY <1>8 DEF Service!Next

LEMMA ServiceClose ==
    ASSUME SysInv, NEW w \in Workers, NEW t \in Requests, Close(w, t)
    PROVE  Service!Next
<1>1. /\ state[t] = "answered" /\ parent[t] = None /\ UNCHANGED <<answer, parent>>
      /\ state' = [u \in Requests |->
                      IF u = t \/ parent[u] = t THEN "closed" ELSE state[u]]
  BY DEF Close
<1>2. ASSUME NEW u \in Requests, parent[u] = t PROVE answer[u] # None
  <2>1. parent[u] # None
    BY <1>2, NoneAssumption
  <2>2. finish[t] # "request_foward" /\ answer[t] # None
    BY <1>1 DEF SysInv, TaskInv
  <2>3. state[u] # "pending"
    BY <1>2, <2>1, <2>2 DEF SysInv, ChildInv
  <2> QED BY <1>1, <1>2, <2>1, <2>2, <2>3 DEF SysInv, ChildInv
<1>3. \A u \in Service!Children(t) : answer[u] # None
  BY <1>2 DEF Service!Children
<1>4. state' = [u \in Requests |->
                   IF u = t \/ u \in Service!Children(t) THEN "closed" ELSE state[u]]
  BY <1>1 DEF Service!Children
<1>5. Service!Close(t)
  BY <1>1, <1>3, <1>4 DEF Service!Close
<1> QED BY <1>5 DEF Service!Next

LEMMA ServiceStep == SysInv /\ [Next]_vars => [Service!Next]_(Service!vars)
<1> SUFFICES ASSUME SysInv, [Next]_vars PROVE [Service!Next]_(Service!vars)
  OBVIOUS
<1> DEFINE Serves == [Service!Next]_(Service!vars)
<1>1. ASSUME UNCHANGED <<state, answer, parent>> PROVE Serves
  BY <1>1 DEF Service!vars
<1>2. ASSUME NEW w \in Workers, WorkerStep(w) PROVE Serves
  BY <1>1, <1>2, ServiceAnswer, ServiceForward
  DEF WorkerStep, NotifyStep, ReadFd, WriteReady, Pop, PopEmpty, Push, Signal,
      FowardUpstream, FowardNoMemory, reqVars
<1>3. ASSUME NEW c \in Consumers, ConsumerStep(c) PROVE Serves
  BY <1>1, <1>3
  DEF ConsumerStep, NotifyStep, ReadFd, WriteReady, Pop, PopEmpty, Push, Signal,
      RunInterface, RunRequestStatus, RunFowardDone, Hangs, IdleInsert, reqVars
<1>4. ASSUME NEW w \in Workers, NEW t \in Requests, ClientStep(w, t) PROVE Serves
  <2>1. ASSUME NEW m, NewRequest(w, t, m) PROVE Serves
    <3>1. Service!Arrive(t)
      BY <2>1 DEF NewRequest, Service!Arrive, Service!Moves
    <3> QED BY <3>1 DEF Service!Next
  <2>2. ASSUME NoMemory(w, t) PROVE Serves
    <3>1. PICK st \in {BadRequest, ServerError} : st = ServerError
      OBVIOUS
    <3> QED BY <2>2, <3>1, ServiceRefuse DEF NoMemory
  <2>3. ASSUME NoBody(w, t) PROVE Serves
    <3>1. PICK st \in {BadRequest, ServerError} : st = BadRequest
      OBVIOUS
    <3> QED BY <2>3, <3>1, ServiceRefuse DEF NoBody
  <2> QED BY <1>4, <2>1, <2>2, <2>3, ServicePost, ServiceClose DEF ClientStep
<1>5. ASSUME NEW t \in Requests, UpstreamStep(t) PROVE Serves
  BY <1>1, <1>5 DEF UpstreamStep, UpstreamDone
<1>6. ASSUME UNCHANGED vars PROVE Serves
  BY <1>1, <1>6 DEF vars, reqVars
<1> QED BY <1>2, <1>3, <1>4, <1>5, <1>6 DEF Next

\* The processes, the tasks and the queues implement the service that the HTTP
\* core sees: every request is answered at most once, after its subrequest and
\* with the same status, and connections close over answered requests.
THEOREM SystemImplementsService == Spec => ServiceKept
<1>1. Init => Service!Init
  BY DEF Init, Service!Init
<1> QED BY <1>1, ServiceStep, SystemInvariant, PTL DEF Spec, ServiceKept, Service!Spec
=============================================================================
