--------------------------- MODULE RpcNotifyProofs ---------------------------
(***************************************************************************)
(* Proofs about one notify object, for any number of pushers and tasks:    *)
(* IndInv is inductive, it implies QueueWellFormed and NoLostWakeup, and   *)
(* every step of RpcNotify is a step of RpcMailbox or leaves it alone.     *)
(***************************************************************************)
EXTENDS RpcNotify, TLAPS

USE DEF Links, Procs

-----------------------------------------------------------------------------
(* Positions of a sequence with the head at both ends *)

\* At(s, i) is a link of the list, and is the head exactly at the ends
\* (the circular list of ngx_queue_t).
LEMMA AtType ==
    ASSUME NEW s \in Seq(Nodes), NEW i \in 0..(Len(s) + 1)
    PROVE  /\ At(s, i) \in Links
           /\ At(s, i) = QueueHead <=> i \notin 1..Len(s)
           /\ i \in 1..Len(s) => At(s, i) = s[i] /\ s[i] \in Nodes
BY HeadAssumption DEF At

\* The positions of a queue after ngx_rpc_notify_push_task appended n.
LEMMA AtAppend ==
    ASSUME NEW s \in Seq(Nodes), NEW n \in Nodes
    PROVE  /\ Append(s, n) \in Seq(Nodes)
           /\ Len(Append(s, n)) = Len(s) + 1
           /\ \A i \in 0..Len(s) : At(Append(s, n), i) = At(s, i)
           /\ At(Append(s, n), Len(s) + 1) = n
           /\ At(Append(s, n), Len(s) + 2) = QueueHead
BY DEF At

\* The positions of a queue after ngx_rpc_notify_pop_task took the first.
LEMMA AtTail ==
    ASSUME NEW s \in Seq(Nodes), s # <<>>
    PROVE  /\ Tail(s) \in Seq(Nodes)
           /\ Len(s) \in Nat
           /\ Len(s) >= 1
           /\ Len(Tail(s)) = Len(s) - 1
           /\ At(Tail(s), 0) = QueueHead
           /\ \A i \in 1..Len(s) : At(Tail(s), i) = At(s, i + 1)
BY DEF At

\* No position before the end repeats (a node is linked once).
LEMMA AtDistinct ==
    ASSUME NEW s \in Seq(Nodes), Distinct(s),
           NEW i \in 0..Len(s), NEW j \in 0..Len(s), At(s, i) = At(s, j)
    PROVE  i = j
BY HeadAssumption DEF At, Distinct

\* The same seen from the other end, for the prev links.
LEMMA AtDistinctUp ==
    ASSUME NEW s \in Seq(Nodes), Distinct(s),
           NEW i \in 1..(Len(s) + 1), NEW j \in 1..(Len(s) + 1),
           At(s, i) = At(s, j)
    PROVE  i = j
BY HeadAssumption DEF At, Distinct

\* The next link of the head is the oldest node: what pop_task takes.
LEMMA HeadNext ==
    ASSUME box \in Seq(Nodes), NextChain(box)
    PROVE  next[QueueHead] = At(box, 1)
<1>1. 0 \in 0..Len(box) /\ At(box, 0) = QueueHead
  BY AtType
<1>2. next[At(box, 0)] = At(box, 0 + 1)
  BY <1>1 DEF NextChain
<1> QED
  BY <1>1, <1>2

\* The prev link of the head tells whether there is a node: ngx_queue_empty.
LEMMA HeadPrev ==
    ASSUME box \in Seq(Nodes), PrevChain(box)
    PROVE  prev[QueueHead] = At(box, Len(box))
<1>1. /\ Len(box) + 1 \in 1..(Len(box) + 1)
      /\ At(box, Len(box) + 1) = QueueHead
  BY AtType
<1>2. prev[At(box, Len(box) + 1)] = At(box, (Len(box) + 1) - 1)
  BY <1>1 DEF PrevChain
<1> QED
  BY <1>1, <1>2
-----------------------------------------------------------------------------
(* The inductive invariant *)

\* What ngx_rpc_notify_create and ngx_rpc_notify_register leave satisfies it.
LEMMA InitIndInv == Init => IndInv
<1> SUFFICES ASSUME Init PROVE IndInv
    OBVIOUS
<1>1. TypeOK
  <2>1. box \in Seq(Nodes)
    BY DEF Init
  <2>2. pc \in [Procs -> {"idle", "wait"}]
    BY DEF Init
  <2> QED
    BY <2>1, <2>2 DEF Init, TypeOK
<1>2. PcInv
  BY OwnerAssumption, NoneAssumption DEF Init, PcInv, Holds
<1>3. HandInv
  BY OwnerAssumption, NoneAssumption DEF Init, HandInv, Queued
<1>4. ChainInv
  BY OwnerAssumption DEF Init, ChainInv, Distinct, NextChain, PrevChain, At
<1>5. NoLostWakeup
  BY DEF Init, NoLostWakeup
<1> QED
  BY <1>1, <1>2, <1>3, <1>4, <1>5 DEF IndInv

\* Every action keeps the variables in their types; in particular a pop never
\* returns the head of the list.
LEMMA TypeStep == ASSUME IndInv, [Next]_vars PROVE TypeOK'
<1> USE OwnerAssumption, HeadAssumption, NoneAssumption DEF IndInv, TypeOK, Goto
<1>1. ASSUME NEW p \in Pushers, NEW n \in Nodes, PushLock(p, n) PROVE TypeOK'
  BY <1>1 DEF PushLock, PushCall
<1>2. ASSUME NEW p \in Pushers, PushPrev(p) PROVE TypeOK'
  BY <1>2 DEF PushPrev, HandInv
<1>3. ASSUME NEW p \in Pushers, PushNext(p) PROVE TypeOK'
  BY <1>3 DEF PushNext, PushedLinks, HandInv
<1>4. ASSUME NEW p \in Pushers, Signal(p) PROVE TypeOK'
  BY <1>4 DEF Signal
<1>5. CASE Wake
  BY <1>5 DEF Wake
<1>6. CASE ReadFd
  BY <1>6 DEF ReadFd
<1>7. CASE WriteReady
  BY <1>7 DEF WriteReady
<1>8. CASE PopLock
  BY <1>8 DEF PopLock, PopCall
<1>9. CASE PopEmpty
  BY <1>9 DEF PopEmpty, AfterHandler
<1>10. CASE PopTake
  <2>1. PrevChain(box)
    BY <1>10 DEF PopTake, ChainInv, PcInv, Holds
  <2>2. prev[QueueHead] = At(box, Len(box))
    BY <2>1, HeadPrev
  <2>3. Len(box) >= 1
    BY <1>10, <2>2, AtType DEF PopTake
  <2>4. next[QueueHead] = At(box, 1)
    BY HeadNext DEF ChainInv
  <2>5. next[QueueHead] \in Nodes
    BY <2>3, <2>4, AtType
  <2> QED
    BY <1>10, <2>5 DEF PopTake
<1>11. CASE PopUnlink
  <2>1. Tail(box) \in Seq(Nodes)
    BY <1>11, AtTail DEF PopUnlink, ChainInv
  <2> QED
    BY <1>11, <2>1 DEF PopUnlink, HandInv
<1>12. CASE RunTask
  BY <1>12 DEF RunTask
<1>13. CASE UNCHANGED vars
  BY <1>13 DEF vars
<1> QED
  BY <1>1, <1>2, <1>3, <1>4, <1>5, <1>6, <1>7, <1>8, <1>9, <1>10, <1>11,
     <1>12, <1>13 DEF Next, PushStep, OwnerStep

\* The process inside a critical section is the one that queue_lock names.
LEMMA PcStep == ASSUME IndInv, [Next]_vars PROVE PcInv'
<1> USE OwnerAssumption, NoneAssumption DEF IndInv, TypeOK, PcInv, Holds, Goto
<1>1. ASSUME NEW p \in Pushers, NEW n \in Nodes, PushLock(p, n) PROVE PcInv'
  BY <1>1 DEF PushLock, PushCall
<1>2. ASSUME NEW p \in Pushers, PushPrev(p) PROVE PcInv'
  BY <1>2 DEF PushPrev
<1>3. ASSUME NEW p \in Pushers, PushNext(p) PROVE PcInv'
  BY <1>3 DEF PushNext
<1>4. ASSUME NEW p \in Pushers, Signal(p) PROVE PcInv'
  BY <1>4 DEF Signal
<1>5. CASE Wake
  BY <1>5 DEF Wake
<1>6. CASE ReadFd
  BY <1>6 DEF ReadFd
<1>7. CASE WriteReady
  BY <1>7 DEF WriteReady
<1>8. CASE PopLock
  BY <1>8 DEF PopLock, PopCall
<1>9. CASE PopEmpty
  BY <1>9 DEF PopEmpty, AfterHandler
<1>10. CASE PopTake
  BY <1>10 DEF PopTake
<1>11. CASE PopUnlink
  BY <1>11 DEF PopUnlink
<1>12. CASE RunTask
  BY <1>12 DEF RunTask
<1>13. CASE UNCHANGED vars
  BY <1>13 DEF vars
<1> QED
  BY <1>1, <1>2, <1>3, <1>4, <1>5, <1>6, <1>7, <1>8, <1>9, <1>10, <1>11,
     <1>12, <1>13 DEF Next, PushStep, OwnerStep

\* A node is in one place: in one hand or once in the queue.
LEMMA HandStep == ASSUME IndInv, [Next]_vars PROVE HandInv'
<1> USE OwnerAssumption, HeadAssumption, NoneAssumption
        DEF IndInv, TypeOK, PcInv, HandInv, Goto
<1>1. ASSUME NEW p \in Pushers, NEW n \in Nodes, PushLock(p, n) PROVE HandInv'
  BY <1>1 DEF PushLock, PushCall, Queued
<1>2. ASSUME NEW p \in Pushers, PushPrev(p) PROVE HandInv'
  BY <1>2 DEF PushPrev, Queued
<1>3. ASSUME NEW p \in Pushers, PushNext(p) PROVE HandInv'
  <2>1. node[p] \in Nodes
    BY <1>3 DEF PushNext
  <2>2. Queued' = Queued \union {node[p]}
    BY <1>3, <2>1 DEF PushNext, Queued
  <2>3. \A q \in Procs : q # p => node'[q] = node[q] /\ node'[q] # node[p]
    BY <1>3, <2>1 DEF PushNext
  <2>4. node'[p] = None /\ None \notin Queued'
    BY <1>3, <2>1, <2>2 DEF PushNext, Queued
  <2>5. pc' = [pc EXCEPT ![p] = "signal"]
    BY <1>3 DEF PushNext
  <2> QED
    BY <2>1, <2>2, <2>3, <2>4, <2>5
<1>4. ASSUME NEW p \in Pushers, Signal(p) PROVE HandInv'
  BY <1>4 DEF Signal, Queued
<1>5. CASE Wake
  BY <1>5 DEF Wake, Queued
<1>6. CASE ReadFd
  BY <1>6 DEF ReadFd, Queued
<1>7. CASE WriteReady
  BY <1>7 DEF WriteReady, Queued
<1>8. CASE PopLock
  BY <1>8 DEF PopLock, PopCall, Queued
<1>9. CASE PopEmpty
  BY <1>9 DEF PopEmpty, AfterHandler, Queued
<1>10. CASE PopTake
  <2>1. PrevChain(box)
    BY <1>10 DEF PopTake, ChainInv, Holds
  <2>2. Len(box) >= 1
    BY <1>10, <2>1, HeadPrev, AtType DEF PopTake
  <2>3. next[QueueHead] = box[1] /\ box[1] \in Nodes
    BY <2>2, HeadNext, AtType DEF ChainInv
  <2>4. next[QueueHead] \in Queued
    BY <2>2, <2>3 DEF Queued
  <2>5. UNCHANGED Queued
    BY <1>10 DEF PopTake, Queued
  <2> QED
    BY <1>10, <2>3, <2>4, <2>5 DEF PopTake
<1>11. CASE PopUnlink
  <2>1. box # <<>> /\ node[Owner] = box[1]
    BY <1>11 DEF PopUnlink, ChainInv
  <2>2. /\ Tail(box) \in Seq(Nodes)
        /\ Len(Tail(box)) = Len(box) - 1
        /\ \A i \in 1..(Len(box) - 1) : Tail(box)[i] = box[i + 1]
    BY <2>1
  <2>3. \A n : n \in Queued' => n \in Queued /\ n # box[1]
    <3> SUFFICES ASSUME NEW i \in DOMAIN Tail(box)
                 PROVE  Tail(box)[i] \in Queued /\ Tail(box)[i] # box[1]
      BY <1>11 DEF PopUnlink, Queued
    <3>1. /\ i \in 1..(Len(box) - 1)
          /\ i + 1 \in DOMAIN box
          /\ 1 \in DOMAIN box
          /\ i + 1 # 1
          /\ Tail(box)[i] = box[i + 1]
      BY <2>1, <2>2
    <3> QED
      BY <3>1 DEF ChainInv, Distinct, Queued
  <2> QED
    BY <1>11, <2>1, <2>3 DEF PopUnlink
<1>12. CASE RunTask
  BY <1>12 DEF RunTask, Queued
<1>13. CASE UNCHANGED vars
  BY <1>13 DEF vars, Queued
<1> QED
  BY <1>1, <1>2, <1>3, <1>4, <1>5, <1>6, <1>7, <1>8, <1>9, <1>10, <1>11,
     <1>12, <1>13 DEF Next, PushStep, OwnerStep

\* The links spell the queue, up to the writes the holder of the lock has
\* still to make.
LEMMA ChainStep == ASSUME IndInv, [Next]_vars PROVE ChainInv'
<1> USE OwnerAssumption, HeadAssumption, NoneAssumption
        DEF IndInv, TypeOK, PcInv, Holds, Goto
<1>0. ASSUME UNCHANGED <<next, prev, box>>,
             pc'[Owner] # "unlink",
             \A p \in Pushers : /\ pc'[p] = "linknext" <=> pc[p] = "linknext"
                                /\ pc[p] = "linknext" => node'[p] = node[p]
      PROVE ChainInv'
  BY <1>0 DEF ChainInv, NextChain, PrevChain
<1>1. ASSUME NEW p \in Pushers, NEW n \in Nodes, PushLock(p, n) PROVE ChainInv'
  BY <1>1, <1>0 DEF PushLock, PushCall
<1>2. ASSUME NEW p \in Pushers, PushPrev(p) PROVE ChainInv'
  <2> DEFINE n == node[p]
             s == Append(box, n)
  <2>1. n \in Nodes /\ n \notin Queued
    BY <1>2 DEF PushPrev, HandInv
  <2>2. PrevChain(box) /\ pc[Owner] # "unlink"
    BY <1>2 DEF PushPrev, ChainInv
  <2>3. prev[QueueHead] = At(box, Len(box))
    BY <2>2, HeadPrev
  <2>4. ASSUME NEW i \in 1..(Len(s) + 1) PROVE prev'[At(s, i)] = At(s, i - 1)
    <3>1. CASE i \in 1..Len(box)
      <4>1. At(s, i) = box[i] /\ At(s, i - 1) = At(box, i - 1)
        BY <2>1, <3>1, AtAppend, AtType
      <4>2. box[i] # n /\ box[i] # QueueHead /\ box[i] \in Nodes
        BY <2>1, <3>1 DEF Queued
      <4>3. prev[box[i]] = At(box, i - 1)
        BY <2>2, <3>1, AtType DEF PrevChain
      <4> QED
        BY <1>2, <4>1, <4>2, <4>3 DEF PushPrev
    <3>2. CASE i = Len(box) + 1
      <4>1. At(s, i) = n /\ At(s, i - 1) = At(box, Len(box))
        BY <2>1, <3>2, AtAppend
      <4> QED
        BY <1>2, <2>1, <2>3, <4>1 DEF PushPrev
    <3>3. CASE i = Len(box) + 2
      <4>1. At(s, i) = QueueHead /\ At(s, i - 1) = n
        BY <2>1, <3>3, AtAppend
      <4> QED
        BY <1>2, <2>1, <4>1 DEF PushPrev
    <3> QED
      BY <2>1, <3>1, <3>2, <3>3, AtAppend
  <2>5. PrevChain(Append(box, node[p]))'
    BY <1>2, <2>4 DEF PushPrev, PrevChain
  <2> QED
    BY <1>2, <2>2, <2>5 DEF PushPrev, ChainInv, NextChain
<1>3. ASSUME NEW p \in Pushers, PushNext(p) PROVE ChainInv'
  <2> DEFINE n == node[p]
             s == Append(box, n)
  <2>1. n \in Nodes /\ n \notin Queued
    BY <1>3 DEF PushNext, HandInv
  <2>2. PrevChain(s) /\ NextChain(box) /\ Distinct(box)
    BY <1>3 DEF PushNext, ChainInv
  <2>3. prev[n] = At(box, Len(box))
    <3>1. /\ Len(box) + 1 \in 1..(Len(s) + 1)
          /\ At(s, Len(box) + 1) = n
          /\ At(s, (Len(box) + 1) - 1) = At(box, Len(box))
      BY <2>1, AtAppend
    <3> QED
      BY <2>2, <3>1 DEF PrevChain
  <2>4. At(box, Len(box)) \in Links /\ At(box, Len(box)) # n
    BY <2>1, AtType DEF Queued
  <2>5. ASSUME NEW i \in 0..Len(s) PROVE next'[At(s, i)] = At(s, i + 1)
    <3>1. CASE i \in 0..(Len(box) - 1)
      <4>1. At(s, i) = At(box, i) /\ At(s, i + 1) = At(box, i + 1)
        BY <2>1, <3>1, AtAppend
      <4>2. At(box, i) \in Links /\ At(box, i) # n
        BY <2>1, <3>1, AtType DEF Queued
      <4>3. At(box, i) # At(box, Len(box))
        BY <2>2, <3>1, AtDistinct
      <4>4. next[At(box, i)] = At(box, i + 1)
        BY <2>2, <3>1 DEF NextChain
      <4> QED
        BY <1>3, <2>3, <4>1, <4>2, <4>3, <4>4 DEF PushNext, PushedLinks
    <3>2. CASE i = Len(box)
      <4>1. At(s, i) = At(box, Len(box)) /\ At(s, i + 1) = n
        BY <2>1, <3>2, AtAppend
      <4> QED
        BY <1>3, <2>3, <2>4, <4>1 DEF PushNext, PushedLinks
    <3>3. CASE i = Len(box) + 1
      <4>1. At(s, i) = n /\ At(s, i + 1) = QueueHead
        BY <2>1, <3>3, AtAppend
      <4> QED
        BY <1>3, <2>1, <4>1 DEF PushNext, PushedLinks
    <3> QED
      BY <2>1, <3>1, <3>2, <3>3, AtAppend
  <2>6. NextChain(box)'
    BY <1>3, <2>5 DEF PushNext, NextChain
  <2>7. PrevChain(box)'
    BY <1>3, <2>2 DEF PushNext, PrevChain
  <2>8. Distinct(box')
    BY <1>3, <2>1, <2>2 DEF PushNext, Distinct, Queued
  <2>9. pc'[Owner] # "unlink" /\ \A q \in Pushers : pc'[q] # "linknext"
    BY <1>3 DEF PushNext
  <2> QED
    BY <2>6, <2>7, <2>8, <2>9 DEF ChainInv
<1>4. ASSUME NEW p \in Pushers, Signal(p) PROVE ChainInv'
  BY <1>4 DEF Signal, ChainInv, NextChain, PrevChain
<1>5. CASE Wake
  BY <1>5, <1>0 DEF Wake
<1>6. CASE ReadFd
  BY <1>6, <1>0 DEF ReadFd
<1>7. CASE WriteReady
  BY <1>7, <1>0 DEF WriteReady
<1>8. CASE PopLock
  BY <1>8, <1>0 DEF PopLock, PopCall
<1>9. CASE PopEmpty
  BY <1>9, <1>0 DEF PopEmpty, AfterHandler
<1>10. CASE PopTake
  <2>1. PrevChain(box) /\ \A p \in Pushers : pc[p] # "linknext"
    BY <1>10 DEF PopTake, ChainInv
  <2>2. Len(box) >= 1
    BY <1>10, <2>1, HeadPrev, AtType DEF PopTake
  <2>3. next[QueueHead] = box[1] /\ box # <<>>
    BY <2>2, HeadNext, AtType DEF ChainInv
  <2> QED
    BY <1>10, <2>1, <2>3 DEF PopTake, ChainInv, NextChain, PrevChain
<1>11. CASE PopUnlink
  <2> DEFINE s == Tail(box)
  <2>1. /\ box # <<>> /\ node[Owner] = At(box, 1) /\ node[Owner] \in Nodes
        /\ NextChain(box) /\ Distinct(box)
    BY <1>11, AtType DEF PopUnlink, ChainInv, At
  <2>2. PrevChain(box) /\ \A p \in Pushers : pc[p] # "linknext"
    BY <1>11 DEF PopUnlink, ChainInv
  <2>3. next[node[Owner]] = At(box, 2) /\ At(box, 2) \in Links
    <3>1. 1 \in 0..Len(box) /\ 2 \in 0..(Len(box) + 1)
      BY <2>1, AtTail
    <3> QED
      BY <2>1, <3>1, AtType DEF NextChain
  <2>4. ASSUME NEW i \in 0..Len(s) PROVE next'[At(s, i)] = At(s, i + 1)
    <3>1. CASE i = 0
      <4>1. At(s, 0) = QueueHead /\ At(s, 1) = At(box, 2)
        BY <2>1, AtTail
      <4> QED
        BY <1>11, <2>3, <3>1, <4>1 DEF PopUnlink
    <3>2. CASE i \in 1..(Len(box) - 1)
      <4>1. At(s, i) = At(box, i + 1) /\ At(s, i + 1) = At(box, i + 2)
        BY <2>1, <3>2, AtTail
      <4>2. At(box, i + 1) \in Links /\ At(box, i + 1) # QueueHead
        BY <2>1, <3>2, AtType
      <4>3. next[At(box, i + 1)] = At(box, i + 2)
        BY <2>1, <3>2 DEF NextChain
      <4> QED
        BY <1>11, <4>1, <4>2, <4>3 DEF PopUnlink
    <3> QED
      BY <2>1, <3>1, <3>2, AtTail
  <2>5. ASSUME NEW i \in 1..(Len(s) + 1) PROVE prev'[At(s, i)] = At(s, i - 1)
    <3>1. CASE i = 1
      <4>1. At(s, 0) = QueueHead /\ At(s, 1) = At(box, 2)
        BY <2>1, AtTail
      <4> QED
        BY <1>11, <2>3, <3>1, <4>1 DEF PopUnlink
    <3>2. CASE i \in 2..Len(box)
      <4>1. At(s, i) = At(box, i + 1) /\ At(s, i - 1) = At(box, i)
        BY <2>1, <3>2, AtTail
      <4>2. At(box, i + 1) \in Links
        BY <2>1, <3>2, AtType
      <4>3. At(box, i + 1) # At(box, 2)
        BY <2>1, <3>2, AtDistinctUp
      <4>4. prev[At(box, i + 1)] = At(box, i)
        BY <2>2, <3>2 DEF PrevChain
      <4> QED
        BY <1>11, <2>3, <4>1, <4>2, <4>3, <4>4 DEF PopUnlink
    <3> QED
      BY <2>1, <3>1, <3>2, AtTail
  <2>6. NextChain(box)' /\ PrevChain(box)'
    BY <1>11, <2>4, <2>5 DEF PopUnlink, NextChain, PrevChain
  <2>7. Distinct(box')
    BY <1>11, <2>1 DEF PopUnlink, Distinct
  <2> QED
    BY <1>11, <2>2, <2>6, <2>7 DEF PopUnlink, ChainInv
<1>12. CASE RunTask
  BY <1>12, <1>0 DEF RunTask
<1>13. CASE UNCHANGED vars
  BY <1>13 DEF vars, ChainInv, NextChain, PrevChain
<1> QED
  BY <1>1, <1>2, <1>3, <1>4, <1>5, <1>6, <1>7, <1>8, <1>9, <1>10, <1>11,
     <1>12, <1>13 DEF Next, PushStep, OwnerStep

\* The owner goes to sleep only when it has found the queue empty, and a push
\* into a sleeping owner's queue is followed by its signal.
LEMMA WakeupStep == ASSUME IndInv, [Next]_vars PROVE NoLostWakeup'
<1> USE OwnerAssumption DEF IndInv, TypeOK, PcInv, NoLostWakeup, Goto
<1>1. ASSUME NEW p \in Pushers, NEW n \in Nodes, PushLock(p, n)
      PROVE NoLostWakeup'
  BY <1>1 DEF PushLock, PushCall
<1>2. ASSUME NEW p \in Pushers, PushPrev(p) PROVE NoLostWakeup'
  BY <1>2 DEF PushPrev
<1>3. ASSUME NEW p \in Pushers, PushNext(p) PROVE NoLostWakeup'
  BY <1>3 DEF PushNext
<1>4. ASSUME NEW p \in Pushers, Signal(p) PROVE NoLostWakeup'
  BY <1>4 DEF Signal
<1>5. CASE Wake
  BY <1>5 DEF Wake
<1>6. CASE ReadFd
  BY <1>6 DEF ReadFd
<1>7. CASE WriteReady
  BY <1>7 DEF WriteReady
<1>8. CASE PopLock
  BY <1>8 DEF PopLock, PopCall
<1>9. CASE PopEmpty
  <2>1. PrevChain(box)
    BY <1>9 DEF PopEmpty, ChainInv, Holds
  <2>2. Len(box) = 0
    BY <1>9, <2>1, HeadPrev, AtType DEF PopEmpty
  <2>3. box' = <<>>
    BY <1>9, <2>2 DEF PopEmpty
  <2> QED
    BY <2>3
<1>10. CASE PopTake
  BY <1>10 DEF PopTake
<1>11. CASE PopUnlink
  BY <1>11 DEF PopUnlink
<1>12. CASE RunTask
  BY <1>12 DEF RunTask
<1>13. CASE UNCHANGED vars
  BY <1>13 DEF vars
<1> QED
  BY <1>1, <1>2, <1>3, <1>4, <1>5, <1>6, <1>7, <1>8, <1>9, <1>10, <1>11,
     <1>12, <1>13 DEF Next, PushStep, OwnerStep

\* The invariant of push_task, pop_task and the event handlers holds in every
\* reachable state, whatever the number of pushers and of tasks.
THEOREM InductiveInvariant == Spec => []IndInv
<1>1. IndInv /\ [Next]_vars => IndInv'
  <2> SUFFICES ASSUME IndInv, [Next]_vars PROVE IndInv'
    OBVIOUS
  <2> QED
    BY TypeStep, PcStep, HandStep, ChainStep, WakeupStep DEF IndInv
<1> QED
  BY <1>1, InitIndInv, PTL DEF Spec

\* Every variable stays in its type; a pop never hands out the list head.
THEOREM TypeCorrect == Spec => []TypeOK
<1>1. IndInv => TypeOK
  BY DEF IndInv
<1> QED
  BY <1>1, InductiveInvariant, PTL

\* The list under queue_lock is a well-formed queue whenever the lock is free.
THEOREM WellFormed == Spec => []QueueWellFormed
<1>1. IndInv => QueueWellFormed
  BY NoneAssumption
     DEF IndInv, TypeOK, PcInv, Holds, ChainInv, QueueWellFormed
<1> QED
  BY <1>1, InductiveInvariant, PTL

\* The owner never sleeps on a task that no signal announces.
THEOREM NoWakeupIsLost == Spec => []NoLostWakeup
<1>1. IndInv => NoLostWakeup
  BY DEF IndInv
<1> QED
  BY <1>1, InductiveInvariant, PTL
-----------------------------------------------------------------------------
(* RpcNotify implements RpcMailbox *)

\* A notify object that was just created is an empty mailbox.
LEMMA MailboxInit == Init => Mailbox!Init
BY OwnerAssumption DEF Init, Mailbox!Init

\* Each step of a push, of a pop or of a handler is a step of the mailbox or
\* does not change it.
LEMMA MailboxStep ==
    ASSUME IndInv, [Next]_vars PROVE [Mailbox!Next]_(Mailbox!vars)
<1> DEFINE out == [p \in Pushers |-> node[p]]
           got == IF pc[Owner] = "run" THEN node[Owner] ELSE None
<1> USE OwnerAssumption, NoneAssumption DEF IndInv, TypeOK, PcInv, HandInv, Goto
<1>0. ASSUME UNCHANGED box,
             \A p \in Pushers : node'[p] = node[p],
             UNCHANGED got
      PROVE  UNCHANGED Mailbox!vars
  BY <1>0 DEF Mailbox!vars
<1>1. ASSUME NEW p \in Pushers, NEW n \in Nodes, PushLock(p, n)
      PROVE Mailbox!Begin(p, n)
  <2>1. n # got /\ n # None
    BY <1>1 DEF PushLock, PushCall
  <2>2. out' = [out EXCEPT ![p] = n]
    BY <1>1 DEF PushLock, PushCall
  <2>3. out[p] = None /\ \A t \in Pushers : out[t] # n
    BY <1>1 DEF PushLock, PushCall
  <2>4. UNCHANGED <<box, got>> /\ n \notin Queued
    BY <1>1 DEF PushLock, PushCall
  <2> QED
    BY <2>1, <2>2, <2>3, <2>4 DEF Mailbox!Begin, Mailbox!Contents, Queued
<1>2. ASSUME NEW p \in Pushers, PushPrev(p) PROVE UNCHANGED Mailbox!vars
  BY <1>0, <1>2 DEF PushPrev
<1>3. ASSUME NEW p \in Pushers, PushNext(p) PROVE Mailbox!Put(p)
  <2>1. out[p] # None /\ out' = [out EXCEPT ![p] = None]
    BY <1>3 DEF PushNext
  <2>2. UNCHANGED got /\ box' = Append(box, out[p])
    BY <1>3 DEF PushNext
  <2> QED
    BY <2>1, <2>2 DEF Mailbox!Put
<1>4. ASSUME NEW p \in Pushers, Signal(p) PROVE UNCHANGED Mailbox!vars
  BY <1>0, <1>4 DEF Signal
<1>5. CASE Wake
  BY <1>0, <1>5 DEF Wake
<1>6. CASE ReadFd
  BY <1>0, <1>6 DEF ReadFd
<1>7. CASE WriteReady
  BY <1>0, <1>7 DEF WriteReady
<1>8. CASE PopLock
  BY <1>0, <1>8 DEF PopLock, PopCall
<1>9. CASE PopEmpty
  BY <1>0, <1>9 DEF PopEmpty, AfterHandler
<1>10. CASE PopTake
  BY <1>0, <1>10 DEF PopTake
<1>11. CASE PopUnlink
  <2>1. box # <<>> /\ node[Owner] = Head(box)
    BY <1>11 DEF PopUnlink, ChainInv
  <2>2. UNCHANGED out /\ box' = Tail(box)
    BY <1>11 DEF PopUnlink
  <2>3. got = None /\ got' = Head(box)
    BY <1>11, <2>1 DEF PopUnlink
  <2> QED
    BY <2>1, <2>2, <2>3 DEF Mailbox!Take, Mailbox!Next
<1>12. CASE RunTask
  <2>1. UNCHANGED <<out, box>> /\ got # None /\ got' = None
    BY <1>12 DEF RunTask
  <2> QED
    BY <2>1 DEF Mailbox!Done, Mailbox!Next
<1>13. CASE UNCHANGED vars
  BY <1>0, <1>13 DEF vars
<1> QED
  BY <1>1, <1>2, <1>3, <1>4, <1>5, <1>6, <1>7, <1>8, <1>9, <1>10, <1>11,
     <1>12, <1>13 DEF Next, PushStep, OwnerStep, Mailbox!Next

\* The notify object implements the first-in first-out mailbox, for every
\* number of pushers and of tasks.
THEOREM ImplementsMailbox == Spec => MailboxFifo
<1>1. IndInv /\ [Next]_vars => [Mailbox!Next]_(Mailbox!vars)
  BY MailboxStep
<1> QED
  BY <1>1, MailboxInit, InductiveInvariant, PTL
     DEF Spec, MailboxFifo, Mailbox!SafeSpec

=============================================================================
