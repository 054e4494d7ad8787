---------------------------- MODULE RpcIdlesProofs ----------------------------
(***************************************************************************)
(* Proofs about the list of idle consumers, for any number of workers and  *)
(* consumers.  The invariant has two modes.  Until a listed consumer is    *)
(* inserted again the list is a plain chain that holds every idle          *)
(* consumer; the ranks of Chain count it from its end.  The first double   *)
(* insertion closes a loop, and a loop is never left: Trap is the set the  *)
(* chain runs in.                                                          *)
(***************************************************************************)
EXTENDS RpcIdles, FiniteSetTheorems, WellFoundedInduction, TLAPS

USE DEF Links, Procs

Inv == IndInv(Nat)
-----------------------------------------------------------------------------
(* The three changes of the list *)

\* DispatchUnlink inside a loop: the next one is in the loop too.
LEMMA TrapUnlink ==
    ASSUME TypeOK, NEW S \in SUBSET Consumers, Trap(S),
           next' = Unlinked(next[Idles])
    PROVE  Trap(S)'
BY HeadAssumption DEF TypeOK, Trap, Unlinked

\* IdleInsert in front of a loop: the consumer leads into the loop.
LEMMA TrapInsert ==
    ASSUME TypeOK, NEW S \in SUBSET Consumers, Trap(S),
           NEW c \in Consumers, next' = LinkedFirst(c)
    PROVE  Trap(S \union {c})'
BY HeadAssumption DEF TypeOK, Trap, LinkedFirst

\* IdleInsert of a consumer that is listed closes a loop: the nodes from the
\* front of the chain to the consumer.
LEMMA InsertListed ==
    ASSUME TypeOK, NEW rank \in [Consumers -> Nat], Shape(rank),
           NEW c \in Consumers, rank[c] > 0, next' = LinkedFirst(c)
    PROVE  Looped'
<1> DEFINE S == {d \in Consumers : rank[d] >= rank[c]}
<1>1. next[Idles] \in Consumers /\ rank[next[Idles]] >= rank[c]
  BY DEF TypeOK, Shape
<1>2. ASSUME NEW d \in S PROVE next'[d] \in S
  <2>1. CASE d = c
    BY <1>1, <2>1, HeadAssumption DEF TypeOK, LinkedFirst
  <2>2. CASE d # c
    <3>1. rank[d] > rank[c]
      BY <2>2 DEF Shape
    <3>2. next[d] \in Consumers /\ rank[next[d]] = rank[d] - 1
      BY <3>1 DEF Shape, TypeOK
    <3>3. next'[d] = next[d]
      BY <2>2, HeadAssumption DEF TypeOK, LinkedFirst
    <3> QED
      BY <3>1, <3>2, <3>3
  <2> QED
    BY <2>1, <2>2
<1>3. next'[Idles] = c
  BY HeadAssumption DEF TypeOK, LinkedFirst
<1>4. Trap(S)'
  BY <1>2, <1>3 DEF Trap
<1> QED
  BY <1>4 DEF Looped

\* IdleInsert of a consumer that is not listed: one more at the front.
LEMMA InsertUnlisted ==
    ASSUME TypeOK, NEW rank \in [Consumers -> Nat], Shape(rank),
           NEW c \in Consumers, rank[c] = 0, next' = LinkedFirst(c)
    PROVE  \E r \in [Consumers -> Nat] :
              Shape(r)' /\ r[c] > 0 /\ \A d \in Consumers : d # c => r[d] = rank[d]
<1> DEFINE front == IF next[Idles] = Idles THEN 0 ELSE rank[next[Idles]]
<1>0. PICK top \in Nat : top = front
  BY DEF TypeOK
<1>01. PICK r \in [Consumers -> Nat] : r = [rank EXCEPT ![c] = top + 1]
  <2>1. [rank EXCEPT ![c] = top + 1] \in [Consumers -> Nat]
    OBVIOUS
  <2> QED
    BY <2>1
<1>1. r[c] = top + 1
  BY <1>01
<1>2. \A d \in Consumers : d # c => r[d] = rank[d] /\ r[d] <= top
  BY <1>0, <1>01 DEF TypeOK, Shape
<1>3. /\ next'[Idles] = c
      /\ next'[c] = next[Idles]
      /\ \A d \in Consumers : d # c => next'[d] = next[d]
  BY HeadAssumption DEF TypeOK, LinkedFirst
<1>4. next[Idles] # Idles => next[Idles] # c /\ next[Idles] \in Consumers
  BY DEF TypeOK, Shape
<1>5. \A d \in Consumers : r[d] = 1 => next'[d] = Idles
  <2> SUFFICES ASSUME NEW d \in Consumers, r[d] = 1 PROVE next'[d] = Idles
    OBVIOUS
  <2>1. CASE d = c
    BY <1>0, <1>1, <1>3, <1>4, <2>1 DEF Shape
  <2>2. CASE d # c
    BY <1>2, <1>3, <2>2 DEF Shape
  <2> QED
    BY <2>1, <2>2
<1>6. \A d \in Consumers : r[d] > 1 =>
         next'[d] # Idles /\ r[next'[d]] = r[d] - 1
  <2> SUFFICES ASSUME NEW d \in Consumers, r[d] > 1
               PROVE  next'[d] # Idles /\ r[next'[d]] = r[d] - 1
    OBVIOUS
  <2>1. CASE d = c
    BY <1>0, <1>1, <1>2, <1>3, <1>4, <2>1
  <2>2. CASE d # c
    <3>1. next[d] \in Consumers /\ rank[next[d]] = rank[d] - 1 /\ rank[d] > 1
      BY <1>2, <2>2 DEF Shape, TypeOK
    <3>2. next[d] # c
      BY <3>1
    <3> QED
      BY <1>2, <1>3, <2>2, <3>1, <3>2, HeadAssumption
  <2> QED
    BY <2>1, <2>2
<1>7. \A d, e \in Consumers : r[d] = r[e] /\ r[d] > 0 => d = e
  BY <1>1, <1>2 DEF Shape
<1>8. Shape(r)'
  BY <1>1, <1>2, <1>3, <1>5, <1>6, <1>7, HeadAssumption DEF Shape
<1> QED
  BY <1>1, <1>2, <1>8

\* DispatchUnlink takes the first consumer off the chain.
LEMMA UnlinkFirst ==
    ASSUME TypeOK, NEW rank \in [Consumers -> Nat], Shape(rank),
           NEW c \in Consumers, c = next[Idles], next' = Unlinked(c)
    PROVE  \E r \in [Consumers -> Nat] :
              Shape(r)' /\ \A d \in Consumers : d # c => r[d] = rank[d]
<1>0. PICK r \in [Consumers -> Nat] : r = [rank EXCEPT ![c] = 0]
  OBVIOUS
<1>1. r[c] = 0 /\ \A d \in Consumers : d # c => r[d] = rank[d]
  BY <1>0
<1>2. /\ next'[Idles] = next[c]
      /\ \A d \in Consumers : next'[d] = next[d]
  BY HeadAssumption DEF TypeOK, Unlinked
<1>3. rank[c] > 0 /\ \A d \in Consumers : d # c => rank[d] < rank[c]
  BY HeadAssumption DEF Shape
<1>4. CASE rank[c] = 1
  <2>1. next'[Idles] = Idles
    BY <1>2, <1>4 DEF Shape
  <2>2. \A d \in Consumers : r[d] = 0
    BY <1>1, <1>3, <1>4
  <2>3. Shape(r)'
    BY <2>1, <2>2 DEF Shape
  <2> QED
    BY <1>1, <2>3
<1>5. CASE rank[c] > 1
  <2>1. next[c] \in Consumers /\ next[c] # c /\ rank[next[c]] = rank[c] - 1
    BY <1>3, <1>5 DEF Shape, TypeOK
  <2>2. \A d \in Consumers : r[d] <= r[next[c]]
    BY <1>1, <1>3, <2>1 DEF Shape
  <2>3. \A d \in Consumers : r[d] > 1 =>
           next[d] # Idles /\ r[next[d]] = r[d] - 1
    <3> SUFFICES ASSUME NEW d \in Consumers, r[d] > 1
                 PROVE  next[d] # Idles /\ r[next[d]] = r[d] - 1
      OBVIOUS
    <3>1. d # c /\ rank[d] > 1 /\ rank[d] < rank[c]
      BY <1>1, <1>3
    <3>2. next[d] \in Consumers /\ rank[next[d]] = rank[d] - 1
      BY <3>1 DEF Shape, TypeOK
    <3>3. next[d] # c
      BY <3>1, <3>2
    <3> QED
      BY <1>1, <3>1, <3>2, <3>3, HeadAssumption
  <2>4. Shape(r)'
    BY <1>1, <1>2, <2>1, <2>2, <2>3, HeadAssumption DEF Shape
  <2> QED
    BY <1>1, <2>4
<1> QED
  BY <1>3, <1>4, <1>5

-----------------------------------------------------------------------------
(* The inductive invariant *)

\* The empty list that ngx_rpc_queue_create leaves is a chain.
LEMMA InitInv == Init => Inv
<1> SUFFICES ASSUME Init PROVE Inv
  OBVIOUS
<1> USE DisjointAssumption, HeadAssumption, NoneAssumption
<1>1. TypeOK
  BY DEF Init, TypeOK
<1>2. LockInv
  BY DEF Init, LockInv
<1>3. StartedInv /\ HeadConsistent
  BY DEF Init, StartedInv, HeadConsistent
<1>4. Chain([c \in Consumers |-> 0])
  BY DEF Init, Chain, Shape, Engaged
<1> QED
  BY <1>1, <1>2, <1>3, <1>4 DEF Inv, IndInv

\* Every action keeps the types, the lock discipline, the agreement of the
\* head's two links and the closure of the started nodes.
LEMMA SimpleStep ==
    ASSUME Inv, [Next]_vars
    PROVE  TypeOK' /\ LockInv' /\ StartedInv' /\ HeadConsistent'
<1> USE DisjointAssumption, HeadAssumption, NoneAssumption
        DEF Inv, IndInv, Goto
<1>1. ASSUME NEW w \in Workers, DispatchLock(w)
      PROVE  TypeOK' /\ LockInv' /\ StartedInv' /\ HeadConsistent'
  BY <1>1 DEF TypeOK, LockInv, StartedInv, HeadConsistent,
              DispatchLock, DispatchCall
<1>2. ASSUME NEW w \in Workers, Refuse(w)
      PROVE  TypeOK' /\ LockInv' /\ StartedInv' /\ HeadConsistent'
  BY <1>2 DEF TypeOK, LockInv, StartedInv, HeadConsistent, Refuse
<1>3. ASSUME NEW w \in Workers, DispatchTake(w)
      PROVE  TypeOK' /\ LockInv' /\ StartedInv' /\ HeadConsistent'
  <2>1. next[Idles] \in Consumers
    BY <1>3 DEF TypeOK, HeadConsistent, DispatchTake
  <2> QED
    BY <1>3, <2>1 DEF TypeOK, LockInv, StartedInv, HeadConsistent, DispatchTake
<1>4. ASSUME NEW w \in Workers, DispatchUnlink(w)
      PROVE  TypeOK' /\ LockInv' /\ StartedInv' /\ HeadConsistent'
  <2>1. node[w] \in Consumers /\ node[w] = next[Idles] /\ prev[Idles] # Idles
    BY <1>4 DEF TypeOK, LockInv, DispatchUnlink
  <2>2. next[node[w]] \in Links /\ next' = [next EXCEPT ![Idles] = next[node[w]]]
    BY <1>4, <2>1 DEF TypeOK, DispatchUnlink, Unlinked
  <2>3. TypeOK'
    BY <1>4, <2>1, <2>2 DEF TypeOK, DispatchUnlink
  <2>4. LockInv'
    BY <1>4, <2>1 DEF TypeOK, LockInv, DispatchUnlink
  <2>5. StartedInv'
    BY <1>4, <2>1, <2>2 DEF TypeOK, StartedInv, LockInv, DispatchUnlink
  <2>6. HeadConsistent'
    BY <1>4, <2>1, <2>2 DEF TypeOK, HeadConsistent, DispatchUnlink
  <2> QED
    BY <2>3, <2>4, <2>5, <2>6
<1>5. ASSUME NEW w \in Workers, Notify(w)
      PROVE  TypeOK' /\ LockInv' /\ StartedInv' /\ HeadConsistent'
  <2>1. node[w] \in Consumers
    BY <1>5 DEF TypeOK, LockInv, Notify
  <2> QED
    BY <1>5, <2>1 DEF TypeOK, LockInv, StartedInv, HeadConsistent, Notify
<1>6. ASSUME NEW w \in Workers, Push(w)
      PROVE  TypeOK' /\ LockInv' /\ StartedInv' /\ HeadConsistent'
  <2>1. node[w] \in Consumers
    BY <1>6 DEF TypeOK, LockInv, Push
  <2> QED
    BY <1>6, <2>1 DEF TypeOK, LockInv, StartedInv, HeadConsistent, Push
<1>7. ASSUME NEW w \in Workers, NEW c \in Consumers, NotifyAgain(w, c)
      PROVE  TypeOK' /\ LockInv' /\ StartedInv' /\ HeadConsistent'
  <2>1. TypeOK'
    BY <1>7 DEF TypeOK, NotifyAgain
  <2>2. LockInv'
    BY <1>7 DEF TypeOK, LockInv, NotifyAgain
  <2>3. StartedInv'
    BY <1>7 DEF TypeOK, StartedInv, NotifyAgain
  <2> QED
    BY <1>7, <2>1, <2>2, <2>3 DEF HeadConsistent, NotifyAgain
<1>8. ASSUME NEW c \in Consumers, Wake(c)
      PROVE  TypeOK' /\ LockInv' /\ StartedInv' /\ HeadConsistent'
  <2>1. TypeOK' /\ LockInv'
    BY <1>8 DEF TypeOK, LockInv, Wake
  <2>2. StartedInv'
    BY <1>8 DEF TypeOK, StartedInv, Wake
  <2> QED
    BY <1>8, <2>1, <2>2 DEF HeadConsistent, Wake
<1>9. ASSUME NEW c \in Consumers, ReadFd(c)
      PROVE  TypeOK' /\ LockInv' /\ StartedInv' /\ HeadConsistent'
  BY <1>9 DEF TypeOK, LockInv, StartedInv, HeadConsistent, ReadFd
<1>10. ASSUME NEW c \in Consumers, WriteReady(c)
      PROVE  TypeOK' /\ LockInv' /\ StartedInv' /\ HeadConsistent'
  <2>1. TypeOK' /\ LockInv'
    BY <1>10 DEF TypeOK, LockInv, WriteReady
  <2>2. ASSUME NEW d \in Consumers
        PROVE  armed'[d] => armed[d] /\ pc'[d] = pc[d] /\ signal'[d] = signal[d]
    BY <1>10 DEF TypeOK, WriteReady
  <2>3. StartedInv'
    BY <1>10, <2>2 DEF TypeOK, StartedInv, WriteReady
  <2> QED
    BY <1>10, <2>1, <2>3 DEF HeadConsistent, WriteReady
<1>11. ASSUME NEW c \in Consumers, Drain(c)
      PROVE  TypeOK' /\ LockInv' /\ StartedInv' /\ HeadConsistent'
  BY <1>11 DEF TypeOK, LockInv, StartedInv, HeadConsistent, Drain
<1>12. ASSUME NEW c \in Consumers, IdleLock(c)
      PROVE  TypeOK' /\ LockInv' /\ StartedInv' /\ HeadConsistent'
  BY <1>12 DEF TypeOK, LockInv, StartedInv, HeadConsistent, IdleLock, CycleDone
<1>13. ASSUME NEW c \in Consumers, IdleInsert(c)
      PROVE  TypeOK' /\ LockInv' /\ StartedInv' /\ HeadConsistent'
  <2>1. next' = [next EXCEPT ![c] = next[Idles], ![Idles] = c]
    BY <1>13 DEF IdleInsert, LinkedFirst
  <2>2. next[Idles] \in Links /\ ~armed[c]
    BY <1>13 DEF TypeOK, StartedInv, IdleInsert
  <2>3. TypeOK'
    BY <1>13, <2>1, <2>2 DEF TypeOK, IdleInsert, AfterCycle
  <2>4. LockInv'
    BY <1>13, <2>1, <2>2 DEF TypeOK, LockInv, IdleInsert, AfterCycle
  <2>5. StartedInv'
    BY <1>13, <2>1, <2>2 DEF TypeOK, StartedInv, IdleInsert, AfterCycle
  <2>6. HeadConsistent'
    BY <1>13, <2>1, <2>2 DEF TypeOK, HeadConsistent, IdleInsert
  <2> QED
    BY <2>3, <2>4, <2>5, <2>6
<1>14. CASE UNCHANGED vars
  BY <1>14 DEF vars, TypeOK, LockInv, StartedInv, HeadConsistent
<1> QED
  BY <1>1, <1>2, <1>3, <1>4, <1>5, <1>6, <1>7, <1>8,
     <1>9, <1>10, <1>11, <1>12, <1>13, <1>14
     DEF Next, WorkerStep, ConsumerStep

\* A step that leaves the links alone and disengages no consumer keeps the
\* list a loop or a chain.
LEMMA ListUnchanged ==
    ASSUME UNCHANGED next, \A c \in Consumers : Engaged(c) => Engaged(c)',
           Looped \/ \E rank \in [Consumers -> Nat] : Chain(rank)
    PROVE  Looped' \/ \E rank \in [Consumers -> Nat] : Chain(rank)'
<1>1. CASE Looped
  BY <1>1 DEF Looped, Trap
<1>2. ASSUME NEW rank \in [Consumers -> Nat], Chain(rank) PROVE Chain(rank)'
  BY <1>2 DEF Chain, Shape
<1> QED
  BY <1>1, <1>2

\* The list stays a loop, stays a chain with every idle consumer on it, or is
\* a chain that a double insertion turns into a loop.
LEMMA ListStep ==
    ASSUME Inv, [Next]_vars
    PROVE  Looped' \/ \E rank \in [Consumers -> Nat] : Chain(rank)'
<1> DEFINE Goal == Looped' \/ \E rank \in [Consumers -> Nat] : Chain(rank)'
<1>0. TypeOK /\ LockInv /\ (Looped \/ \E rank \in [Consumers -> Nat] : Chain(rank))
  BY DEF Inv, IndInv
<1> USE DisjointAssumption, HeadAssumption, NoneAssumption DEF Goto
<1>1. ASSUME NEW w \in Workers, DispatchLock(w) PROVE Goal
  BY <1>0, <1>1, ListUnchanged DEF DispatchLock, DispatchCall, TypeOK, LockInv, Engaged
<1>2. ASSUME NEW w \in Workers, Refuse(w) PROVE Goal
  BY <1>0, <1>2, ListUnchanged DEF Refuse, TypeOK, LockInv, Engaged
<1>3. ASSUME NEW w \in Workers, DispatchTake(w) PROVE Goal
  BY <1>0, <1>3, ListUnchanged DEF DispatchTake, TypeOK, LockInv, Engaged
<1>4. ASSUME NEW w \in Workers, DispatchUnlink(w) PROVE Goal
  <2>1. PICK c \in Consumers : c = node[w] /\ c = next[Idles]
    BY <1>0, <1>4 DEF TypeOK, LockInv, DispatchUnlink
  <2>2. next' = Unlinked(c)
    BY <1>4, <2>1 DEF DispatchUnlink
  <2>3. ASSUME NEW d \in Consumers
        PROVE  /\ Engaged(d) => Engaged(d)'
               /\ d = c => Engaged(d)'
    BY <1>0, <1>4, <2>1 DEF TypeOK, LockInv, DispatchUnlink, Engaged
  <2>4. CASE Looped
    <3>1. PICK S \in SUBSET Consumers : Trap(S)
      BY <2>4 DEF Looped
    <3>2. next' = Unlinked(next[Idles])
      BY <2>1, <2>2
    <3>3. Trap(S)'
      BY <1>0, <3>1, <3>2, TrapUnlink
    <3> QED
      BY <3>3 DEF Looped
  <2>5. ASSUME NEW rank \in [Consumers -> Nat], Chain(rank) PROVE Goal
    <3>1. PICK r \in [Consumers -> Nat] :
             Shape(r)' /\ \A d \in Consumers : d # c => r[d] = rank[d]
      BY <1>0, <2>1, <2>2, <2>5, UnlinkFirst DEF Chain
    <3>2. \A d \in Consumers : ~Engaged(d)' => r[d] > 0
      BY <2>3, <2>5, <3>1 DEF Chain
    <3>3. Chain(r)'
      BY <3>1, <3>2 DEF Chain
    <3> QED
      BY <3>3
  <2> QED
    BY <1>0, <2>4, <2>5
<1>5. ASSUME NEW w \in Workers, Notify(w) PROVE Goal
  <2>1. ASSUME NEW c \in Consumers, Engaged(c) PROVE Engaged(c)'
    <3>1. node[w] \in Consumers
      BY <1>0, <1>5 DEF TypeOK, LockInv, Notify
    <3>2. CASE c = node[w]
      BY <1>0, <1>5, <3>1, <3>2 DEF TypeOK, Notify, Engaged
    <3>3. CASE c # node[w]
      BY <1>0, <1>5, <2>1, <3>1, <3>3 DEF TypeOK, Notify, Engaged
    <3> QED
      BY <3>2, <3>3
  <2> QED
    BY <1>0, <1>5, <2>1, ListUnchanged DEF Notify
<1>6. ASSUME NEW w \in Workers, Push(w) PROVE Goal
  BY <1>0, <1>6, ListUnchanged DEF Push, TypeOK, LockInv, Engaged
<1>7. ASSUME NEW w \in Workers, NEW c \in Consumers, NotifyAgain(w, c) PROVE Goal
  BY <1>0, <1>7, ListUnchanged DEF NotifyAgain, TypeOK, LockInv, Engaged
<1>8. ASSUME NEW c \in Consumers, Wake(c) PROVE Goal
  BY <1>0, <1>8, ListUnchanged DEF Wake, TypeOK, LockInv, Engaged
<1>9. ASSUME NEW c \in Consumers, ReadFd(c) PROVE Goal
  BY <1>0, <1>9, ListUnchanged DEF ReadFd, TypeOK, LockInv, Engaged
<1>10. ASSUME NEW c \in Consumers, WriteReady(c) PROVE Goal
  BY <1>0, <1>10, ListUnchanged DEF WriteReady, TypeOK, LockInv, Engaged
<1>11. ASSUME NEW c \in Consumers, Drain(c) PROVE Goal
  BY <1>0, <1>11, ListUnchanged DEF Drain, TypeOK, LockInv, Engaged
<1>12. ASSUME NEW c \in Consumers, IdleLock(c) PROVE Goal
  BY <1>0, <1>12, ListUnchanged DEF IdleLock, CycleDone, TypeOK, LockInv, Engaged
<1>13. ASSUME NEW c \in Consumers, IdleInsert(c) PROVE Goal
  <2>1. next' = LinkedFirst(c)
    BY <1>13 DEF IdleInsert
  <2>2. \A d \in Consumers : d # c => (Engaged(d) <=> Engaged(d)')
    BY <1>0, <1>13 DEF TypeOK, LockInv, IdleInsert, Engaged
  <2>3. CASE Looped
    <3>1. PICK S \in SUBSET Consumers : Trap(S)
      BY <2>3 DEF Looped
    <3>2. PICK T \in SUBSET Consumers : T = S \union {c}
      OBVIOUS
    <3>3. Trap(T)'
      BY <1>0, <2>1, <3>1, <3>2, TrapInsert
    <3> QED
      BY <3>3 DEF Looped
  <2>4. ASSUME NEW rank \in [Consumers -> Nat], Chain(rank) PROVE Goal
    <3>1. CASE rank[c] > 0
      BY <1>0, <2>1, <2>4, <3>1, InsertListed DEF Chain
    <3>2. CASE rank[c] = 0
      <4>1. PICK r \in [Consumers -> Nat] :
               /\ Shape(r)' /\ r[c] > 0
               /\ \A d \in Consumers : d # c => r[d] = rank[d]
        BY <1>0, <2>1, <2>4, <3>2, InsertUnlisted DEF Chain
      <4>2. \A d \in Consumers : ~Engaged(d)' => r[d] > 0
        BY <2>2, <2>4, <4>1 DEF Chain
      <4>3. Chain(r)'
        BY <4>1, <4>2 DEF Chain
      <4> QED
        BY <4>3
    <3> QED
      BY <3>1, <3>2
  <2> QED
    BY <1>0, <2>3, <2>4
<1>14. CASE UNCHANGED vars
  BY <1>0, <1>14, ListUnchanged DEF vars, Engaged
<1> QED
  BY <1>1, <1>2, <1>3, <1>4, <1>5, <1>6, <1>7, <1>8,
     <1>9, <1>10, <1>11, <1>12, <1>13, <1>14
     DEF Next, WorkerStep, ConsumerStep

\* The invariant of the dispatch and of the end of a cycle holds in every
\* reachable state, for any number of workers and consumers.
THEOREM InductiveInvariant == Spec => []Inv
<1>1. Inv /\ [Next]_vars => Inv'
  <2> SUFFICES ASSUME Inv, [Next]_vars PROVE Inv'
    OBVIOUS
  <2> QED
    BY SimpleStep, ListStep DEF Inv, IndInv
<1> QED
  BY <1>1, InitInv, PTL DEF Spec

\* A dispatch never takes the list head for a consumer.
THEOREM TypeCorrect == Spec => []TypeOK
<1>1. Inv => TypeOK
  BY DEF Inv, IndInv
<1> QED
  BY <1>1, InductiveInvariant, PTL

\* ngx_queue_empty, which reads prev, agrees with the next link the dispatch
\* follows.
THEOREM EmptyTestIsRight == Spec => []HeadConsistent
<1>1. Inv => HeadConsistent
  BY DEF Inv, IndInv
<1> QED
  BY <1>1, InductiveInvariant, PTL

\* No request is answered 500 for want of a consumer while one is idle.
THEOREM RefusalsAreRight == Spec => []NoWrongRefusal
<1>1. Inv => NoWrongRefusal
  BY HeadAssumption
     DEF Inv, IndInv, TypeOK, NoWrongRefusal, Looped, Trap, Chain, Shape
<1> QED
  BY <1>1, InductiveInvariant, PTL

\* No task is sent to a process that has not run its first cycle.
THEOREM OnlyStartedConsumers == Spec => []StartedOnly
<1>1. Inv => StartedOnly
  BY DEF Inv, IndInv, StartedInv, StartedOnly
<1> QED
  BY <1>1, InductiveInvariant, PTL

\* A list that has become a loop stays one.
THEOREM LoopsAreForEver == Spec => LoopStays
<1>1. Inv /\ [Next]_vars => [Looped => Looped']_vars
  <2> SUFFICES ASSUME Inv, [Next]_vars, Looped PROVE Looped'
    OBVIOUS
  <2>1. TypeOK /\ LockInv
    BY DEF Inv, IndInv
  <2>2. PICK S \in SUBSET Consumers : Trap(S)
    BY DEF Looped
  <2>3. CASE UNCHANGED next
    BY <2>2, <2>3 DEF Looped, Trap
  <2>4. ASSUME NEW w \in Workers, DispatchUnlink(w) PROVE Looped'
    <3>1. next' = Unlinked(next[Idles])
      BY <2>1, <2>4 DEF LockInv, DispatchUnlink
    <3>2. Trap(S)'
      BY <2>1, <2>2, <3>1, TrapUnlink
    <3> QED
      BY <3>2 DEF Looped
  <2>5. ASSUME NEW c \in Consumers, IdleInsert(c) PROVE Looped'
    <3>1. next' = LinkedFirst(c)
      BY <2>5 DEF IdleInsert
    <3>2. PICK T \in SUBSET Consumers : T = S \union {c}
      OBVIOUS
    <3>3. Trap(T)'
      BY <2>1, <2>2, <3>1, <3>2, TrapInsert
    <3> QED
      BY <3>3 DEF Looped
  <2> QED
    BY <2>3, <2>4, <2>5
       DEF Next, WorkerStep, ConsumerStep, vars, DispatchLock, DispatchCall,
           Refuse, DispatchTake, Push, Notify, NotifyAgain, Wake, ReadFd, WriteReady,
           Drain, IdleLock, CycleDone
<1> QED
  BY <1>1, InductiveInvariant, PTL DEF Spec, LoopStays

-----------------------------------------------------------------------------
(* The length of the chain *)

\* Among the numbers below a bound that have a property, one is the greatest.
LEMMA GreatestOf ==
    ASSUME NEW n \in Nat, NEW S \in SUBSET (0 .. n), S # {}
    PROVE  \E k \in S : \A j \in S : j <= k
<1>1. PICK R : R = OpToRel(<, Nat)
  BY Zenon
<1>2. IsWellFoundedOn(R, Nat)
  BY <1>1, NatLessThanWellFounded, Zenon
<1>3. PICK T : T = {d \in 0 .. n : n - d \in S}
  OBVIOUS
<1>4. T \in SUBSET Nat /\ T # {}
  <2>1. PICK k \in S : TRUE
    OBVIOUS
  <2>2. n - k \in 0 .. n /\ n - (n - k) = k
    OBVIOUS
  <2>3. n - k \in T
    BY <1>3, <2>2
  <2>4. T \subseteq 0 .. n
    BY <1>3
  <2> QED
    BY <2>3, <2>4
<1>5. PICK d \in T : \A e \in T : ~(<<e, d>> \in R)
  BY <1>2, <1>4, WFMin
<1>6. \A e \in Nat : e < d => <<e, d>> \in R
  BY <1>1, <1>4 DEF OpToRel
<1>7. n - d \in S /\ d \in 0 .. n
  BY <1>3
<1>8. ASSUME NEW j \in S PROVE j <= n - d
  <2>1. PICK m \in 0 .. n : m = n - j /\ n - m = j
    <3>1. n - j \in 0 .. n /\ n - (n - j) = j
      OBVIOUS
    <3> QED
      BY <3>1
  <2>2. m \in T
    BY <1>3, <2>1
  <2>3. ~(<<m, d>> \in R) /\ m \in Nat
    BY <1>4, <1>5, <2>2
  <2>4. ~(m < d)
    BY <1>6, <2>3
  <2> QED
    BY <1>7, <2>1, <2>4
<1> QED
  BY <1>7, <1>8

\* The ranks of a chain have no gap: every number from 1 to the rank of the
\* first consumer is the rank of one.
LEMMA RanksAreFull ==
    ASSUME TypeOK, NEW rank \in [Consumers -> Nat], Shape(rank),
           next[Idles] # Idles
    PROVE  \A k \in 1 .. rank[next[Idles]] : \E c \in Consumers : rank[c] = k
<1>1. next[Idles] \in Consumers
  BY DEF TypeOK
<1>2. PICK top \in Nat : top = rank[next[Idles]]
  BY <1>1
<1> DEFINE S == {k \in 1 .. top : \A c \in Consumers : rank[c] # k}
<1>3. SUFFICES ASSUME S # {} PROVE FALSE
  BY <1>2
<1>4. S \in SUBSET (0 .. top)
  OBVIOUS
<1> HIDE DEF S
<1>5. PICK k \in S : \A j \in S : j <= k
  BY <1>3, <1>4, GreatestOf
<1>6. k \in 1 .. top /\ \A c \in Consumers : rank[c] # k
  BY DEF S
<1>7. k # top
  BY <1>1, <1>2, <1>6
<1>8. k + 1 \in 1 .. top /\ k + 1 \notin S
  <2>1. k + 1 \in 1 .. top
    BY <1>6, <1>7
  <2>2. ~(k + 1 <= k)
    BY <1>6
  <2> QED
    BY <1>5, <2>1, <2>2
<1>9. PICK c \in Consumers : rank[c] = k + 1
  BY <1>8 DEF S
<1>10. rank[c] > 1 /\ rank[c] - 1 = k
  BY <1>6, <1>9
<1>11. next[c] # Idles /\ rank[next[c]] = k
  BY <1>10 DEF Shape
<1>12. next[c] \in Consumers
  BY <1>11 DEF TypeOK
<1> QED
  BY <1>6, <1>11, <1>12

\* So the chain has at most as many ranks as there are consumers.
LEMMA RanksAreFew ==
    ASSUME TypeOK, NEW rank \in [Consumers -> Nat], Shape(rank)
    PROVE  rank \in [Consumers -> 0 .. Cardinality(Consumers)]
<1>0. PICK N \in Nat : N = Cardinality(Consumers)
  BY ConsumersAssumption, FS_CardinalityType
<1>1. CASE next[Idles] = Idles
  BY <1>0, <1>1 DEF Shape
<1>2. CASE next[Idles] # Idles
  <2>1. next[Idles] \in Consumers
    BY <1>2 DEF TypeOK
  <2>2. PICK top \in Nat : top = rank[next[Idles]]
    BY <2>1
  <2>3. \A k \in 1 .. top : \E c \in Consumers : rank[c] = k
    BY <1>2, <2>2, RanksAreFull
  <2>4. PICK f : f = [c \in Consumers |-> rank[c]]
    OBVIOUS
  <2>5. PICK T : T = {rank[c] : c \in Consumers}
    OBVIOUS
  <2>6. f \in Surjection(Consumers, T)
    BY <2>4, <2>5 DEF Surjection
  <2>7. IsFiniteSet(T) /\ Cardinality(T) <= N
    BY <1>0, <2>6, ConsumersAssumption, FS_Surjection DEF ExistsSurjection
  <2>8. 1 .. top \in SUBSET T
    BY <2>3, <2>5
  <2>9. Cardinality(1 .. top) = top
    BY <2>2, FS_Interval
  <2>10. Cardinality(1 .. top) <= Cardinality(T) /\ Cardinality(T) \in Nat
    BY <2>7, <2>8, FS_Subset, FS_CardinalityType
  <2>11. top <= N
    BY <1>0, <2>2, <2>7, <2>9, <2>10
  <2>12. \A c \in Consumers : rank[c] <= top
    BY <1>2, <2>2 DEF Shape
  <2> QED
    BY <1>0, <2>2, <2>11, <2>12
<1> QED
  BY <1>1, <1>2

\* The list is always a loop or a chain that holds every idle consumer once
\* and is no longer than their number.
THEOREM ListIsLoopOrChain == Spec => []LoopOrChain
<1>1. Inv => LoopOrChain
  <2> SUFFICES ASSUME Inv PROVE LoopOrChain
    OBVIOUS
  <2>1. TypeOK /\ LockInv /\ StartedInv /\ HeadConsistent
    BY DEF Inv, IndInv
  <2>2. CASE Looped
    BY <2>1, <2>2 DEF LoopOrChain, IndInv
  <2>3. ASSUME NEW rank \in [Consumers -> Nat], Chain(rank) PROVE LoopOrChain
    <3>1. rank \in [Consumers -> 0 .. Cardinality(Consumers)]
      BY <2>1, <2>3, RanksAreFew DEF Chain
    <3> QED
      BY <2>1, <2>3, <3>1 DEF LoopOrChain, IndInv
  <2> QED
    BY <2>2, <2>3 DEF Inv, IndInv
<1> QED
  BY <1>1, InductiveInvariant, PTL
=============================================================================
