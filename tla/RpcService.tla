----------------------------- MODULE RpcService -----------------------------
(***************************************************************************)
(* What the RPC module promises to the HTTP core of nginx about requests,  *)
(* and no more: no processes, no tasks, no queues.  A request has one      *)
(* answer; a call that was forwarded to this module answers after its      *)
(* subrequest and the same; a connection is closed over answered requests  *)
(* only.  RpcSystem is shown to implement this specification.              *)
(***************************************************************************)

CONSTANTS Requests,
          Errors,      \* what a request is refused with
          Results,     \* what a call ends with
          None         \* "no answer", "no parent"

VARIABLES state,       \* "new", "reading", "pending", "answered", "closed"
          answer,      \* the status that was sent
          parent       \* the request it is a subrequest of

vars == <<state, answer, parent>>

Init == /\ state = [t \in Requests |-> "new"]
        /\ answer = [t \in Requests |-> None]
        /\ parent = [t \in Requests |-> None]

Children(t) == {u \in Requests : parent[u] = t}

Moves(t, s) == state' = [state EXCEPT ![t] = s]
Replies(t, st) == /\ answer[t] = None
                  /\ answer' = [answer EXCEPT ![t] = st]

Arrive(t) == /\ state[t] = "new"
             /\ Moves(t, "reading")
             /\ UNCHANGED <<answer, parent>>

\* The request goes to a consumer ...
Accept(t) == /\ state[t] = "reading"
             /\ Moves(t, "pending")
             /\ UNCHANGED <<answer, parent>>

\* ... or is turned away: no memory, no body, no consumer.
Refuse(t, st) == /\ state[t] \in {"new", "reading"}
                 /\ Moves(t, "answered")
                 /\ Replies(t, st)
                 /\ UNCHANGED parent

\* The call is forwarded: one subrequest, which is accepted or turned away.
Forward(t, u) == /\ state[t] = "pending" /\ Children(t) = {}
                 /\ state[u] = "new"
                 /\ parent' = [parent EXCEPT ![u] = t]
                 /\ \/ Moves(u, "pending") /\ UNCHANGED answer
                    \/ Moves(u, "answered") /\ \E st \in Errors : Replies(u, st)

\* The call is over, and so is its subrequest if it has one.
Answer(t, st) == /\ state[t] = "pending"
                 /\ \A u \in Children(t) : answer[u] = st
                 /\ Moves(t, "answered")
                 /\ Replies(t, st)
                 /\ UNCHANGED parent

\* The connection closes over a request and its subrequest.
Close(t) == /\ state[t] = "answered" /\ parent[t] = None
            /\ \A u \in Children(t) : answer[u] # None
            /\ state' = [u \in Requests |->
                            IF u = t \/ u \in Children(t) THEN "closed" ELSE state[u]]
            /\ UNCHANGED <<answer, parent>>

Next == \E t \in Requests :
           \/ Arrive(t) \/ Accept(t) \/ Close(t)
           \/ \E st \in Errors : Refuse(t, st)
           \/ \E st \in Results : Answer(t, st)
           \/ \E u \in Requests : Forward(t, u)

Spec == Init /\ [][Next]_vars
=============================================================================
