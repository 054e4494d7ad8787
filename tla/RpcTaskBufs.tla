---------------------------- MODULE RpcTaskBufs ----------------------------
(***************************************************************************)
(* What the calls do to the shared slab pool: the context, the task and the *)
(* two buffer chains of every call, from the request (ngx_http_rpc.c) over  *)
(* the method and its forwarding in a consumer (ngx_rpc_channel.cpp,        *)
(* ngx_rpc_buffer.cpp) to the cleanup of the connection (ngx_rpc_task.c).   *)
(*                                                                          *)
(* The pool is an array of chunks of Cap bytes; chunk k begins at address   *)
(* k * Cap, so the byte behind a chunk is the first one of its neighbour.   *)
(* ngx_slab_alloc hands the free chunks out in some order.  ngx_slab_free   *)
(* only logs an alert when it is given an address inside a chunk, or a free *)
(* chunk.                                                                   *)
(* Between two steps of a call the other calls take theirs, as the workers  *)
(* and consumers that share the pool do; what a single handler does to the  *)
(* pool is one step, except in ngx_http_rpc_task_set_bufs, which reads what *)
(* it has freed.  A NULL that nothing checks ends the process ("crashed");  *)
(* what a crash does to the other calls is in RpcCrash.                     *)
(***************************************************************************)
EXTENDS Integers, FiniteSets, Sequences, Functions

CONSTANTS
    Calls,          \* the calls
    NChunks,        \* bound: the chunks of the pool
    Cap,            \* the bytes of a chunk
    Slab(_),        \* the order in which ngx_slab_alloc takes a set of free chunks
    Bodies,         \* bound: the request bodies
    Outs,           \* bound: the answers of subrequests
    Messages        \* bound: the sizes of the messages that are serialized

(* What nginx hands over: memory buffers, of which len bytes are used, or a *)
(* buffer in a temporary file, whose pos and last are both NULL.            *)
Part == [len : 0 .. Cap, file : {FALSE}] \cup [len : {0}, file : {TRUE}]

(* A request body is one buffer, or what came with the headers followed by  *)
(* the rest in memory or in a file; the answer of a subrequest is a list of *)
(* memory buffers.                                                          *)
ASSUME BufsAssumption ==
    /\ NChunks \in Nat
    /\ Cap \in Nat \ {0, 1}
    /\ \A b \in Bodies : b \in Seq(Part) /\ Len(b) \in 1 .. 2
    /\ \A o \in Outs : o \in Seq(Part) /\ \A i \in DOMAIN o : ~o[i].file
    /\ Messages \subseteq 0 .. 2 * Cap

Chunks == 1 .. NChunks

(* Every free chunk is given out before the pool is full, and only once.    *)
ASSUME SlabAssumption ==
    \A F \in SUBSET Chunks :
        LET f == Slab(F)
        IN  /\ f \in Seq(Chunks) /\ Range(f) = F
            /\ \A i, j \in DOMAIN f : i # j => f[i] # f[j]

VARIABLES
    heap,       \* the user of every chunk
    call,       \* the state of every call
    wrong       \* history: a free has hit a chunk that was not meant

vars == <<heap, call, wrong>>

Null == 0
Free == [call |-> Null, use |-> "free"]
Uses == {"ctx", "task", "node", "buf", "data"}

NoSub == [left |-> 0, length |-> 0, on |-> FALSE]

Init ==
    /\ heap = [k \in Chunks |-> Free]
    /\ call = [c \in Calls |->
          [pc |-> "none", ctx |-> Null, task |-> Null, req |-> <<>>, res |-> <<>>,
           resLength |-> 0, late |-> {}, sub |-> NoSub, node |-> Null,
           dropped |-> <<>>, lost |-> {}]]
    /\ wrong = FALSE

-----------------------------------------------------------------------------
(* ngx_slab_alloc, once for each of uses, and ngx_slab_free.                *)

FreeSeq(h) == Slab({k \in Chunks : h[k] = Free})

Enough(h, uses) == Len(uses) <= Len(FreeSeq(h))

Alloc(h, c, uses) ==
    LET f == FreeSeq(h)
    IN  [k \in Chunks |->
            IF \E i \in DOMAIN f : f[i] = k /\ i <= Len(uses)
            THEN [call |-> c, use |-> uses[CHOOSE i \in DOMAIN f : f[i] = k]]
            ELSE h[k]]

FreeAll(h, addresses) == [k \in Chunks |-> IF k * Cap \in addresses THEN Free ELSE h[k]]

(* The allocations that a chain of n buffers takes, in their order, and the *)
(* chain itself; its first node is a field of the task.                     *)
ChainUses(n) == [j \in 1 .. 3 * n - 1 |->
                   CASE j % 3 = 1 -> "buf" [] j % 3 = 2 -> "data" [] j % 3 = 0 -> "node"]

Chain(places, parts) ==
    [i \in DOMAIN parts |->
       [node |-> IF i = 1 THEN Null ELSE places[3 * i - 3],
        buf  |-> places[3 * i - 2],
        data |-> places[3 * i - 1],
        len  |-> parts[i].len, pos |-> 0, file |-> parts[i].file]]

Data(bs) == {b.data : b \in Range(bs)}
Bufs(bs) == {b.buf : b \in Range(bs)}
Nodes(bs) == {b.node : b \in Range(bs)} \ {Null}

Start(b) == b.data * Cap

(* The loop of ngx_http_rpc_task_set_bufs that copies the source chain.     *)
\* Mutant of Copied: one byte too many.
CopiedMore(places, parts) ==
    Chain(places, [i \in DOMAIN parts |-> [parts[i] EXCEPT !.len = @ + 1]])
Copied(places, parts) == Chain(places, parts)

-----------------------------------------------------------------------------
(* ngx_http_rpc_http_handler: the context; without one the answer is 500.   *)
Begin(c) ==
    /\ call[c].pc = "none"
    /\ IF Enough(heap, <<"ctx">>)
       THEN /\ heap' = Alloc(heap, c, <<"ctx">>)
            /\ call' = [call EXCEPT ![c].pc = "begun", ![c].ctx = FreeSeq(heap)[1]]
       ELSE /\ call' = [call EXCEPT ![c].pc = "finished"]
            /\ UNCHANGED heap
    /\ UNCHANGED wrong

(* ngx_http_rpc_post_async_handler without a body: 400, and no task.        *)
NoBody(c) ==
    /\ call[c].pc = "begun"
    /\ call' = [call EXCEPT ![c].pc = "finished"]
    /\ UNCHANGED <<heap, wrong>>

(* The same with a body: the task, the copy of the body, and the dispatch;  *)
(* with no idle consumer the call is finished at once.                      *)
Post(c, body) ==
    LET uses == <<"task">> \o ChainUses(Len(body))
        f == FreeSeq(heap)
    IN  /\ call[c].pc = "begun"
        /\ heap' = Alloc(heap, c, uses)
        /\ IF Enough(heap, uses)
           THEN \E pc \in {"queued", "finished"} :
                   call' = [call EXCEPT ![c].pc = pc, ![c].task = f[1],
                                        ![c].req = Copied(Tail(f), body)]
           ELSE call' = [call EXCEPT ![c].pc = "crashed"]
        /\ UNCHANGED wrong

-----------------------------------------------------------------------------
(* The consumer.                                                            *)

(* The reader on a well-formed message: it takes the memory buffers, stops  *)
(* before a file, and hangs when a second memory buffer is read (RpcStreams).*)
Spins(bs) == Len(bs) > 1 /\ ~bs[1].file /\ ~bs[2].file
Read(bs) == [i \in DOMAIN bs |->
               IF \E j \in 1 .. i : bs[j].file THEN bs[i] ELSE [bs[i] EXCEPT !.pos = bs[i].len]]

(* NgxShmChainBufferWriter on res_bufs for a message of m bytes: the        *)
(* constructor clears the first node and with it what the chain held.  With *)
(* a second buffer the assert in BackUp may fail (RpcStreams).              *)
Writes(m) == [i \in 1 .. (IF m <= Cap THEN 1 ELSE 2) |-> [len |-> Cap, file |-> FALSE]]

Write(c, m, pc, log) ==
    LET uses == ChainUses(Len(Writes(m)))
    IN  /\ heap' = Alloc(heap, c, uses)
        /\ \/ /\ Enough(heap, uses)
              /\ call' = [call EXCEPT ![c].pc = pc, ![c].req = Read(@),
                                      ![c].res = Chain(FreeSeq(heap), Writes(m)),
                                      ![c].resLength = m, ![c].late = @ \cup {log},
                                      ![c].dropped = call[c].res]
           \/ /\ ~Enough(heap, uses) \/ Len(Writes(m)) > 1
              /\ call' = [call EXCEPT ![c].pc = "crashed"]
        /\ UNCHANGED wrong

(* The method's handler, and RpcChannel::forward_request or finish_request. *)
(* A body that is not a message is left unread here: nothing but            *)
(* finish_request and the cleanup follow, and they do not look at it.       *)
RunMethod(c, m) ==
    /\ call[c].pc = "queued"
    /\ \/ /\ Spins(call[c].req)
          /\ call' = [call EXCEPT ![c].pc = "hung"]
          /\ UNCHANGED <<heap, wrong>>
       \/ /\ ~Spins(call[c].req)
          /\ \/ Write(c, m, "answer", "finish")
             \/ Write(c, m, "forward", "forward")

RunBadBody(c) ==
    /\ call[c].pc = "queued"
    /\ LET uses == ChainUses(1)
       IN  /\ heap' = Alloc(heap, c, uses)
           /\ IF Enough(heap, uses)
              THEN call' = [call EXCEPT ![c].pc = "answer",
                                        ![c].res = Chain(FreeSeq(heap), Writes(0)),
                                        ![c].resLength = 0, ![c].late = {"finish"}]
              ELSE call' = [call EXCEPT ![c].pc = "crashed"]
    /\ UNCHANGED wrong

(* The log entries that read the task after it was pushed, at the end of    *)
(* forward_request and in ngx_proc_rpc_process_one_cycle.                   *)
LateLog(c) ==
    /\ call[c].late # {}
    /\ call' = [call EXCEPT ![c].late = {}]
    /\ UNCHANGED <<heap, wrong>>

-----------------------------------------------------------------------------
(* The worker: ngx_http_rpc_request_foward.  The body of the subrequest is  *)
(* req_bufs, its Content-Length is res_length.                              *)
Left(bs) == Cardinality(UNION {{i} \X (bs[i].pos + 1 .. bs[i].len) : i \in DOMAIN bs})

(* ngx_http_header_modify_content_length: content_length_n, and the header  *)
(* if the request has one.                                                  *)
ContentLength(c) == call[c].resLength

\* Mutant of Foward: the body is what was serialized.
FowardResponse(c) ==
    /\ call[c].pc = "forward"
    /\ call' = [call EXCEPT ![c].pc = "sub",
                            ![c].sub = [left |-> call[c].resLength,
                                        length |-> ContentLength(c), on |-> TRUE]]
    /\ UNCHANGED <<heap, wrong>>
Foward(c) ==
    /\ call[c].pc = "forward"
    /\ \E pc \in {"sub", "stuck"} :       \* "stuck": ngx_http_subrequest has failed
          call' = [call EXCEPT ![c].pc = pc,
                               ![c].sub = [left |-> Left(call[c].req),
                                           length |-> ContentLength(c), on |-> TRUE]]
    /\ UNCHANGED <<heap, wrong>>

(* ngx_http_rpc_subrequest_done_handler with another status than 200.       *)
SubFailed(c) ==
    /\ call[c].pc = "sub"
    /\ call' = [call EXCEPT ![c].pc = "back", ![c].sub = NoSub]
    /\ UNCHANGED <<heap, wrong>>

(* With 200: ngx_http_rpc_task_set_bufs frees the old chain, pos where      *)
(* start was allocated (Null, for the node of the head, is no chunk) ...    *)
OldAddresses(bs) ==
    UNION {{Start(b) + b.pos, b.buf * Cap, b.node * Cap} : b \in Range(bs)}

(* A chunk has become free that is not one of the chain's own.              *)
Meant(bs) == UNION {{b.data, b.buf, b.node} : b \in Range(bs)}
Hits(h, bs) == \E k \in Chunks \ Meant(bs) : heap[k] # Free /\ h[k] = Free

SubFree(c) ==
    LET bs == call[c].req
        h == FreeAll(heap, OldAddresses(bs))
    IN  /\ call[c].pc = "sub"
        /\ heap' = h
        /\ wrong' = (wrong \/ Hits(h, bs))
        /\ call' = [call EXCEPT ![c].pc = "freed", ![c].sub = NoSub, ![c].req = <<>>,
                                ![c].node = IF Len(bs) > 1 THEN bs[2].node ELSE Null,
                                ![c].lost = {b.data : b \in {x \in Range(bs) : x.pos > 0}}]

(* ... reads next in a node that is free by now, and copies the answer of   *)
(* the subrequest.                                                          *)
SubCopy(c, out) ==
    LET uses == ChainUses(Len(out))
    IN  /\ call[c].pc = "freed"
        /\ heap' = Alloc(heap, c, uses)
        /\ IF Enough(heap, uses)
           THEN call' = [call EXCEPT ![c].pc = "back", ![c].node = Null,
                                     ![c].req = Copied(FreeSeq(heap), out)]
           ELSE call' = [call EXCEPT ![c].pc = "crashed"]
        /\ UNCHANGED wrong

(* If that node has a new user when it is read, the loop goes on with what  *)
(* stands there.  In a node of a chain this is the rest of the chain ...    *)
Chains == UNION {{call[d].req, call[d].res, call[d].dropped} : d \in Calls}
InChain(k) == \E bs \in Chains : k \in Nodes(bs)
Rest(bs, k) == Restrict(bs, {j \in DOMAIN bs : \E i \in 1 .. j - 1 : bs[i].node = k})
Behind(k) == UNION {OldAddresses(Rest(bs, k)) : bs \in Chains}

FreeMore(c, addresses) ==
    LET h == FreeAll(heap, addresses)
    IN  /\ heap' = h
        /\ wrong' = (wrong \/ h # heap)
        /\ call' = [call EXCEPT ![c].node = Null]

(* ... and elsewhere any word: NULL, an address that ends the process, or   *)
(* one that makes it free some chunk.                                       *)
SubStale(c) ==
    LET k == call[c].node
    IN  /\ call[c].pc = "freed"
        /\ k # Null /\ heap[k] # Free
        /\ \/ /\ InChain(k)
              /\ FreeMore(c, Behind(k))
           \/ /\ ~InChain(k)
              /\ \E x \in Chunks : FreeMore(c, {x * Cap})
           \/ /\ ~InChain(k)
              /\ call' = [call EXCEPT ![c].pc = "crashed"]
              /\ UNCHANGED <<heap, wrong>>

(* RpcChannel::foward_done, in the consumer that ran the method and so      *)
(* after its log entries, and the continuation, which finishes the call.    *)
\* Mutant of FowardDone: in any consumer.
FowardDoneAnywhere(c, m) ==
    /\ call[c].pc = "back" /\ ~Spins(call[c].req)
    /\ Write(c, m, "answer", "finish")
FowardDone(c, m) ==
    /\ call[c].pc = "back"
    /\ call[c].late = {}
    /\ IF Spins(call[c].req)
       THEN /\ call' = [call EXCEPT ![c].pc = "hung"]
            /\ UNCHANGED <<heap, wrong>>
       ELSE Write(c, m, "answer", "finish")

-----------------------------------------------------------------------------
(* ngx_http_rpc_request_finish registers the task's cleanup.                *)
\* Mutant of Finish: the task is freed at once.
FinishDestroys(c) ==
    /\ call[c].pc = "answer"
    /\ heap' = FreeAll(heap, {call[c].task * Cap})
    /\ call' = [call EXCEPT ![c].pc = "finished"]
    /\ UNCHANGED wrong
Finish(c) ==
    /\ call[c].pc = "answer"
    /\ call' = [call EXCEPT ![c].pc = "finished"]
    /\ UNCHANGED <<heap, wrong>>

(* ngx_http_rpc_task_destory: the data of both chains, and the task.        *)
\* Mutants of DataStarts: last or pos is freed.
DataEnds(bs) == {Start(b) + b.len : b \in Range(bs)}
DataPositions(bs) == {Start(b) + b.pos : b \in Range(bs)}
DataStarts(bs) == {Start(b) : b \in Range(bs)}

(* The connection is closed: its cleanups run, the last one first.          *)
Close(c) ==
    LET k == call[c]
        ps == (IF k.task = Null THEN {}
               ELSE DataStarts(k.req) \cup DataStarts(k.res) \cup {k.task * Cap})
                 \cup (IF k.ctx = Null THEN {} ELSE {k.ctx * Cap})
        h == FreeAll(heap, ps)
    IN  /\ k.pc = "finished"
        /\ heap' = h
        /\ wrong' = (wrong \/ \E i \in Chunks : heap[i] # Free /\ h[i] = Free /\ heap[i].call # c)
        /\ call' = [call EXCEPT ![c].pc = "closed"]

Next ==
    \E c \in Calls :
        \/ Begin(c) \/ NoBody(c)
        \/ \E body \in Bodies : Post(c, body)
        \/ \E m \in Messages : RunMethod(c, m)
        \/ RunBadBody(c) \/ LateLog(c)
        \/ Foward(c) \/ SubFailed(c) \/ SubFree(c)
        \/ \E out \in Outs : SubCopy(c, out)
        \/ SubStale(c)
        \/ \E m \in Messages : FowardDone(c, m)
        \/ Finish(c) \/ Close(c)

Spec == Init /\ [][Next]_vars

-----------------------------------------------------------------------------
Buffer == [node : {Null} \cup Chunks, buf : Chunks, data : Chunks,
           len : 0 .. Cap, pos : 0 .. Cap, file : BOOLEAN]

(* Every chunk has one user, and a buffer never holds more than its chunk.  *)
TypeOK ==
    /\ heap \in [Chunks -> {Free} \cup [call : Calls, use : Uses]]
    /\ \A c \in Calls :
          /\ call[c].ctx \in {Null} \cup Chunks /\ call[c].task \in {Null} \cup Chunks
          /\ Range(call[c].req) \subseteq Buffer /\ Range(call[c].res) \subseteq Buffer
          /\ call[c].late \subseteq {"forward", "finish"}
    /\ wrong \in BOOLEAN

Owns(c, k, use) == heap[k] = [call |-> c, use |-> use]

Open(c) == call[c].task # Null /\ call[c].pc \notin {"closed", "crashed"}

(* As long as no free has gone wrong, all that an open task points to (the  *)
(* buffers and data of both its chains, the nodes, the task and the         *)
(* context) is allocated, to this very call, and used once: the frees in    *)
(* set_bufs, the dropped chains and the cleanups of other calls never take  *)
(* it away.                                                                 *)
OwnMemory ==
    ~wrong => \A c \in Calls : Open(c) =>
        LET req == call[c].req
            res == call[c].res
        IN  /\ Owns(c, call[c].task, "task") /\ Owns(c, call[c].ctx, "ctx")
            /\ \A b \in Range(req) \cup Range(res) :
                  /\ Owns(c, b.buf, "buf") /\ Owns(c, b.data, "data")
                  /\ b.node # Null => Owns(c, b.node, "node")
            /\ Data(req) \cap Data(res) = {} /\ Bufs(req) \cap Bufs(res) = {}
            /\ Nodes(req) \cap Nodes(res) = {}

(* Nowhere but in ngx_http_rpc_task_set_bufs, called for the answer of a    *)
(* subrequest, does a free hit a chunk that is not meant, and there for two *)
(* reasons only: a body that was parsed to its end fills its chunk to the   *)
(* last byte, or the node of its second buffer, already freed, has become   *)
(* another call's when its next is read; and if it is a node again, it is   *)
(* one with others behind it, in a chain of three buffers or more.          *)
WrongFreeInSetBufs ==
    [][~wrong /\ wrong' =>
          \E c \in Calls :
             /\ call'[c].pc = "freed"
             /\ \/ /\ call[c].pc = "sub"
                   /\ \E b \in Range(call[c].req) : b.len = Cap /\ b.pos = Cap
                \/ /\ call[c].pc = "freed" /\ call[c].node # Null
                   /\ heap[call[c].node] # Free /\ heap[call[c].node].call # c
                   /\ InChain(call[c].node) =>
                         \E bs \in Chains : Len(bs) > 2 /\ call[c].node \in Nodes(bs)]_vars

Kept(c, use) == {k \in Chunks : Owns(c, k, use)}

(* What a call leaves in the pool for ever, to the chunk: every ngx_buf_t   *)
(* and every node of its last chains and of the chain that forward_request  *)
(* wrote; of the data, only that chain's and the parsed bodies that set_bufs *)
(* replaced.  In particular a call that is not forwarded loses no data, and *)
(* only a call that got no task gives all its memory back.                  *)
LeftBehind ==
    ~wrong => \A c \in Calls : call[c].pc = "closed" =>
        LET k == call[c]
        IN  /\ Kept(c, "task") = {} /\ Kept(c, "ctx") = {}
            /\ Kept(c, "data") = Data(k.dropped) \cup k.lost
            /\ Kept(c, "buf") = Bufs(k.req) \cup Bufs(k.res) \cup Bufs(k.dropped)
            /\ Kept(c, "node") = Nodes(k.req) \cup Nodes(k.res) \cup Nodes(k.dropped)

(* forward_request still reads the task after it has pushed it.  The task   *)
(* is there: it comes back to the same consumer before it can be finished.  *)
LogAfterForward ==
    \A c \in Calls : ~wrong /\ "forward" \in call[c].late => Owns(c, call[c].task, "task")

(* The body of a subrequest never has the length its header announces,      *)
(* unless the message is empty: the method's parser has consumed it.  (A    *)
(* part in a file is not parsed, and is sent.)                              *)
BodyIsConsumed ==
    \A c \in Calls : call[c].sub.on /\ (\A b \in Range(call[c].req) : ~b.file) =>
        (call[c].sub.left = call[c].sub.length <=> call[c].sub.length = 0)
=============================================================================
