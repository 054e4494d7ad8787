----------------------------- MODULE RpcStreams -----------------------------
(***************************************************************************)
(* The three protobuf streams of ngx_rpc_buffer.cpp:                       *)
(*   "pool"    NgxChainBufferWriter, whose buffers are from an nginx pool; *)
(*   "shm"     NgxShmChainBufferWriter, its copy on the shared slab pool,  *)
(*             which carries every request and response a consumer sends;  *)
(*   "reader"  NgxChainBufferReader, from which the request, or the answer *)
(*             of a forwarded call, is parsed in the chain of a task.      *)
(*                                                                         *)
(* The client of a writer is CodedOutputStream as                          *)
(* SerializeToZeroCopyStream uses it: it calls Next once at the start,     *)
(* again whenever the room it has is too small, and at the end gives what  *)
(* is left back with BackUp.  A stream may be given several messages one   *)
(* after the other; the code of this repository gives each one message.    *)
(*                                                                         *)
(* The client of the reader may call Next, BackUp (right after a Next,     *)
(* with no more than that gave) and Skip in any order until one of them    *)
(* says that the stream is at its end.  Its ByteCount is left out: nothing *)
(* asks for it.                                                            *)
(*                                                                         *)
(* Bytes are cells <<i, o>>: offset o of the i-th buffer of the chain.     *)
(***************************************************************************)
EXTENDS Integers, Sequences, Functions

CONSTANTS
    DefaultSize,    \* default_size
    MaxBytes,       \* bound: size of a message that is written
    MaxMessages,    \* bound: messages written to one stream
    MaxBufs,        \* bound: buffers in a chain that is read
    MaxSize         \* bound: bytes in a buffer that is read

ASSUME StreamAssumption ==
    /\ DefaultSize \in Nat \ {0}
    /\ MaxBytes \in Nat /\ MaxMessages \in Nat
    /\ MaxBufs \in Nat \ {0} /\ MaxSize \in Nat

VARIABLES
    class,      \* the class of the stream
    bufs,       \* the buffers of the chain that begins at the caller's node
    chain,      \* the node the stream's member chain points to
    pc,         \* a writer: "idle", "writing", or "aborted" by an assert; the
                \* reader: "ready"; "end", "failed": false was returned by Next,
                \* Skip; "spin": Next never returns; "crashed": NULL was followed
    cells,      \* history: the cells the client was given and kept
    \* of a writer
    totaly,     \* what ByteCount returns, later the task's res_length
    extends,    \* factor of the next allocation
    n,          \* size of the message that is written
    messages,   \* messages given to the stream, the one that is written included
    written,    \* history: the sum of their sizes
    \* of the reader
    chunk,      \* size of what Next has just given, 0 after another call
    from,       \* the buffer it came from
    astray      \* history: BackUp was called for a chunk of another buffer

writerVars == <<totaly, extends, n, messages, written>>
readerVars == <<chunk, from, astray>>
vars == <<class, bufs, chain, pc, cells, writerVars, readerVars>>

Null == 0

\* k cells of buffer i from offset o.
Run(i, o, k) == [j \in 1..k |-> <<i, o + j - 1>>]

\* The cells between pos and last of buffer i, which are what is sent of it.
Cells(bs, i) == Run(i, bs[i].pos, bs[i].last - bs[i].pos)

Common == /\ chain = 1 /\ cells = <<>>
          /\ totaly = 0 /\ extends = 1 /\ n = 0
          /\ messages = 0 /\ written = 0
          /\ chunk = 0 /\ from = 1 /\ astray = FALSE

\* Both constructors: an empty first node; extends is its default argument.
InitWriter ==
    /\ class \in {"pool", "shm"}
    /\ bufs = <<>> /\ pc = "idle"
    /\ Common

Buffers == [pos : {0}, last : 0..MaxSize, in_file : BOOLEAN]

\* The first node is part of the task; it may have no buffer (nothing was copied
\* into it).  set_bufs copies the in_file flag too.
InitReader ==
    /\ class = "reader"
    /\ bufs \in UNION {[1..k -> Buffers] : k \in 0..MaxBufs}
    /\ pc = "ready"
    /\ Common

Init == InitWriter \/ InitReader

-----------------------------------------------------------------------------
(* Next of the writers *)

\* CodedOutputStream is made for a message of k bytes.
Serialize(k) ==
    /\ class # "reader" /\ pc = "idle" /\ messages < MaxMessages
    /\ pc' = "writing" /\ n' = k
    /\ cells' = <<>>
    /\ messages' = messages + 1 /\ written' = written + k
    /\ UNCHANGED <<class, bufs, chain, totaly, extends, readerVars>>

\* CodedOutputStream::Refresh: once at the start, then when the room is used up.
Refreshes == pc = "writing" /\ (cells # <<>> => Len(cells) < n)

\* "need allocate new chain", or the first buffer of all.
Full(i) == bufs # <<>> => bufs[i].last = bufs[i].end

NewBuf(mark) ==
    LET size == DefaultSize * extends
    IN  [pos |-> 0, last |-> size, end |-> size, last_buf |-> mark]

\* "if skiped has called": the rest of a buffer, whose pos moves up to it.
Rest(bs, i) == [bs EXCEPT ![i].pos = bs[i].last, ![i].last = bs[i].end]

\* The client gets buffer i.
Hand(i) ==
    /\ totaly' = totaly + Len(Cells(bufs', i))
    /\ cells' = cells \o Cells(bufs', i)
    /\ UNCHANGED <<class, pc, n, messages, written, readerVars>>

\* Mutant of PoolNew: the stream does not move on to the new node.
PoolNewStays ==
    /\ class = "pool" /\ Refreshes /\ Full(chain)
    /\ bufs' = Append(bufs, NewBuf(FALSE))
    /\ extends' = extends + 1
    /\ Hand(Len(bufs'))
    /\ UNCHANGED chain

PoolNew ==
    /\ class = "pool" /\ Refreshes /\ Full(chain)
    /\ bufs' = Append(bufs, NewBuf(FALSE))
    /\ chain' = Len(bufs')
    /\ extends' = extends + 1
    /\ Hand(chain')

PoolRest ==
    /\ class = "pool" /\ Refreshes /\ ~Full(chain)
    /\ bufs' = Rest(bufs, chain)
    /\ Hand(chain)
    /\ UNCHANGED <<chain, extends>>

\* Mutant of Walked: the walk clears no mark.
WalkedOnly == bufs

\* The walk to the last node clears last_buf on the way, not on the last one.
Walked == [i \in 1..Len(bufs) |->
              IF i < Len(bufs) THEN [bufs[i] EXCEPT !.last_buf = FALSE] ELSE bufs[i]]

\* Here the member chain stays at the first node.
ShmNew ==
    /\ class = "shm" /\ Refreshes /\ Full(Len(bufs))
    /\ bufs' = Append(Walked, NewBuf(TRUE))
    /\ extends' = extends + 1
    /\ Hand(Len(bufs'))
    /\ UNCHANGED chain

ShmRest ==
    /\ class = "shm" /\ Refreshes /\ ~Full(Len(bufs))
    /\ bufs' = Rest(Walked, Len(bufs))
    /\ Hand(Len(bufs))
    /\ UNCHANGED <<chain, extends>>

-----------------------------------------------------------------------------
(* BackUp of the writers, called by CodedOutputStream::Trim when the message is written *)

Surplus == Len(cells) - n

Trims == pc = "writing" /\ ~Refreshes

\* Mutant of TakeBack: the wrong end of the buffer is moved.
TakeBackPos(count) ==
    /\ totaly' = totaly - count
    /\ bufs' = [bufs EXCEPT ![chain].pos = @ - count]
    /\ pc' = "idle"
    /\ UNCHANGED <<chain, extends>>

\* A failed assert ends the process.
TakeBack(count) ==
    /\ totaly' = totaly - count
    /\ bufs' = [bufs EXCEPT ![chain].last = @ - count]
    /\ pc' = IF bufs'[chain].last >= bufs'[chain].pos /\ totaly' >= 0
             THEN "idle" ELSE "aborted"
    /\ UNCHANGED <<chain, extends>>

Trimmed ==
    /\ cells' = SubSeq(cells, 1, n)
    /\ UNCHANGED <<class, n, messages, written, readerVars>>

PoolBackUp == class = "pool" /\ Trims /\ TakeBack(Surplus) /\ Trimmed

ShmBackUp == class = "shm" /\ Trims /\ TakeBack(Surplus) /\ Trimmed

-----------------------------------------------------------------------------
(* The reader *)

\* cur_buf && !cur_buf->in_file
Readable(i) == i \in DOMAIN bufs /\ ~bufs[i].in_file

Over(i) == bufs[i].pos = bufs[i].last

-----------------------------------------------------------------------------
(* Next of the reader *)

\* All that is left of buffer i.
Give(i) ==
    /\ chunk' = bufs[i].last - bufs[i].pos
    /\ from' = i
    /\ bufs' = [bufs EXCEPT ![i].pos = bufs[i].last]
    /\ cells' = cells \o Run(i, bufs[i].pos, chunk')
    /\ UNCHANGED <<class, chain, pc, astray, writerVars>>

\* The buffer of the node that chain points to.
NextHere ==
    /\ pc = "ready" /\ Readable(chain) /\ ~Over(chain)
    /\ Give(chain)

\* "cur is over": chain->next is looked at, but chain does not move.
LooksFurther ==
    /\ pc = "ready" /\ Readable(chain) /\ Over(chain)
    /\ chain < Len(bufs)

NextFurther ==
    /\ LooksFurther
    /\ Readable(chain + 1) /\ ~Over(chain + 1)
    /\ Give(chain + 1)

\* Mutant of AtEnd: the chain is not followed when its first buffer is over.
OverAtEnd == Readable(chain) => Over(chain)

\* No buffer or one in a file here, or the same in the next node, or no next.
AtEnd == Readable(chain) => Over(chain) /\ ~Readable(chain + 1)

NextFalse ==
    /\ pc = "ready" /\ AtEnd
    /\ pc' = "end"
    /\ UNCHANGED <<class, bufs, chain, cells, readerVars, writerVars>>

\* Mutant of Spins: the loop does not ask whether there is a next node.
SpinsWhenOver == pc = "ready" /\ Readable(chain) /\ Over(chain)

\* The second buffer is over as well: it is looked at again, for ever.
Spins == LooksFurther /\ Readable(chain + 1) /\ Over(chain + 1)

NextSpins ==
    /\ Spins
    /\ pc' = "spin"
    /\ UNCHANGED <<class, bufs, chain, cells, readerVars, writerVars>>

-----------------------------------------------------------------------------
(* BackUp and Skip of the reader *)

\* Always the buffer of chain, whichever the chunk came from.
ReaderBackUp(count) ==
    /\ pc = "ready"
    /\ bufs' = [bufs EXCEPT ![chain].pos = @ - count]
    /\ chunk' = 0
    /\ cells' = SubSeq(cells, 1, Len(cells) - count)
    /\ astray' = (astray \/ from # chain)
    /\ UNCHANGED <<class, chain, pc, from, writerVars>>

Left(i) == bufs[i].last - bufs[i].pos

\* Enough in the buffer of chain.
SkipHere(count) ==
    /\ pc = "ready" /\ Readable(chain) /\ Left(chain) >= count
    /\ bufs' = [bufs EXCEPT ![chain].pos = @ + count]
    /\ cells' = cells \o Run(chain, bufs[chain].pos, count)
    /\ chunk' = 0
    /\ UNCHANGED <<class, chain, pc, from, astray, writerVars>>

\* Nothing to read, or "move next": cur_buf becomes NULL when there is a next node, and
\* the loop ends; when there is none, chain->buf is read with chain NULL.
SkipFalse(count) ==
    /\ pc = "ready"
    /\ \/ /\ ~Readable(chain)
          /\ pc' = "failed" /\ UNCHANGED chain
       \/ /\ Readable(chain) /\ Left(chain) < count /\ chain < Len(bufs)
          /\ pc' = "failed" /\ chain' = chain + 1
       \/ /\ Readable(chain) /\ Left(chain) < count /\ chain = Len(bufs)
          /\ pc' = "crashed" /\ chain' = Null
    /\ chunk' = 0
    /\ UNCHANGED <<class, bufs, from, cells, astray, writerVars>>

Next ==
    \/ \E k \in 0..MaxBytes : Serialize(k)
    \/ PoolNew \/ PoolRest \/ PoolBackUp
    \/ ShmNew \/ ShmRest \/ ShmBackUp
    \/ NextHere \/ NextFurther \/ NextFalse \/ NextSpins
    \/ \E count \in 1..chunk : ReaderBackUp(count)
    \/ \E count \in 0..(MaxBufs * MaxSize) : SkipHere(count) \/ SkipFalse(count)

Spec == Init /\ [][Next]_vars

-----------------------------------------------------------------------------
(* The bytes of a chain *)

\* Byte a comes before byte b.
Before(a, b) == a[1] < b[1] \/ (a[1] = b[1] /\ a[2] < b[2])

InOrder(cs) == \A j, k \in DOMAIN cs : j < k => Before(cs[j], cs[k])

\* The sequence cs is all bytes of the set S, the first of them, or the last of
\* them: each once, in the order of the chain, without a gap.
IsAll(cs, S) == InOrder(cs) /\ Range(cs) = S

IsFirst(cs, S) ==
    /\ InOrder(cs) /\ Range(cs) \subseteq S
    /\ \A a \in S, b \in Range(cs) : Before(a, b) => a \in Range(cs)

IsLast(cs, S) ==
    /\ InOrder(cs) /\ Range(cs) \subseteq S
    /\ \A a \in Range(cs), b \in S : Before(a, b) => b \in Range(cs)

\* What is sent: the bytes between pos and last of each buffer.
Contents == UNION {{i} \X (bufs[i].pos..(bufs[i].last - 1)) : i \in DOMAIN bufs}

-----------------------------------------------------------------------------
(* Properties of the writers *)

\* The type invariant.  Every buffer of a writer has 0 <= pos <= last <= end unless
\* an assert of BackUp has just failed; pos of a buffer that is read stays
\* between the start and last as long as BackUp was only called for the buffer
\* that chain points to; chain is a node unless Skip ran over the end.
TypeOK ==
    /\ pc \in IF class = "reader" THEN {"ready", "end", "failed", "spin", "crashed"}
             ELSE {"idle", "writing", "aborted"}
    /\ chain \in IF pc = "crashed" THEN {Null} ELSE {1} \union DOMAIN bufs
    /\ totaly \in Nat /\ (class # "reader" => extends = Len(bufs) + 1)
    /\ \A i \in DOMAIN bufs :
         IF class = "reader"
         THEN bufs[i].pos <= bufs[i].last /\ (~astray => 0 <= bufs[i].pos)
         ELSE pc # "aborted" => /\ 0 <= bufs[i].pos /\ bufs[i].pos <= bufs[i].last
                                /\ bufs[i].last <= bufs[i].end

\* BackUp's assert(chain->buf->last >= chain->buf->pos) never fails: what the
\* client gives back is never more than the buffer it is taken from has.
AssertHolds == pc # "aborted"

\* When a message has been written the chain ends with exactly its bytes, in
\* order and without a gap, over as many buffers as Next had to make; the
\* first message is all there is.
Holds ==
    pc = "idle" => /\ IsLast(cells, Contents)
                   /\ messages = 1 => IsAll(cells, Contents)

\* The stream on an nginx pool never fails an assert of BackUp and holds every
\* message, however many buffers it needed; the shared-memory stream, whose
\* BackUp works on the first node, does as long as one buffer is enough.  In
\* every case ByteCount, which becomes res_length and the Content-Length, is
\* the number of bytes written.
WrittenRight ==
    /\ class = "pool" \/ (class = "shm" /\ Len(bufs) <= 1) => AssertHolds /\ Holds
    /\ pc = "idle" => totaly = written

\* Of the buffers of a shared chain the last one is marked last_buf, and of the others
\* only the last but one can be: each walk of Next misses exactly one.
MarksAtTheEnd ==
    class = "shm" =>
        \A i \in DOMAIN bufs : /\ i = Len(bufs) => bufs[i].last_buf
                               /\ i < Len(bufs) - 1 => ~bufs[i].last_buf

-----------------------------------------------------------------------------
(* Properties of the reader *)

\* What the client should see: the bytes of the buffers before the first one
\* that is in a file.
InMemory(i) == \A j \in 1..i : ~bufs[j].in_file

Stream == UNION {{i} \X (0..(bufs[i].last - 1)) : i \in {j \in DOMAIN bufs : InMemory(j)}}

\* The bytes come in the order of the chain, each once and none left out, for
\* any mixture of calls, on a chain of any length, as long as BackUp was only
\* called for the buffer that chain points to (always, on a chain of one).
\* When Next returns false nothing is left: a parser that takes false for the
\* end of the message never takes part of a message for all of it.
ReadInOrder ==
    class = "reader" /\ ~astray => /\ IsFirst(cells, Stream)
                                   /\ pc = "end" => IsAll(cells, Stream)

\* Next fails to return only on a chain of two or more buffers, after the bytes
\* of the first two; the one buffer of a small request is never a problem.
SpinsAfterTwo ==
    pc = "spin" => /\ Len(bufs) >= 2 /\ chain = 1
                   /\ Over(1) /\ Over(2)
                   /\ ~astray => cells = Run(1, 0, bufs[1].last) \o Run(2, 0, bufs[2].last)
=============================================================================
