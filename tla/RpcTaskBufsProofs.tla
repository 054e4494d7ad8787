------------------------- MODULE RpcTaskBufsProofs -------------------------
(***************************************************************************)
(* The memory of the calls, for any number of calls, a pool of any number  *)
(* of chunks of any size, and any order in which the pool hands them out.  *)
(***************************************************************************)
EXTENDS RpcTaskBufs, FiniteSetTheorems, TLAPS

Pcs == {"none", "begun", "queued", "answer", "forward", "sub", "stuck", "freed", "back",
        "hung", "finished", "closed", "crashed"}

Users == {Free} \cup [call : Calls, use : Uses]

CallRec ==
    [pc : Pcs, ctx : {Null} \cup Chunks, task : {Null} \cup Chunks,
     req : Seq(Buffer), res : Seq(Buffer), resLength : Nat,
     late : SUBSET {"forward", "finish"},
     sub : [left : Nat, length : Nat, on : BOOLEAN], node : {Null} \cup Chunks,
     dropped : Seq(Buffer), lost : SUBSET Chunks]

\* The first node of a chain is a field of the task, not a chunk.
Headed(bs) == Len(bs) > 0 => bs[1].node = Null

\* What a call has at each place of its way.
Way(k) ==
    /\ k.pc = "none" => k.ctx = Null
    /\ k.pc \in {"none", "begun"} => k.task = Null /\ k.req = <<>>
    /\ k.pc \in {"none", "begun", "queued"} =>
          k.res = <<>> /\ k.late = {}
    /\ k.pc \in {"none", "begun", "queued", "forward", "sub"} => k.lost = {}
    /\ k.pc \in {"none", "begun", "queued", "forward", "sub", "freed", "back"} => k.dropped = <<>>
    /\ k.pc = "freed" => k.req = <<>>
    /\ k.pc = "begun" => k.ctx # Null
    /\ k.pc \in {"queued", "forward", "sub", "stuck", "freed", "back", "answer", "hung"} => k.task # Null
    /\ k.task # Null => k.ctx # Null
    /\ k.task = Null => k.req = <<>> /\ k.res = <<>>
    /\ "forward" \in k.late => k.pc \in {"forward", "sub", "stuck", "freed", "back", "crashed"}
    /\ "forward" \in k.late => k.task # Null
    /\ Headed(k.req) /\ Headed(k.res) /\ Headed(k.dropped)

\* How far its request has been read.
Parsed(k) ==
    /\ \A b \in Range(k.req) : b.pos \in {0, b.len}
    /\ k.pc = "queued" => Len(k.req) <= 2 /\ \A b \in Range(k.req) : b.pos = 0
    /\ k.pc \in {"forward", "sub"} => \A i \in DOMAIN k.req : k.req[i].pos > 0 => i = 1
    /\ k.pc = "forward" /\ (\A b \in Range(k.req) : ~b.file) => \A b \in Range(k.req) : b.pos = b.len
    /\ k.sub.on => k.pc \in {"sub", "stuck"}
    /\ k.sub.on /\ (\A b \in Range(k.req) : ~b.file) => k.sub.left = 0

Has(h, c, use) == {x \in Chunks : h[x] = [call |-> c, use |-> use]}

\* The chunks of a call, each of them once.
Exact(h, c, k) ==
    /\ Has(h, c, "ctx") = {k.ctx} \ {Null} /\ Has(h, c, "task") = {k.task} \ {Null}
    /\ Has(h, c, "data") = Data(k.req) \cup Data(k.res) \cup Data(k.dropped) \cup k.lost
    /\ Has(h, c, "buf") = Bufs(k.req) \cup Bufs(k.res) \cup Bufs(k.dropped)
    /\ Has(h, c, "node") = Nodes(k.req) \cup Nodes(k.res) \cup Nodes(k.dropped)

Apart(k) ==
    /\ Data(k.req) \cap Data(k.res) = {} /\ Data(k.req) \cap Data(k.dropped) = {}
    /\ Data(k.res) \cap Data(k.dropped) = {}
    /\ (Data(k.req) \cup Data(k.res) \cup Data(k.dropped)) \cap k.lost = {}
    /\ Bufs(k.req) \cap Bufs(k.res) = {} /\ Bufs(k.req) \cap Bufs(k.dropped) = {}
    /\ Bufs(k.res) \cap Bufs(k.dropped) = {}
    /\ Nodes(k.req) \cap Nodes(k.res) = {} /\ Nodes(k.req) \cap Nodes(k.dropped) = {}
    /\ Nodes(k.res) \cap Nodes(k.dropped) = {}
    /\ \A i, j \in DOMAIN k.req : i # j => k.req[i].data # k.req[j].data

Leaves(h, c, k) ==
    /\ Has(h, c, "task") = {} /\ Has(h, c, "ctx") = {}
    /\ Has(h, c, "data") = Data(k.dropped) \cup k.lost
    /\ Has(h, c, "buf") = Bufs(k.req) \cup Bufs(k.res) \cup Bufs(k.dropped)
    /\ Has(h, c, "node") = Nodes(k.req) \cup Nodes(k.res) \cup Nodes(k.dropped)

Memory(h, c, k) ==
    /\ k.pc \notin {"closed", "crashed"} => Exact(h, c, k) /\ Apart(k)
    /\ k.pc = "closed" => Leaves(h, c, k)
    /\ k.pc = "crashed" /\ k.task # Null => k.task \in Has(h, c, "task")
    /\ k.pc = "freed" => \A u \in Uses : k.node \notin Has(h, c, u)

BufsInv ==
    /\ heap \in [Chunks -> Users] /\ call \in [Calls -> CallRec] /\ wrong \in BOOLEAN
    /\ \A c \in Calls : Way(call[c]) /\ Parsed(call[c])
    /\ ~wrong => \A c \in Calls : Memory(heap, c, call[c])

-----------------------------------------------------------------------------
(* Addresses *)

\* An address inside a chunk or just behind it is the beginning of a chunk only at
\* its two ends.
LEMMA AddressFacts ==
    ASSUME NEW d \in Nat, NEW k \in Nat, NEW p \in 0 .. Cap
    PROVE  k * Cap = d * Cap + p => (p = 0 /\ k = d) \/ (p = Cap /\ k = d + 1)
<1>1. Cap \in Nat /\ Cap > 0
  BY BufsAssumption
<1>2. PICK m \in Int : m = k - d
  OBVIOUS
<1>3. k * Cap - d * Cap = m * Cap
  BY <1>1, <1>2
<1>4. k * Cap \in Nat /\ d * Cap \in Nat /\ m * Cap \in Int
  BY <1>1
<1>5. m >= 2 => m * Cap > Cap
  BY <1>1
<1>6. m < 0 => m * Cap < 0
  BY <1>1
<1>7. ASSUME k * Cap = d * Cap + p PROVE m * Cap = p
  BY <1>1, <1>3, <1>4, <1>7
<1>8. (m = 0 => m * Cap = 0) /\ (m = 1 => m * Cap = Cap)
  BY <1>1
<1>9. ASSUME m * Cap = p PROVE m \in {0, 1}
  BY <1>1, <1>4, <1>5, <1>6, <1>9
<1> QED BY <1>1, <1>2, <1>7, <1>8, <1>9

LEMMA ChunkFacts ==
    ASSUME NEW x \in Chunks
    PROVE  x \in Nat /\ x # Null
  BY BufsAssumption DEF Chunks, Null

LEMMA ChunkAddress ==
    ASSUME NEW d \in Nat, NEW k \in Nat, k * Cap = d * Cap
    PROVE  k = d
<1>1. Cap \in Nat /\ Cap > 0 /\ 0 \in 0 .. Cap
  BY BufsAssumption
<1>2. d * Cap \in Int
  BY <1>1
<1>3. k * Cap = d * Cap + 0
  BY <1>2
<1> QED BY <1>1, <1>3, AddressFacts

-----------------------------------------------------------------------------
(* ngx_slab_alloc *)

\* A step of c changes only chunks that are free or its own.
Touches(h, g, c) ==
    \A x \in Chunks : g[x] = h[x] \/ /\ h[x] = Free \/ h[x].call = c
                                     /\ g[x] = Free \/ g[x].call = c

LEMMA FreeSeqFacts ==
    ASSUME NEW h \in [Chunks -> Users]
    PROVE  /\ FreeSeq(h) \in Seq(Chunks)
           /\ \A i \in DOMAIN FreeSeq(h) : h[FreeSeq(h)[i]] = Free
           /\ \A i, j \in DOMAIN FreeSeq(h) : i # j => FreeSeq(h)[i] # FreeSeq(h)[j]
<1>1. PICK F \in SUBSET Chunks : F = {k \in Chunks : h[k] = Free}
  OBVIOUS
<1>2. PICK f : f = Slab(F)
  OBVIOUS
<1>3. f \in Seq(Chunks) /\ Range(f) = F /\ \A i, j \in DOMAIN f : i # j => f[i] # f[j]
  BY <1>2, SlabAssumption
<1>4. \A i \in DOMAIN f : f[i] \in F
  BY <1>3 DEF Range
<1> QED BY <1>1, <1>2, <1>3, <1>4 DEF FreeSeq

\* The heap g is h after the allocations of uses from the free chunks f.
Allocated(h, c, uses, f, g) ==
    /\ g \in [Chunks -> Users]
    /\ \A i \in DOMAIN f : i <= Len(uses) => g[f[i]] = [call |-> c, use |-> uses[i]]
    /\ \A x \in Chunks : g[x] = h[x] \/ \E i \in DOMAIN f : i <= Len(uses) /\ x = f[i]

LEMMA AllocFacts ==
    ASSUME NEW h \in [Chunks -> Users], NEW c \in Calls, NEW uses \in Seq(Uses)
    PROVE  Allocated(h, c, uses, FreeSeq(h), Alloc(h, c, uses))
<1>a. PICK f : f = FreeSeq(h)
  OBVIOUS
<1>b. PICK g : g = Alloc(h, c, uses)
  OBVIOUS
<1>1. f \in Seq(Chunks) /\ \A i, j \in DOMAIN f : i # j => f[i] # f[j]
  BY <1>a, FreeSeqFacts
<1>2. g = [k \in Chunks |->
              IF \E i \in DOMAIN f : f[i] = k /\ i <= Len(uses)
              THEN [call |-> c, use |-> uses[CHOOSE i \in DOMAIN f : f[i] = k]]
              ELSE h[k]]
  BY <1>a, <1>b DEF Alloc
<1>3. ASSUME NEW i \in DOMAIN f, i <= Len(uses)
      PROVE  /\ f[i] \in Chunks /\ uses[i] \in Uses
             /\ g[f[i]] = [call |-> c, use |-> uses[i]]
  <2>1. f[i] \in Chunks /\ i \in 1 .. Len(uses)
    BY <1>1, <1>3
  <2>2. (CHOOSE j \in DOMAIN f : f[j] = f[i]) = i
    BY <1>1
  <2>3. g[f[i]] = [call |-> c, use |-> uses[CHOOSE j \in DOMAIN f : f[j] = f[i]]]
    BY <1>2, <1>3, <2>1
  <2>4. g[f[i]] = [call |-> c, use |-> uses[i]]
    BY <2>2, <2>3, Zenon
  <2>5. uses[i] \in Uses
    BY <2>1
  <2> QED BY <2>1, <2>4, <2>5
<1>4. ASSUME NEW x \in Chunks PROVE g[x] = h[x] \/ \E i \in DOMAIN f : i <= Len(uses) /\ x = f[i]
  BY <1>2
<1>5. ASSUME NEW x \in Chunks PROVE g[x] \in Users
  <2>1. CASE g[x] = h[x]
    BY <2>1
  <2>2. CASE \E i \in DOMAIN f : i <= Len(uses) /\ x = f[i]
    <3>1. PICK i \in DOMAIN f : i <= Len(uses) /\ x = f[i]
      BY <2>2
    <3>2. uses[i] \in Uses /\ g[x] = [call |-> c, use |-> uses[i]]
      BY <1>3, <3>1, Zenon
    <3> QED BY <3>2 DEF Users
  <2> QED BY <1>4, <2>1, <2>2
<1>6. g \in [Chunks -> Users]
  BY <1>2, <1>5
<1>7. Allocated(h, c, uses, f, g)
  BY <1>3, <1>4, <1>6 DEF Allocated
<1> QED BY <1>a, <1>b, <1>7

LEMMA AllocTouches ==
    ASSUME NEW h \in [Chunks -> Users], NEW c \in Calls, NEW uses \in Seq(Uses),
           NEW g, g = Alloc(h, c, uses)
    PROVE  /\ g \in [Chunks -> Users] /\ Touches(h, g, c)
           /\ \A x \in Chunks : h[x] # Free => g[x] = h[x]
<1>1. PICK f : f = FreeSeq(h)
  OBVIOUS
<1>1a. Allocated(h, c, uses, f, g)
  BY <1>1, AllocFacts
<1>2. /\ g \in [Chunks -> Users]
      /\ \A i \in DOMAIN f : i <= Len(uses) => g[f[i]] = [call |-> c, use |-> uses[i]]
      /\ \A x \in Chunks : g[x] = h[x] \/ \E i \in DOMAIN f : i <= Len(uses) /\ x = f[i]
  BY <1>1a DEF Allocated
<1>3. \A i \in DOMAIN f : h[f[i]] = Free
  BY <1>1, FreeSeqFacts
<1>4. ASSUME NEW x \in Chunks, g[x] # h[x] PROVE h[x] = Free /\ g[x].call = c
  <2>1. PICK i \in DOMAIN f : i <= Len(uses) /\ x = f[i]
    BY <1>2, <1>4
  <2>2. h[x] = Free /\ g[x] = [call |-> c, use |-> uses[i]]
    BY <1>2, <1>3, <2>1, Zenon
  <2> QED BY <2>2
<1> QED BY <1>2, <1>4 DEF Touches

LEMMA HasKept ==
    ASSUME NEW h, NEW g, NEW c, Touches(h, g, c), NEW d, d # c, NEW use \in Uses
    PROVE  Has(g, d, use) = Has(h, d, use)
<1>1. use # "free"
  BY DEF Uses
<1>2. [call |-> d, use |-> use] # Free /\ [call |-> d, use |-> use].call # c
  BY <1>1 DEF Free
<1>3. \A x \in Chunks : g[x] = [call |-> d, use |-> use] <=> h[x] = [call |-> d, use |-> use]
  BY <1>2 DEF Touches
<1> QED BY <1>3 DEF Has

LEMMA MemoryKept ==
    ASSUME NEW h, NEW g, NEW c, Touches(h, g, c), NEW d, d # c, NEW k, Memory(h, d, k)
    PROVE  Memory(g, d, k)
<1>1. "ctx" \in Uses /\ "task" \in Uses /\ "data" \in Uses /\ "buf" \in Uses /\ "node" \in Uses
  BY DEF Uses
<1>2. /\ Has(g, d, "ctx") = Has(h, d, "ctx") /\ Has(g, d, "task") = Has(h, d, "task")
      /\ Has(g, d, "data") = Has(h, d, "data") /\ Has(g, d, "buf") = Has(h, d, "buf")
      /\ Has(g, d, "node") = Has(h, d, "node")
  BY <1>1, HasKept
<1>3. \A u \in Uses : Has(g, d, u) = Has(h, d, u)
  BY HasKept
<1> QED BY <1>2, <1>3 DEF Memory, Exact, Leaves

\* What a chain of n buffers is made of, after o other chunks.
Wanted(uses, o, n) ==
    /\ uses \in Seq(Uses) /\ Len(uses) = IF n = 0 THEN o ELSE o + 3 * n - 1
    /\ \A i \in 1 .. o : uses[i] = "task"
    /\ \A m \in 1 .. n : /\ uses[o + (3 * m - 2)] = "buf" /\ uses[o + (3 * m - 1)] = "data"
                         /\ m > 1 => uses[o + (3 * m - 3)] = "node"
    /\ \A i \in 1 .. Len(uses) :
          \/ i <= o
          \/ \E m \in 1 .. n : \/ i = o + (3 * m - 2) \/ i = o + (3 * m - 1)
                               \/ m > 1 /\ i = o + (3 * m - 3)

LEMMA ModFacts ==
    ASSUME NEW m \in Int
    PROVE  (3 * m - 2) % 3 = 1 /\ (3 * m - 1) % 3 = 2 /\ (3 * m - 3) % 3 = 0
  OBVIOUS

LEMMA DivFacts ==
    ASSUME NEW j \in Nat, j >= 1
    PROVE  \E m \in Nat : m >= 1 /\ (j = 3 * m - 2 \/ j = 3 * m - 1 \/ (j = 3 * m - 3 /\ m > 1))
<1>1. PICK q \in Int : q = j \div 3
  OBVIOUS
<1>2. j = 3 * q \/ j = 3 * q + 1 \/ j = 3 * q + 2
  BY <1>1
<1>3. PICK m \in Int : m = q + 1
  OBVIOUS
<1>4. m \in Nat /\ m >= 1 /\ (j = 3 * m - 2 \/ j = 3 * m - 1 \/ (j = 3 * m - 3 /\ m > 1))
  BY <1>2, <1>3
<1> QED BY <1>4

LEMMA ChainWanted ==
    ASSUME NEW n \in Nat
    PROVE  Wanted(ChainUses(n), 0, n)
<1>1. PICK u : u = ChainUses(n)
  OBVIOUS
<1>2. DOMAIN u = 1 .. 3 * n - 1
  BY <1>1 DEF ChainUses
<1>3. \A j \in 1 .. 3 * n - 1 : /\ j % 3 = 1 => u[j] = "buf"
                                /\ j % 3 = 2 => u[j] = "data"
                                /\ j % 3 = 0 => u[j] = "node"
  BY <1>1 DEF ChainUses
<1>4. \A j \in 1 .. 3 * n - 1 : j % 3 = 0 \/ j % 3 = 1 \/ j % 3 = 2
  OBVIOUS
<1>5. \A j \in 1 .. 3 * n - 1 : u[j] \in Uses
  BY <1>3, <1>4 DEF Uses
<1>6. PICK z \in Nat : z = (IF n = 0 THEN 0 ELSE 3 * n - 1) /\ 1 .. 3 * n - 1 = 1 .. z
  <2>1. CASE n = 0
    BY <2>1
  <2>2. CASE n # 0
    BY <2>2
  <2> QED BY <2>1, <2>2
<1>7. u \in Seq(Uses) /\ Len(u) = z
  <2>1. u = [j \in 1 .. z |-> u[j]]
    BY <1>1, <1>6 DEF ChainUses
  <2>2. u \in [1 .. z -> Uses]
    BY <1>5, <1>6, <2>1
  <2> QED BY <2>2
<1>8. ASSUME NEW m \in 1 .. n
      PROVE  /\ u[0 + (3 * m - 2)] = "buf" /\ u[0 + (3 * m - 1)] = "data"
             /\ m > 1 => u[0 + (3 * m - 3)] = "node"
  <2>1. /\ 3 * m - 2 \in 1 .. 3 * n - 1 /\ 3 * m - 1 \in 1 .. 3 * n - 1
        /\ m > 1 => 3 * m - 3 \in 1 .. 3 * n - 1
    OBVIOUS
  <2>2. (3 * m - 2) % 3 = 1 /\ (3 * m - 1) % 3 = 2 /\ (3 * m - 3) % 3 = 0
    BY ModFacts
  <2>3. u[3 * m - 2] = "buf" /\ u[3 * m - 1] = "data" /\ (m > 1 => u[3 * m - 3] = "node")
    BY <1>3, <2>1, <2>2
  <2> QED BY <2>3
<1>9. ASSUME NEW i \in 1 .. Len(u)
      PROVE  \E m \in 1 .. n : \/ i = 0 + (3 * m - 2) \/ i = 0 + (3 * m - 1)
                               \/ m > 1 /\ i = 0 + (3 * m - 3)
  <2>1. i \in Nat /\ i >= 1 /\ i <= 3 * n - 1
    BY <1>6, <1>7
  <2>2. PICK m \in Nat : m >= 1 /\ (i = 3 * m - 2 \/ i = 3 * m - 1 \/ (i = 3 * m - 3 /\ m > 1))
    BY <2>1, DivFacts
  <2>3. m \in 1 .. n
    BY <2>1, <2>2
  <2> QED BY <2>2, <2>3
<1>10. Len(u) = IF n = 0 THEN 0 ELSE 0 + 3 * n - 1
  BY <1>6, <1>7
<1>11. \A i \in 1 .. 0 : u[i] = "task"
  OBVIOUS
<1>12. Wanted(u, 0, n)
  BY <1>7, <1>8, <1>9, <1>10, <1>11, Zenon DEF Wanted
<1> QED BY <1>1, <1>12

LEMMA TaskWanted ==
    ASSUME NEW n \in Nat
    PROVE  Wanted(<<"task">> \o ChainUses(n), 1, n)
<1>1. PICK u : u = ChainUses(n)
  OBVIOUS
<1>2. Wanted(u, 0, n)
  BY <1>1, ChainWanted
<1>3. u \in Seq(Uses) /\ Len(u) \in Nat /\ Len(u) = (IF n = 0 THEN 0 ELSE 0 + 3 * n - 1)
  BY <1>2 DEF Wanted
<1>4. <<"task">> \in Seq(Uses) /\ Len(<<"task">>) = 1
  BY DEF Uses
<1>5. PICK v : v = <<"task">> \o u
  OBVIOUS
<1>6. /\ v \in Seq(Uses) /\ Len(v) = 1 + Len(u) /\ v[1] = "task"
      /\ \A j \in 1 .. Len(u) : v[1 + j] = u[j]
  BY <1>3, <1>4, <1>5
<1>7. ASSUME NEW m \in 1 .. n
      PROVE  /\ v[1 + (3 * m - 2)] = "buf" /\ v[1 + (3 * m - 1)] = "data"
             /\ m > 1 => v[1 + (3 * m - 3)] = "node"
  <2>1. u[3 * m - 2] = "buf" /\ u[3 * m - 1] = "data" /\ (m > 1 => u[3 * m - 3] = "node")
    <3>1. /\ u[0 + (3 * m - 2)] = "buf" /\ u[0 + (3 * m - 1)] = "data"
          /\ m > 1 => u[0 + (3 * m - 3)] = "node"
      BY <1>2 DEF Wanted
    <3>2. 0 + (3 * m - 2) = 3 * m - 2 /\ 0 + (3 * m - 1) = 3 * m - 1 /\ 0 + (3 * m - 3) = 3 * m - 3
      OBVIOUS
    <3> QED BY <3>1, <3>2
  <2>2. /\ 3 * m - 2 \in 1 .. Len(u) /\ 3 * m - 1 \in 1 .. Len(u)
        /\ m > 1 => 3 * m - 3 \in 1 .. Len(u)
    BY <1>3
  <2> QED BY <1>6, <2>1, <2>2
<1>8. ASSUME NEW i \in 1 .. Len(v), ~(i <= 1)
      PROVE  \E m \in 1 .. n : \/ i = 1 + (3 * m - 2) \/ i = 1 + (3 * m - 1)
                               \/ m > 1 /\ i = 1 + (3 * m - 3)
  <2>1. PICK j \in 1 .. Len(u) : i = 1 + j
    <3>1. i - 1 \in 1 .. Len(u) /\ i = 1 + (i - 1)
      BY <1>3, <1>6, <1>8
    <3> QED BY <3>1
  <2>2. ~(j <= 0)
    OBVIOUS
  <2>3. PICK m \in 1 .. n : \/ j = 0 + (3 * m - 2) \/ j = 0 + (3 * m - 1)
                            \/ m > 1 /\ j = 0 + (3 * m - 3)
    BY <1>2, <2>2 DEF Wanted
  <2> QED BY <2>1, <2>3
<1>9. \A i \in 1 .. 1 : v[i] = "task"
  BY <1>6
<1>10. Len(v) = IF n = 0 THEN 1 ELSE 1 + 3 * n - 1
  BY <1>3, <1>6
<1>11. Wanted(v, 1, n)
  BY <1>6, <1>7, <1>8, <1>9, <1>10 DEF Wanted
<1> QED BY <1>1, <1>5, <1>11

-----------------------------------------------------------------------------
(* Chains *)

GivenTo(f, uses, u) == {f[i] : i \in {j \in 1 .. Len(uses) : uses[j] = u}}

\* An allocation gives a call the chunks it took, and these were not its own before.
LEMMA AllocHas ==
    ASSUME NEW h \in [Chunks -> Users], NEW c \in Calls, NEW uses \in Seq(Uses),
           Enough(h, uses), NEW u \in Uses
    PROVE  /\ Has(Alloc(h, c, uses), c, u) = Has(h, c, u) \cup GivenTo(FreeSeq(h), uses, u)
           /\ Has(h, c, u) \cap GivenTo(FreeSeq(h), uses, u) = {}
           /\ GivenTo(FreeSeq(h), uses, u) \subseteq Chunks
<1>1. PICK f : f = FreeSeq(h)
  OBVIOUS
<1>2. PICK g : g = Alloc(h, c, uses)
  OBVIOUS
<1>3. Allocated(h, c, uses, f, g)
  BY <1>1, <1>2, AllocFacts
<1>4. f \in Seq(Chunks) /\ \A i \in DOMAIN f : h[f[i]] = Free
  BY <1>1, FreeSeqFacts
<1>5. Len(uses) <= Len(f) /\ Len(uses) \in Nat /\ Len(f) \in Nat /\ DOMAIN f = 1 .. Len(f)
  BY <1>1, <1>4 DEF Enough
<1>6. \A i \in 1 .. Len(uses) : i \in DOMAIN f /\ i <= Len(uses) /\ f[i] \in Chunks
  BY <1>4, <1>5
<1>7. [call |-> c, use |-> u] # Free
  BY DEF Uses, Free
<1>8. ASSUME NEW x \in Has(g, c, u) PROVE x \in Has(h, c, u) \cup GivenTo(f, uses, u)
  <2>1. x \in Chunks /\ g[x] = [call |-> c, use |-> u]
    BY DEF Has
  <2>2. CASE g[x] = h[x]
    BY <2>1, <2>2 DEF Has
  <2>3. CASE \E i \in DOMAIN f : i <= Len(uses) /\ x = f[i]
    <3>1. PICK i \in DOMAIN f : i <= Len(uses) /\ x = f[i]
      BY <2>3
    <3>2. i \in 1 .. Len(uses)
      BY <1>5, <3>1
    <3>3. g[x] = [call |-> c, use |-> uses[i]]
      BY <1>3, <3>1, Zenon DEF Allocated
    <3>4. uses[i] = u
      BY <2>1, <3>3
    <3> QED BY <3>1, <3>2, <3>4 DEF GivenTo
  <2> QED BY <1>3, <2>1, <2>2, <2>3 DEF Allocated
<1>9. ASSUME NEW x \in Has(h, c, u) PROVE x \in Has(g, c, u) /\ h[x] # Free
  <2>1. x \in Chunks /\ h[x] = [call |-> c, use |-> u] /\ h[x] # Free
    BY <1>7 DEF Has
  <2>2. g[x] = h[x]
    BY <1>2, <2>1, AllocTouches
  <2> QED BY <2>1, <2>2 DEF Has
<1>10. ASSUME NEW x \in GivenTo(f, uses, u) PROVE x \in Has(g, c, u) /\ h[x] = Free /\ x \in Chunks
  <2>1. PICK i \in 1 .. Len(uses) : uses[i] = u /\ x = f[i]
    BY DEF GivenTo
  <2>2. i \in DOMAIN f /\ i <= Len(uses) /\ x \in Chunks
    BY <1>6, <2>1
  <2>3. g[f[i]] = [call |-> c, use |-> uses[i]]
    BY <1>3, <2>2, Zenon DEF Allocated
  <2> QED BY <1>4, <2>1, <2>2, <2>3 DEF Has
<1>11. /\ Has(g, c, u) = Has(h, c, u) \cup GivenTo(f, uses, u)
       /\ Has(h, c, u) \cap GivenTo(f, uses, u) = {} /\ GivenTo(f, uses, u) \subseteq Chunks
  BY <1>8, <1>9, <1>10
<1> QED BY <1>1, <1>2, <1>11

\* A chain of n buffers that is made of the chunks of f after the first o.
ChainAt(bs, f, o, n) ==
    /\ bs \in Seq(Buffer) /\ Len(bs) = n
    /\ \A m \in 1 .. n : /\ bs[m].buf = f[o + (3 * m - 2)] /\ bs[m].data = f[o + (3 * m - 1)]
                         /\ m > 1 => bs[m].node = f[o + (3 * m - 3)]
                         /\ m = 1 => bs[m].node = Null
                         /\ bs[m].pos = 0

LEMMA RangeFacts ==
    ASSUME NEW S, NEW s \in Seq(S)
    PROVE  /\ Range(s) = {s[i] : i \in 1 .. Len(s)} /\ Range(s) \subseteq S
           /\ DOMAIN s = 1 .. Len(s) /\ Len(s) \in Nat
  BY DEF Range

\* The chunks of a chain of length n by their places.
LEMMA MembersFacts ==
    ASSUME NEW bs \in Seq(Buffer)
    PROVE  /\ Data(bs) = {bs[m].data : m \in 1 .. Len(bs)}
           /\ Bufs(bs) = {bs[m].buf : m \in 1 .. Len(bs)}
           /\ Nodes(bs) = {bs[m].node : m \in 1 .. Len(bs)} \ {Null}
           /\ Data(bs) \subseteq Chunks /\ Bufs(bs) \subseteq Chunks /\ Nodes(bs) \subseteq Chunks
<1>1. Range(bs) = {bs[i] : i \in 1 .. Len(bs)} /\ Range(bs) \subseteq Buffer
  BY RangeFacts
<1>2. \A b \in Range(bs) : b.data \in Chunks /\ b.buf \in Chunks /\ b.node \in {Null} \cup Chunks
  BY <1>1 DEF Buffer
<1> QED BY <1>1, <1>2 DEF Data, Bufs, Nodes

\* Every chain that is made has its head in the task.
LEMMA ChainHeaded ==
    ASSUME NEW bs, NEW f, NEW o, NEW n \in Nat, ChainAt(bs, f, o, n)
    PROVE  Headed(bs)
  BY DEF ChainAt, Headed

LEMMA EmptyFacts ==
    /\ Data(<<>>) = {} /\ Bufs(<<>>) = {} /\ Nodes(<<>>) = {} /\ Range(<<>>) = {}
    /\ <<>> \in Seq(Buffer) /\ DOMAIN <<>> = {} /\ Headed(<<>>)
  BY DEF Data, Bufs, Nodes, Range, Headed

\* The chunks that a chain's allocations gave are those that the chain names.
LEMMA ChainGiven ==
    ASSUME NEW f, NEW uses, NEW o \in {0, 1}, NEW n \in Nat, NEW bs,
           Wanted(uses, o, n), ChainAt(bs, f, o, n), f \in Seq(Chunks), Len(uses) <= Len(f)
    PROVE  /\ GivenTo(f, uses, "data") = Data(bs) /\ GivenTo(f, uses, "buf") = Bufs(bs)
           /\ GivenTo(f, uses, "node") = Nodes(bs) /\ GivenTo(f, uses, "ctx") = {}
           /\ GivenTo(f, uses, "task") = IF o = 1 THEN {f[1]} ELSE {}
<1>1. /\ bs \in Seq(Buffer) /\ Len(bs) = n
      /\ \A m \in 1 .. n : /\ bs[m].buf = f[o + (3 * m - 2)] /\ bs[m].data = f[o + (3 * m - 1)]
                           /\ m > 1 => bs[m].node = f[o + (3 * m - 3)]
                           /\ m = 1 => bs[m].node = Null
  BY DEF ChainAt
<1>2. /\ Data(bs) = {bs[m].data : m \in 1 .. n} /\ Bufs(bs) = {bs[m].buf : m \in 1 .. n}
      /\ Nodes(bs) = {bs[m].node : m \in 1 .. n} \ {Null}
  BY <1>1, MembersFacts
<1>3. uses \in Seq(Uses) /\ Len(uses) \in Nat /\ Len(uses) = IF n = 0 THEN o ELSE o + 3 * n - 1
  BY DEF Wanted
<1>4. \A m \in 1 .. n : /\ o + (3 * m - 2) \in 1 .. Len(uses) /\ o + (3 * m - 1) \in 1 .. Len(uses)
                        /\ m > 1 => o + (3 * m - 3) \in 1 .. Len(uses)
  BY <1>3
<1>5. \A m \in 1 .. n : /\ uses[o + (3 * m - 2)] = "buf" /\ uses[o + (3 * m - 1)] = "data"
                        /\ m > 1 => uses[o + (3 * m - 3)] = "node"
  BY DEF Wanted
<1>6. ASSUME NEW i \in 1 .. Len(uses)
      PROVE  \/ i <= o /\ uses[i] = "task"
             \/ \E m \in 1 .. n : \/ i = o + (3 * m - 2) /\ uses[i] = "buf"
                                  \/ i = o + (3 * m - 1) /\ uses[i] = "data"
                                  \/ m > 1 /\ i = o + (3 * m - 3) /\ uses[i] = "node"
  <2>1. CASE i <= o
    <3>1. i \in 1 .. o
      BY <1>3, <2>1
    <3> QED BY <2>1, <3>1 DEF Wanted
  <2>2. CASE ~(i <= o)
    <3>1. PICK m \in 1 .. n : \/ i = o + (3 * m - 2) \/ i = o + (3 * m - 1)
                              \/ m > 1 /\ i = o + (3 * m - 3)
      BY <2>2 DEF Wanted
    <3> QED BY <1>5, <3>1, Zenon
  <2> QED BY <2>1, <2>2
<1>7. GivenTo(f, uses, "data") = Data(bs)
  <2>1. ASSUME NEW x \in GivenTo(f, uses, "data") PROVE x \in Data(bs)
    <3>1. PICK i \in 1 .. Len(uses) : uses[i] = "data" /\ x = f[i]
      BY DEF GivenTo
    <3>2. PICK m \in 1 .. n : i = o + (3 * m - 1)
      BY <1>6, <3>1
    <3>3. x = bs[m].data
      BY <1>1, <3>1, <3>2, Zenon
    <3> QED BY <1>2, <3>3
  <2>2. ASSUME NEW x \in Data(bs) PROVE x \in GivenTo(f, uses, "data")
    <3>1. PICK m \in 1 .. n : x = bs[m].data
      BY <1>2
    <3>2. PICK i \in 1 .. Len(uses) : i = o + (3 * m - 1)
      BY <1>4
    <3>3. x = f[i] /\ uses[i] = "data"
      BY <1>1, <1>5, <3>1, <3>2, Zenon
    <3> QED BY <3>3 DEF GivenTo
  <2> QED BY <2>1, <2>2
<1>8. GivenTo(f, uses, "buf") = Bufs(bs)
  <2>1. ASSUME NEW x \in GivenTo(f, uses, "buf") PROVE x \in Bufs(bs)
    <3>1. PICK i \in 1 .. Len(uses) : uses[i] = "buf" /\ x = f[i]
      BY DEF GivenTo
    <3>2. PICK m \in 1 .. n : i = o + (3 * m - 2)
      BY <1>6, <3>1
    <3>3. x = bs[m].buf
      BY <1>1, <3>1, <3>2, Zenon
    <3> QED BY <1>2, <3>3
  <2>2. ASSUME NEW x \in Bufs(bs) PROVE x \in GivenTo(f, uses, "buf")
    <3>1. PICK m \in 1 .. n : x = bs[m].buf
      BY <1>2
    <3>2. PICK i \in 1 .. Len(uses) : i = o + (3 * m - 2)
      BY <1>4
    <3>3. x = f[i] /\ uses[i] = "buf"
      BY <1>1, <1>5, <3>1, <3>2, Zenon
    <3> QED BY <3>3 DEF GivenTo
  <2> QED BY <2>1, <2>2
<1>9. GivenTo(f, uses, "node") = Nodes(bs)
  <2>1. ASSUME NEW x \in GivenTo(f, uses, "node") PROVE x \in Nodes(bs)
    <3>1. PICK i \in 1 .. Len(uses) : uses[i] = "node" /\ x = f[i]
      BY DEF GivenTo
    <3>2. PICK m \in 1 .. n : m > 1 /\ i = o + (3 * m - 3)
      BY <1>6, <3>1
    <3>3. x = bs[m].node
      BY <1>1, <3>1, <3>2, Zenon
    <3>4. i \in DOMAIN f
      BY <1>3
    <3>5. x \in Chunks
      BY <3>1, <3>4
    <3>6. x # Null
      BY <3>5, ChunkFacts
    <3> QED BY <1>2, <3>3, <3>6
  <2>2. ASSUME NEW x \in Nodes(bs) PROVE x \in GivenTo(f, uses, "node")
    <3>1. PICK m \in 1 .. n : x = bs[m].node /\ x # Null
      BY <1>2
    <3>2. m > 1
      BY <1>1, <3>1
    <3>3. PICK i \in 1 .. Len(uses) : i = o + (3 * m - 3)
      BY <1>4, <3>2
    <3>4. x = f[i] /\ uses[i] = "node"
      BY <1>1, <1>5, <3>1, <3>2, <3>3, Zenon
    <3> QED BY <3>4 DEF GivenTo
  <2> QED BY <2>1, <2>2
<1>10. GivenTo(f, uses, "ctx") = {}
  <2>1. \A i \in 1 .. Len(uses) : uses[i] # "ctx"
    BY <1>6
  <2> QED BY <2>1 DEF GivenTo
<1>11. GivenTo(f, uses, "task") = IF o = 1 THEN {f[1]} ELSE {}
  <2>1. \A i \in 1 .. Len(uses) : uses[i] = "task" => i <= o
    BY <1>6
  <2>2. o = 1 => 1 \in 1 .. Len(uses) /\ uses[1] = "task"
    <3>1. o = 1 => 1 \in 1 .. Len(uses) /\ 1 \in 1 .. o
      BY <1>3
    <3> QED BY <3>1 DEF Wanted
  <2>3. CASE o = 1
    <3>1. \A i \in 1 .. Len(uses) : uses[i] = "task" <=> i = 1
      BY <1>3, <2>1, <2>2, <2>3
    <3> QED BY <2>2, <2>3, <3>1 DEF GivenTo
  <2>4. CASE o = 0
    <3>1. \A i \in 1 .. Len(uses) : uses[i] # "task"
      BY <1>3, <2>1, <2>4
    <3> QED BY <2>4, <3>1 DEF GivenTo
  <2> QED BY <2>3, <2>4
<1> QED BY <1>7, <1>8, <1>9, <1>10, <1>11

\* The heap g is h with a new chain bs, and the task chunks ts, of c.
Grown(h, g, c, bs, ts) ==
    /\ Has(g, c, "ctx") = Has(h, c, "ctx") /\ Has(g, c, "task") = Has(h, c, "task") \cup ts
    /\ Has(g, c, "data") = Has(h, c, "data") \cup Data(bs) /\ Has(h, c, "data") \cap Data(bs) = {}
    /\ Has(g, c, "buf") = Has(h, c, "buf") \cup Bufs(bs) /\ Has(h, c, "buf") \cap Bufs(bs) = {}
    /\ Has(g, c, "node") = Has(h, c, "node") \cup Nodes(bs) /\ Has(h, c, "node") \cap Nodes(bs) = {}

Unlike(bs) == \A i, j \in DOMAIN bs : i # j => bs[i].data # bs[j].data

LEMMA NewChain ==
    ASSUME NEW h \in [Chunks -> Users], NEW c \in Calls, NEW uses, NEW o \in {0, 1}, NEW n \in Nat,
           NEW bs, Wanted(uses, o, n), Enough(h, uses), ChainAt(bs, FreeSeq(h), o, n)
    PROVE  /\ Grown(h, Alloc(h, c, uses), c, bs, IF o = 1 THEN {FreeSeq(h)[1]} ELSE {})
           /\ Unlike(bs)
<1>1. PICK f : f = FreeSeq(h)
  OBVIOUS
<1>2. PICK g : g = Alloc(h, c, uses)
  OBVIOUS
<1>3. uses \in Seq(Uses) /\ Len(uses) \in Nat /\ Len(uses) = IF n = 0 THEN o ELSE o + 3 * n - 1
  BY DEF Wanted
<1>4. f \in Seq(Chunks) /\ \A i, j \in DOMAIN f : i # j => f[i] # f[j]
  BY <1>1, FreeSeqFacts
<1>5. Len(uses) <= Len(f)
  BY <1>1 DEF Enough
<1>6. ChainAt(bs, f, o, n)
  BY <1>1
<1>7. /\ GivenTo(f, uses, "data") = Data(bs) /\ GivenTo(f, uses, "buf") = Bufs(bs)
      /\ GivenTo(f, uses, "node") = Nodes(bs) /\ GivenTo(f, uses, "ctx") = {}
      /\ GivenTo(f, uses, "task") = IF o = 1 THEN {f[1]} ELSE {}
  BY <1>4, <1>5, <1>6, ChainGiven
<1>8. ASSUME NEW u \in Uses
      PROVE  /\ Has(g, c, u) = Has(h, c, u) \cup GivenTo(f, uses, u)
             /\ Has(h, c, u) \cap GivenTo(f, uses, u) = {}
  BY <1>1, <1>2, <1>3, AllocHas
<1>9. "ctx" \in Uses /\ "task" \in Uses /\ "data" \in Uses /\ "buf" \in Uses /\ "node" \in Uses
  BY DEF Uses
<1>10. Grown(h, g, c, bs, GivenTo(f, uses, "task"))
  <2>1. Has(g, c, "ctx") = Has(h, c, "ctx") /\ Has(g, c, "task") = Has(h, c, "task") \cup GivenTo(f, uses, "task")
    BY <1>7, <1>8, <1>9
  <2>2. Has(g, c, "data") = Has(h, c, "data") \cup Data(bs) /\ Has(h, c, "data") \cap Data(bs) = {}
    BY <1>7, <1>8, <1>9
  <2>3. Has(g, c, "buf") = Has(h, c, "buf") \cup Bufs(bs) /\ Has(h, c, "buf") \cap Bufs(bs) = {}
    BY <1>7, <1>8, <1>9
  <2>4. Has(g, c, "node") = Has(h, c, "node") \cup Nodes(bs) /\ Has(h, c, "node") \cap Nodes(bs) = {}
    BY <1>7, <1>8, <1>9
  <2> QED BY <2>1, <2>2, <2>3, <2>4 DEF Grown
<1>11. Unlike(bs)
  <2>1. ASSUME NEW i \in DOMAIN bs, NEW j \in DOMAIN bs, i # j PROVE bs[i].data # bs[j].data
    <3>1. i \in 1 .. n /\ j \in 1 .. n /\ DOMAIN f = 1 .. Len(f) /\ Len(f) \in Nat
      BY <1>4, <1>6 DEF ChainAt
    <3>2. bs[i].data = f[o + (3 * i - 1)] /\ bs[j].data = f[o + (3 * j - 1)]
      BY <1>6, <3>1 DEF ChainAt
    <3>3. PICK a \in Nat, b \in Nat : a = Len(uses) /\ b = Len(f)
      BY <1>3, <3>1
    <3>4. a = o + 3 * n - 1 /\ a <= b
      BY <1>3, <1>5, <3>1, <3>3
    <3>5. /\ o + (3 * i - 1) \in 1 .. b /\ o + (3 * j - 1) \in 1 .. b
          /\ o + (3 * i - 1) # o + (3 * j - 1)
      BY <2>1, <3>1, <3>4
    <3>6. /\ o + (3 * i - 1) \in DOMAIN f /\ o + (3 * j - 1) \in DOMAIN f
          /\ o + (3 * i - 1) # o + (3 * j - 1)
      BY <3>1, <3>3, <3>5
    <3> QED BY <1>4, <3>2, <3>6, Zenon
  <2> QED BY <2>1 DEF Unlike
<1> QED BY <1>1, <1>2, <1>7, <1>10, <1>11

Shape(bs, parts) == \A m \in 1 .. Len(bs) : bs[m].len = parts[m].len /\ bs[m].file = parts[m].file

LEMMA ChainFacts ==
    ASSUME NEW n \in Nat, NEW parts, DOMAIN parts = 1 .. n, \A m \in 1 .. n : parts[m] \in Part,
           NEW o \in {0, 1}, NEW f \in Seq(Chunks), NEW places,
           n > 0 => o + 3 * n - 1 <= Len(f),
           \A j \in Nat : j >= 1 /\ o + j <= Len(f) => places[j] = f[o + j]
    PROVE  ChainAt(Chain(places, parts), f, o, n) /\ Shape(Chain(places, parts), parts)
<1>1. PICK bs : bs = Chain(places, parts)
  OBVIOUS
<1>2. PICK z \in Nat : z = Len(f) /\ DOMAIN f = 1 .. z
  OBVIOUS
<1>3. bs = [i \in 1 .. n |->
              [node |-> IF i = 1 THEN Null ELSE places[3 * i - 3],
               buf  |-> places[3 * i - 2],
               data |-> places[3 * i - 1],
               len  |-> parts[i].len, pos |-> 0, file |-> parts[i].file]]
  BY <1>1 DEF Chain
<1>4. ASSUME NEW m \in 1 .. n
      PROVE  /\ bs[m].buf = f[o + (3 * m - 2)] /\ bs[m].data = f[o + (3 * m - 1)]
             /\ m > 1 => bs[m].node = f[o + (3 * m - 3)]
             /\ m = 1 => bs[m].node = Null
             /\ bs[m].pos = 0 /\ bs[m].len = parts[m].len /\ bs[m].file = parts[m].file
             /\ bs[m] \in Buffer
  <2>1. PICK b : b = bs[m]
    OBVIOUS
  <2>2. b = [node |-> IF m = 1 THEN Null ELSE places[3 * m - 3], buf |-> places[3 * m - 2],
             data |-> places[3 * m - 1], len |-> parts[m].len, pos |-> 0, file |-> parts[m].file]
    BY <1>3, <2>1
  <2>3. /\ 3 * m - 2 \in Nat /\ 3 * m - 2 >= 1 /\ o + (3 * m - 2) <= z /\ o + (3 * m - 2) \in 1 .. z
        /\ 3 * m - 1 \in Nat /\ 3 * m - 1 >= 1 /\ o + (3 * m - 1) <= z /\ o + (3 * m - 1) \in 1 .. z
        /\ m > 1 => /\ 3 * m - 3 \in Nat /\ 3 * m - 3 >= 1 /\ o + (3 * m - 3) <= z
                    /\ o + (3 * m - 3) \in 1 .. z
    BY <1>2
  <2>4. /\ places[3 * m - 2] = f[o + (3 * m - 2)] /\ places[3 * m - 1] = f[o + (3 * m - 1)]
        /\ m > 1 => places[3 * m - 3] = f[o + (3 * m - 3)]
    BY <1>2, <2>3
  <2>5. /\ f[o + (3 * m - 2)] \in Chunks /\ f[o + (3 * m - 1)] \in Chunks
        /\ m > 1 => f[o + (3 * m - 3)] \in Chunks
    BY <1>2, <2>3
  <2>6. parts[m].len \in 0 .. Cap /\ parts[m].file \in BOOLEAN
    <3>1. parts[m] \in Part /\ 0 \in 0 .. Cap
      BY BufsAssumption
    <3> QED BY <3>1 DEF Part
  <2>7. m = 1 \/ m > 1
    OBVIOUS
  <2>8. /\ b.buf = f[o + (3 * m - 2)] /\ b.data = f[o + (3 * m - 1)]
        /\ m > 1 => b.node = f[o + (3 * m - 3)]
        /\ m = 1 => b.node = Null
        /\ b.pos = 0 /\ b.len = parts[m].len /\ b.file = parts[m].file
    BY <2>2, <2>4
  <2>9. b.node \in {Null} \cup Chunks
    BY <2>5, <2>7, <2>8
  <2>10. 0 \in 0 .. Cap
    BY BufsAssumption
  <2>11. b \in Buffer
    BY <2>2, <2>5, <2>6, <2>8, <2>9, <2>10 DEF Buffer
  <2> QED BY <2>1, <2>8, <2>11
<1>5. bs \in Seq(Buffer) /\ Len(bs) = n
  <2>1. bs \in [1 .. n -> Buffer]
    BY <1>3, <1>4
  <2> QED BY <2>1
<1>6. ChainAt(bs, f, o, n)
  BY <1>4, <1>5 DEF ChainAt
<1>7. Shape(bs, parts)
  BY <1>4, <1>5 DEF Shape
<1> QED BY <1>1, <1>6, <1>7

\* The parser moves pos and nothing else.
LEMMA ReadFacts ==
    ASSUME NEW bs \in Seq(Buffer)
    PROVE  /\ Read(bs) \in Seq(Buffer) /\ Len(Read(bs)) = Len(bs)
           /\ \A m \in 1 .. Len(bs) :
                 /\ Read(bs)[m].data = bs[m].data /\ Read(bs)[m].buf = bs[m].buf
                 /\ Read(bs)[m].node = bs[m].node /\ Read(bs)[m].file = bs[m].file
                 /\ Read(bs)[m].len = bs[m].len
                 /\ (\E j \in 1 .. m : bs[j].file) => Read(bs)[m].pos = bs[m].pos
                 /\ ~(\E j \in 1 .. m : bs[j].file) => Read(bs)[m].pos = bs[m].len
           /\ Data(Read(bs)) = Data(bs) /\ Bufs(Read(bs)) = Bufs(bs) /\ Nodes(Read(bs)) = Nodes(bs)
           /\ Headed(bs) => Headed(Read(bs))
<1>1. PICK r : r = Read(bs)
  OBVIOUS
<1>2. PICK n \in Nat : n = Len(bs) /\ DOMAIN bs = 1 .. n
  OBVIOUS
<1>3. r = [i \in 1 .. n |->
             IF \E j \in 1 .. i : bs[j].file THEN bs[i] ELSE [bs[i] EXCEPT !.pos = bs[i].len]]
  BY <1>1, <1>2 DEF Read
<1>4. ASSUME NEW m \in 1 .. n
      PROVE  /\ r[m] \in Buffer
             /\ r[m].data = bs[m].data /\ r[m].buf = bs[m].buf
             /\ r[m].node = bs[m].node /\ r[m].file = bs[m].file /\ r[m].len = bs[m].len
             /\ (\E j \in 1 .. m : bs[j].file) => r[m].pos = bs[m].pos
             /\ ~(\E j \in 1 .. m : bs[j].file) => r[m].pos = bs[m].len
  <2>1. PICK b \in Buffer : b = bs[m]
    BY <1>2
  <2>2. CASE \E j \in 1 .. m : bs[j].file
    <3>1. r[m] = b
      BY <1>3, <2>1, <2>2
    <3> QED BY <2>1, <2>2, <3>1
  <2>3. CASE ~(\E j \in 1 .. m : bs[j].file)
    <3>1. r[m] = [b EXCEPT !.pos = b.len]
      BY <1>3, <2>1, <2>3
    <3>2. PICK x : x = [b EXCEPT !.pos = b.len]
      OBVIOUS
    <3>3. /\ x \in Buffer /\ x.data = b.data /\ x.buf = b.buf /\ x.node = b.node
          /\ x.file = b.file /\ x.len = b.len /\ x.pos = b.len
      BY <3>2 DEF Buffer
    <3> QED BY <2>1, <2>3, <3>1, <3>2, <3>3, Zenon
  <2> QED BY <2>2, <2>3
<1>5. r \in Seq(Buffer) /\ Len(r) = n
  <2>1. r \in [1 .. n -> Buffer]
    BY <1>3, <1>4
  <2> QED BY <2>1
<1>6. Data(r) = Data(bs)
  <2>1. Data(r) = {r[m].data : m \in 1 .. n} /\ Data(bs) = {bs[m].data : m \in 1 .. n}
    BY <1>2, <1>5, MembersFacts
  <2> QED BY <1>4, <2>1
<1>7. Bufs(r) = Bufs(bs)
  <2>1. Bufs(r) = {r[m].buf : m \in 1 .. n} /\ Bufs(bs) = {bs[m].buf : m \in 1 .. n}
    BY <1>2, <1>5, MembersFacts
  <2> QED BY <1>4, <2>1
<1>8. Nodes(r) = Nodes(bs)
  <2>1. Nodes(r) = {r[m].node : m \in 1 .. n} \ {Null} /\ Nodes(bs) = {bs[m].node : m \in 1 .. n} \ {Null}
    BY <1>2, <1>5, MembersFacts
  <2> QED BY <1>4, <2>1
<1>9. Headed(bs) => Headed(r)
  BY <1>2, <1>4, <1>5 DEF Headed
<1> QED BY <1>1, <1>2, <1>4, <1>5, <1>6, <1>7, <1>8, <1>9

-----------------------------------------------------------------------------
(* The steps *)

\* A step of c, which leaves the chunks of the other calls alone.
LEMMA Stepped ==
    ASSUME BufsInv, NEW c \in Calls, NEW q \in CallRec, call' = [call EXCEPT ![c] = q],
           heap' \in [Chunks -> Users], wrong' \in BOOLEAN, Way(q), Parsed(q),
           ~wrong' => ~wrong /\ Touches(heap, heap', c) /\ Memory(heap', c, q)
    PROVE  BufsInv'
<1>1. call \in [Calls -> CallRec]
  BY DEF BufsInv
<1>2. call'[c] = q /\ \A d \in Calls \ {c} : call'[d] = call[d]
  BY <1>1
<1>3. call' \in [Calls -> CallRec]
  BY <1>1
<1>4. \A d \in Calls : Way(call'[d]) /\ Parsed(call'[d])
  BY <1>2 DEF BufsInv
<1>5. ASSUME ~wrong', NEW d \in Calls PROVE Memory(heap', d, call'[d])
  <2>1. CASE d = c
    BY <1>2, <1>5, <2>1
  <2>2. CASE d # c
    <3>1. Memory(heap, d, call[d]) /\ Touches(heap, heap', c)
      BY <1>5 DEF BufsInv
    <3>2. Memory(heap', d, call[d])
      BY <2>2, <3>1, MemoryKept
    <3> QED BY <1>2, <2>2, <3>2
  <2> QED BY <2>1, <2>2
<1> QED BY <1>3, <1>4, <1>5 DEF BufsInv

Keeps(k, q) ==
    /\ q.ctx = k.ctx /\ q.task = k.task /\ q.req = k.req /\ q.res = k.res
    /\ q.dropped = k.dropped /\ q.lost = k.lost /\ q.node = k.node

Alive(k) == k.pc \notin {"closed", "crashed"}

LEMMA TaskThere ==
    ASSUME NEW h, NEW c, NEW k, Memory(h, c, k), Alive(k), k.task # Null
    PROVE  k.task \in Has(h, c, "task")
  BY DEF Memory, Alive, Exact

LEMMA MemorySame ==
    ASSUME NEW h, NEW c, NEW k, NEW q, Memory(h, c, k), Keeps(k, q),
           q.pc = k.pc \/ (Alive(k) /\ q.pc \notin {"closed", "freed"})
    PROVE  Memory(h, c, q)
<1>1. CASE q.pc = k.pc
  BY <1>1 DEF Memory, Keeps, Exact, Apart, Leaves
<1>2. CASE Alive(k) /\ q.pc \notin {"closed", "freed"}
  <2>1. Exact(h, c, k) /\ Apart(k)
    BY <1>2 DEF Memory, Alive
  <2>2. Exact(h, c, q) /\ Apart(q)
    BY <2>1 DEF Keeps, Exact, Apart
  <2>3. q.task # Null => q.task \in Has(h, c, "task")
    BY <1>2, TaskThere DEF Keeps
  <2> QED BY <1>2, <2>2, <2>3 DEF Memory
<1> QED BY <1>1, <1>2

\* A step that only moves a call on.
LEMMA Moved ==
    ASSUME BufsInv, NEW c \in Calls, NEW q \in CallRec, call' = [call EXCEPT ![c] = q],
           UNCHANGED <<heap, wrong>>, Way(q), Parsed(q), Keeps(call[c], q),
           q.pc = call[c].pc \/ (Alive(call[c]) /\ q.pc \notin {"closed", "freed"})
    PROVE  BufsInv'
<1>1. heap' \in [Chunks -> Users] /\ wrong' \in BOOLEAN
  BY DEF BufsInv
<1>2. ASSUME ~wrong' PROVE ~wrong /\ Touches(heap, heap', c) /\ Memory(heap', c, q)
  <2>1. ~wrong /\ Memory(heap, c, call[c])
    BY <1>2 DEF BufsInv
  <2>2. Memory(heap, c, q)
    BY <2>1, MemorySame
  <2> QED BY <2>1, <2>2 DEF Touches
<1> QED BY <1>1, <1>2, Stepped

LEMMA CallFacts ==
    ASSUME BufsInv, NEW c \in Calls
    PROVE  /\ call \in [Calls -> CallRec] /\ call[c] \in CallRec
           /\ Way(call[c]) /\ Parsed(call[c])
           /\ heap \in [Chunks -> Users] /\ wrong \in BOOLEAN
           /\ ~wrong => Memory(heap, c, call[c])
  BY DEF BufsInv

LEMMA NoBodyStep ==
    ASSUME BufsInv, NEW c \in Calls, NoBody(c)
    PROVE  BufsInv'
<1>1. PICK k \in CallRec : k = call[c] /\ Way(k) /\ Parsed(k) /\ k.pc = "begun"
  BY CallFacts DEF NoBody
<1>2. PICK q : q = [k EXCEPT !.pc = "finished"]
  OBVIOUS
<1>3. call' = [call EXCEPT ![c] = q]
  BY <1>1, <1>2 DEF NoBody
<1>4. q \in CallRec /\ Keeps(k, q)
  BY <1>2 DEF CallRec, Pcs, Keeps
<1>5. Way(q) /\ Parsed(q)
  BY <1>1, <1>2 DEF CallRec, Way, Parsed
<1>6. Alive(k) /\ q.pc = "finished"
  BY <1>1, <1>2 DEF CallRec, Alive
<1> QED BY <1>1, <1>3, <1>4, <1>5, <1>6, Moved DEF NoBody

LEMMA LateLogStep ==
    ASSUME BufsInv, NEW c \in Calls, LateLog(c)
    PROVE  BufsInv'
<1>1. PICK k \in CallRec : k = call[c] /\ Way(k) /\ Parsed(k)
  BY CallFacts
<1>2. PICK q : q = [k EXCEPT !.late = {}]
  OBVIOUS
<1>3. call' = [call EXCEPT ![c] = q]
  BY <1>1, <1>2 DEF LateLog
<1>4. q \in CallRec /\ Keeps(k, q) /\ q.pc = k.pc
  BY <1>2 DEF CallRec, Pcs, Keeps
<1>5. Way(q) /\ Parsed(q)
  BY <1>1, <1>2 DEF CallRec, Way, Parsed
<1> QED BY <1>1, <1>3, <1>4, <1>5, Moved DEF LateLog

LEMMA FinishStep ==
    ASSUME BufsInv, NEW c \in Calls, Finish(c)
    PROVE  BufsInv'
<1>1. PICK k \in CallRec : k = call[c] /\ Way(k) /\ Parsed(k) /\ k.pc = "answer"
  BY CallFacts DEF Finish
<1>2. PICK q : q = [k EXCEPT !.pc = "finished"]
  OBVIOUS
<1>3. call' = [call EXCEPT ![c] = q]
  BY <1>1, <1>2 DEF Finish
<1>4. q \in CallRec /\ Keeps(k, q)
  BY <1>2 DEF CallRec, Pcs, Keeps
<1>5. Way(q) /\ Parsed(q)
  BY <1>1, <1>2 DEF CallRec, Way, Parsed
<1>6. Alive(k) /\ q.pc = "finished"
  BY <1>1, <1>2 DEF CallRec, Alive
<1> QED BY <1>1, <1>3, <1>4, <1>5, <1>6, Moved DEF Finish

LEMMA SubFailedStep ==
    ASSUME BufsInv, NEW c \in Calls, SubFailed(c)
    PROVE  BufsInv'
<1>1. PICK k \in CallRec : k = call[c] /\ Way(k) /\ Parsed(k) /\ k.pc = "sub"
  BY CallFacts DEF SubFailed
<1>2. PICK q : q = [k EXCEPT !.pc = "back", !.sub = NoSub]
  OBVIOUS
<1>3. call' = [call EXCEPT ![c] = q]
  BY <1>1, <1>2 DEF SubFailed
<1>4. q \in CallRec /\ Keeps(k, q)
  BY <1>2 DEF CallRec, Pcs, Keeps, NoSub
<1>5. Way(q) /\ Parsed(q)
  BY <1>1, <1>2 DEF CallRec, Way, Parsed, NoSub
<1>6. Alive(k) /\ q.pc = "back"
  BY <1>1, <1>2 DEF CallRec, Alive
<1> QED BY <1>1, <1>3, <1>4, <1>5, <1>6, Moved DEF SubFailed

\* What a subrequest has left to send is a number, and zero when all has been read.
LEMMA LeftFacts ==
    ASSUME NEW bs \in Seq(Buffer)
    PROVE  Left(bs) \in Nat /\ ((\A b \in Range(bs) : b.pos = b.len) => Left(bs) = 0)
<1>1. PICK n \in Nat : n = Len(bs) /\ DOMAIN bs = 1 .. n
  OBVIOUS
<1>2. PICK L : L = UNION {{i} \X (bs[i].pos + 1 .. bs[i].len) : i \in 1 .. n}
  OBVIOUS
<1>3. Left(bs) = Cardinality(L)
  BY <1>1, <1>2 DEF Left
<1>4. \A i \in 1 .. n : bs[i].pos \in Nat /\ bs[i].len \in 0 .. Cap /\ Cap \in Nat
  <2>1. Cap \in Nat
    BY BufsAssumption
  <2>2. \A i \in 1 .. n : bs[i] \in Buffer
    BY <1>1
  <2>3. \A b \in Buffer : b.pos \in 0 .. Cap /\ b.len \in 0 .. Cap
    BY DEF Buffer
  <2>4. \A x \in 0 .. Cap : x \in Nat
    OBVIOUS
  <2> QED BY <2>1, <2>2, <2>3, <2>4, Zenon
<1>5. ASSUME NEW x \in L PROVE x \in (1 .. n) \X (1 .. Cap)
  <2>1. PICK i \in 1 .. n : x \in {i} \X (bs[i].pos + 1 .. bs[i].len)
    BY <1>2
  <2>2. \A y \in bs[i].pos + 1 .. bs[i].len : y \in 1 .. Cap
    BY <1>4
  <2> QED BY <2>1, <2>2
<1>6. IsFiniteSet(1 .. n) /\ IsFiniteSet(1 .. Cap)
  <2>1. 1 \in Int /\ n \in Int /\ Cap \in Int
    BY BufsAssumption
  <2> QED BY <2>1, FS_Interval
<1>7. IsFiniteSet(L)
  <2>1. IsFiniteSet((1 .. n) \X (1 .. Cap))
    BY <1>6, FS_Product
  <2>2. L \subseteq (1 .. n) \X (1 .. Cap)
    BY <1>5
  <2> QED BY <2>1, <2>2, FS_Subset
<1>8. Left(bs) \in Nat
  BY <1>3, <1>7, FS_CardinalityType
<1>9. ASSUME \A b \in Range(bs) : b.pos = b.len PROVE Left(bs) = 0
  <2>1. \A i \in 1 .. n : bs[i].pos = bs[i].len
    BY <1>1, <1>9 DEF Range
  <2>2. \A i \in 1 .. n : bs[i].pos + 1 .. bs[i].len = {}
    BY <1>4, <2>1
  <2>3. L = {}
    <3>1. ASSUME NEW x \in L PROVE FALSE
      <4>1. PICK i \in 1 .. n : x \in {i} \X (bs[i].pos + 1 .. bs[i].len)
        BY <1>2
      <4> QED BY <2>2, <4>1
    <3> QED BY <3>1
  <2> QED BY <1>3, <2>3, FS_EmptySet
<1> QED BY <1>8, <1>9

LEMMA FowardStep ==
    ASSUME BufsInv, NEW c \in Calls, Foward(c)
    PROVE  BufsInv'
<1>1. PICK k \in CallRec : k = call[c] /\ Way(k) /\ Parsed(k) /\ k.pc = "forward"
  BY CallFacts DEF Foward
<1>2. PICK s : s = [left |-> Left(k.req), length |-> k.resLength, on |-> TRUE]
  OBVIOUS
<1>3. PICK pc \in {"sub", "stuck"} : call' = [call EXCEPT ![c].pc = pc, ![c].sub = s]
  BY <1>1, <1>2 DEF Foward, ContentLength
<1>4. PICK q : q = [k EXCEPT !.pc = pc, !.sub = s]
  OBVIOUS
<1>5. call' = [call EXCEPT ![c] = q]
  BY <1>1, <1>3, <1>4
<1>6. k.req \in Seq(Buffer) /\ k.resLength \in Nat
  BY DEF CallRec
<1>7. Left(k.req) \in Nat /\ ((\A b \in Range(k.req) : b.pos = b.len) => Left(k.req) = 0)
  BY <1>6, LeftFacts
<1>8. s \in [left : Nat, length : Nat, on : BOOLEAN] /\ s.left = Left(k.req) /\ s.on = TRUE
  BY <1>2, <1>6, <1>7
<1>9. q \in CallRec /\ Keeps(k, q) /\ q.pc = pc /\ q.sub = s /\ q.late = k.late
  BY <1>4, <1>8 DEF CallRec, Pcs, Keeps
<1>10. Way(q)
  BY <1>1, <1>9 DEF Way, Keeps
<1>11. Parsed(q)
  BY <1>1, <1>7, <1>8, <1>9 DEF Parsed, Keeps
<1>12. Alive(k) /\ q.pc \notin {"closed", "freed"}
  BY <1>1, <1>9 DEF Alive
<1> QED BY <1>1, <1>5, <1>9, <1>10, <1>11, <1>12, Moved DEF Foward

LEMMA BeginStep ==
    ASSUME BufsInv, NEW c \in Calls, Begin(c)
    PROVE  BufsInv'
<1>1. PICK k \in CallRec : k = call[c] /\ Way(k) /\ Parsed(k) /\ k.pc = "none"
  BY CallFacts DEF Begin
<1>2. CASE ~Enough(heap, <<"ctx">>)
  <2>1. PICK q : q = [k EXCEPT !.pc = "finished"]
    OBVIOUS
  <2>2. call' = [call EXCEPT ![c] = q] /\ UNCHANGED <<heap, wrong>>
    BY <1>1, <1>2, <2>1 DEF Begin
  <2>3. q \in CallRec /\ Keeps(k, q)
    BY <2>1 DEF CallRec, Pcs, Keeps
  <2>4. Way(q) /\ Parsed(q)
    BY <1>1, <2>1 DEF CallRec, Way, Parsed
  <2>5. Alive(k) /\ q.pc = "finished"
    BY <1>1, <2>1 DEF CallRec, Alive
  <2> QED BY <1>1, <2>2, <2>3, <2>4, <2>5, Moved
<1>3. CASE Enough(heap, <<"ctx">>)
  <2>1. PICK uses : uses = <<"ctx">>
    OBVIOUS
  <2>2. uses \in Seq(Uses) /\ Len(uses) = 1 /\ uses[1] = "ctx"
    BY <2>1 DEF Uses
  <2>3. PICK f : f = FreeSeq(heap)
    OBVIOUS
  <2>4. heap \in [Chunks -> Users] /\ f \in Seq(Chunks) /\ 1 <= Len(f)
    BY <1>3, <2>1, <2>2, <2>3, CallFacts, FreeSeqFacts DEF Enough
  <2>5. f[1] \in Chunks
    BY <2>4
  <2>6. PICK q : q = [k EXCEPT !.pc = "begun", !.ctx = f[1]]
    OBVIOUS
  <2>7. /\ call' = [call EXCEPT ![c] = q] /\ wrong' = wrong
        /\ heap' = Alloc(heap, c, uses)
    BY <1>1, <1>3, <2>1, <2>3, <2>6 DEF Begin
  <2>8. /\ q \in CallRec /\ q.pc = "begun" /\ q.ctx = f[1] /\ q.task = k.task /\ q.req = k.req
        /\ q.res = k.res /\ q.dropped = k.dropped /\ q.lost = k.lost
    BY <2>5, <2>6 DEF CallRec, Pcs
  <2>9. f[1] # Null
    BY <2>5, ChunkFacts
  <2>10. Way(q)
    BY <1>1, <2>6, <2>9 DEF CallRec, Way
  <2>11. Parsed(q)
    BY <1>1, <2>6 DEF CallRec, Parsed
  <2>12. heap' \in [Chunks -> Users] /\ Touches(heap, heap', c)
    BY <2>2, <2>4, <2>7, AllocTouches
  <2>13. wrong' \in BOOLEAN
    BY <2>7, CallFacts
  <2>14. ASSUME ~wrong' PROVE ~wrong /\ Touches(heap, heap', c) /\ Memory(heap', c, q)
    <3>1. ~wrong /\ Memory(heap, c, k)
      BY <1>1, <2>7, <2>14, CallFacts
    <3>2. Exact(heap, c, k) /\ Apart(k)
      BY <1>1, <3>1 DEF Memory
    <3>3. Enough(heap, uses)
      BY <1>3, <2>1
    <3>4. ASSUME NEW u \in Uses PROVE Has(heap', c, u) = Has(heap, c, u) \cup GivenTo(f, uses, u)
      BY <2>2, <2>3, <2>4, <2>7, <3>3, AllocHas
    <3>5. GivenTo(f, uses, "ctx") = {f[1]} /\ \A u \in Uses \ {"ctx"} : GivenTo(f, uses, u) = {}
      BY <2>2 DEF GivenTo
    <3>6. /\ "ctx" \in Uses /\ "task" \in Uses \ {"ctx"} /\ "data" \in Uses \ {"ctx"}
          /\ "buf" \in Uses \ {"ctx"} /\ "node" \in Uses \ {"ctx"}
      BY DEF Uses
    <3>7. /\ Has(heap', c, "ctx") = Has(heap, c, "ctx") \cup {f[1]}
          /\ Has(heap', c, "task") = Has(heap, c, "task")
          /\ Has(heap', c, "data") = Has(heap, c, "data")
          /\ Has(heap', c, "buf") = Has(heap, c, "buf")
          /\ Has(heap', c, "node") = Has(heap, c, "node")
      BY <3>4, <3>5, <3>6
    <3>8. k.ctx = Null
      BY <1>1 DEF Way
    <3>9. Exact(heap', c, q)
      BY <2>8, <2>9, <3>2, <3>7, <3>8 DEF Exact
    <3>10. Apart(q)
      BY <2>8, <3>2 DEF Apart
    <3> QED BY <2>8, <2>12, <3>1, <3>9, <3>10 DEF Memory
  <2> QED BY <2>7, <2>8, <2>10, <2>11, <2>12, <2>13, <2>14, Stepped
<1> QED BY <1>2, <1>3

\* A call that runs into a full pool has taken what was left and keeps its task.
LEMMA Crashed ==
    ASSUME BufsInv, NEW c \in Calls, Alive(call[c]), NEW uses \in Seq(Uses),
           heap' = Alloc(heap, c, uses), wrong' = wrong, ~call[c].sub.on,
           call' = [call EXCEPT ![c].pc = "crashed"]
    PROVE  BufsInv'
<1>1. PICK k \in CallRec : k = call[c] /\ Way(k) /\ Parsed(k) /\ Alive(k) /\ ~k.sub.on
  BY CallFacts
<1>2. PICK q : q = [k EXCEPT !.pc = "crashed"]
  OBVIOUS
<1>3. call' = [call EXCEPT ![c] = q]
  BY <1>1, <1>2
<1>4. q \in CallRec /\ q.pc = "crashed" /\ q.task = k.task
  BY <1>2 DEF CallRec, Pcs
<1>5. Way(q) /\ Parsed(q)
  BY <1>1, <1>2 DEF CallRec, Way, Parsed
<1>6. heap \in [Chunks -> Users]
  BY CallFacts
<1>7. /\ heap' \in [Chunks -> Users] /\ Touches(heap, heap', c)
      /\ \A x \in Chunks : heap[x] # Free => heap'[x] = heap[x]
  BY <1>6, AllocTouches
<1>8. ASSUME ~wrong' PROVE ~wrong /\ Touches(heap, heap', c) /\ Memory(heap', c, q)
  <2>1. ~wrong /\ Memory(heap, c, k)
    BY <1>1, <1>8, CallFacts
  <2>2. ASSUME k.task # Null PROVE k.task \in Has(heap', c, "task")
    <3>1. k.task \in Has(heap, c, "task")
      BY <1>1, <2>1, <2>2, TaskThere
    <3>2. [call |-> c, use |-> "task"] # Free
      BY DEF Free
    <3> QED BY <1>7, <3>1, <3>2 DEF Has
  <2> QED BY <1>4, <1>7, <2>1, <2>2 DEF Memory
<1>9. wrong' \in BOOLEAN
  BY CallFacts
<1> QED BY <1>3, <1>4, <1>5, <1>7, <1>8, <1>9, Stepped

LEMMA PostStep ==
    ASSUME BufsInv, NEW c \in Calls, NEW body \in Bodies, Post(c, body)
    PROVE  BufsInv'
<1>1. PICK k \in CallRec : k = call[c] /\ Way(k) /\ Parsed(k) /\ k.pc = "begun"
  BY CallFacts DEF Post
<1>2. PICK n \in Nat : n = Len(body)
  BY BufsAssumption
<1>3. DOMAIN body = 1 .. n /\ n \in 1 .. 2 /\ \A m \in 1 .. n : body[m] \in Part
  <2>1. body \in Seq(Part) /\ Len(body) \in 1 .. 2
    BY BufsAssumption, Zenon
  <2> QED BY <1>2, <2>1
<1>4. PICK uses : uses = <<"task">> \o ChainUses(n)
  OBVIOUS
<1>5. Wanted(uses, 1, n)
  BY <1>4, TaskWanted
<1>6. uses \in Seq(Uses) /\ Len(uses) = 1 + 3 * n - 1
  BY <1>3, <1>5 DEF Wanted
<1>7. PICK f : f = FreeSeq(heap)
  OBVIOUS
<1>8. heap \in [Chunks -> Users] /\ f \in Seq(Chunks)
  BY <1>7, CallFacts, FreeSeqFacts
<1>9. heap' = Alloc(heap, c, uses) /\ wrong' = wrong
  BY <1>2, <1>4 DEF Post
<1>10. CASE ~Enough(heap, uses)
  <2>1. call' = [call EXCEPT ![c].pc = "crashed"]
    BY <1>2, <1>4, <1>10 DEF Post
  <2>2. Alive(call[c]) /\ ~call[c].sub.on
    BY <1>1 DEF Alive, Parsed
  <2> QED BY <1>6, <1>9, <2>1, <2>2, Crashed
<1>11. CASE Enough(heap, uses)
  <2>1. PICK bs : bs = Copied(Tail(f), body)
    OBVIOUS
  <2>2. PICK pc \in {"queued", "finished"} :
           call' = [call EXCEPT ![c].pc = pc, ![c].task = f[1], ![c].req = bs]
    BY <1>2, <1>4, <1>7, <1>11, <2>1 DEF Post
  <2>3. PICK z \in Nat : z = Len(f) /\ DOMAIN f = 1 .. z
    BY <1>8
  <2>4. 1 + 3 * n - 1 <= z /\ z >= 1
    BY <1>3, <1>6, <1>7, <1>11, <2>3 DEF Enough
  <2>5. \A j \in Nat : j >= 1 /\ 1 + j <= Len(f) => Tail(f)[j] = f[1 + j]
    <3>1. ASSUME NEW j \in Nat, j >= 1, 1 + j <= z PROVE Tail(f)[j] = f[1 + j]
      <4>1. f # <<>>
        BY <2>3, <2>4
      <4>2. Len(Tail(f)) = z - 1 /\ \A i \in 1 .. z - 1 : Tail(f)[i] = f[i + 1]
        BY <1>8, <2>3, <4>1
      <4>3. j \in 1 .. z - 1 /\ j + 1 = 1 + j
        BY <3>1
      <4> QED BY <4>2, <4>3
    <3> QED BY <2>3, <3>1
  <2>6. ChainAt(bs, f, 1, n)
    <3>1. 1 \in {0, 1} /\ (n > 0 => 1 + 3 * n - 1 <= Len(f))
      BY <2>3, <2>4
    <3> QED BY <1>3, <1>8, <2>1, <2>5, <3>1, ChainFacts DEF Copied
  <2>7. bs \in Seq(Buffer) /\ Len(bs) = n /\ \A m \in 1 .. n : bs[m].pos = 0
    BY <2>6 DEF ChainAt
  <2>8. f[1] \in Chunks
    BY <1>8, <2>3, <2>4
  <2>9. f[1] # Null
    BY <2>8, ChunkFacts
  <2>10. PICK q : q = [k EXCEPT !.pc = pc, !.task = f[1], !.req = bs]
    OBVIOUS
  <2>11. call' = [call EXCEPT ![c] = q]
    BY <1>1, <2>2, <2>10
  <2>12. /\ q \in CallRec /\ q.pc = pc /\ q.ctx = k.ctx /\ q.task = f[1] /\ q.req = bs
         /\ q.res = k.res /\ q.dropped = k.dropped /\ q.lost = k.lost /\ q.late = k.late
         /\ q.sub = k.sub
    BY <2>7, <2>8, <2>10 DEF CallRec, Pcs
  <2>13. Way(q)
    BY <1>1, <2>6, <2>9, <2>12, ChainHeaded DEF Way
  <2>14. \A b \in Range(bs) : b.pos = 0
    BY <2>7, RangeFacts
  <2>15. Parsed(q)
    BY <1>1, <1>3, <2>7, <2>12, <2>14 DEF Parsed
  <2>16. heap' \in [Chunks -> Users] /\ Touches(heap, heap', c)
    BY <1>6, <1>8, <1>9, AllocTouches
  <2>17. ASSUME ~wrong' PROVE ~wrong /\ Touches(heap, heap', c) /\ Memory(heap', c, q)
    <3>1. ~wrong /\ Memory(heap, c, k)
      BY <1>1, <1>9, <2>17, CallFacts
    <3>2. Exact(heap, c, k) /\ Apart(k)
      BY <1>1, <3>1 DEF Memory
    <3>3. Grown(heap, heap', c, bs, {f[1]}) /\ Unlike(bs)
      <4>1. 1 \in {0, 1} /\ ChainAt(bs, FreeSeq(heap), 1, n)
        BY <1>7, <2>6
      <4> QED BY <1>5, <1>7, <1>8, <1>9, <1>11, <4>1, NewChain
    <3>4. k.task = Null /\ k.req = <<>> /\ k.res = <<>> /\ k.dropped = <<>> /\ k.lost = {}
      BY <1>1 DEF Way
    <3>5. Exact(heap', c, q)
      BY <2>9, <2>12, <3>2, <3>3, <3>4, EmptyFacts DEF Exact, Grown
    <3>6. Apart(q)
      BY <2>12, <3>3, <3>4, EmptyFacts DEF Apart, Unlike
    <3> QED BY <2>12, <2>16, <3>1, <3>5, <3>6 DEF Memory
  <2>18. wrong' \in BOOLEAN
    BY <1>9, CallFacts
  <2> QED BY <2>11, <2>12, <2>13, <2>15, <2>16, <2>17, <2>18, Stepped
<1> QED BY <1>10, <1>11

\* The chain of an answer takes the place of the old one, which nothing frees.
LEMMA ResMemory ==
    ASSUME NEW h, NEW g, NEW c, NEW k, NEW q, NEW bs, Exact(h, c, k), Apart(k), k.dropped = <<>>,
           Grown(h, g, c, bs, {}), q.ctx = k.ctx, q.task = k.task,
           Data(q.req) = Data(k.req), Bufs(q.req) = Bufs(k.req), Nodes(q.req) = Nodes(k.req),
           Unlike(q.req), q.res = bs, q.dropped = k.res, q.lost = k.lost
    PROVE  Exact(g, c, q) /\ Apart(q)
<1>1. Data(k.dropped) = {} /\ Bufs(k.dropped) = {} /\ Nodes(k.dropped) = {}
  BY EmptyFacts
<1>2. /\ Has(g, c, "ctx") = {q.ctx} \ {Null} /\ Has(g, c, "task") = {q.task} \ {Null}
  BY DEF Exact, Grown
<1>3. Has(h, c, "data") = Data(q.req) \cup Data(q.dropped) \cup q.lost
  BY <1>1 DEF Exact
<1>4. Has(g, c, "data") = Data(q.req) \cup Data(q.res) \cup Data(q.dropped) \cup q.lost
  BY <1>3 DEF Grown
<1>5. Has(h, c, "buf") = Bufs(q.req) \cup Bufs(q.dropped)
  BY <1>1 DEF Exact
<1>6. Has(g, c, "buf") = Bufs(q.req) \cup Bufs(q.res) \cup Bufs(q.dropped)
  BY <1>5 DEF Grown
<1>7. Has(h, c, "node") = Nodes(q.req) \cup Nodes(q.dropped)
  BY <1>1 DEF Exact
<1>8. Has(g, c, "node") = Nodes(q.req) \cup Nodes(q.res) \cup Nodes(q.dropped)
  BY <1>7 DEF Grown
<1>9. Exact(g, c, q)
  BY <1>2, <1>4, <1>6, <1>8 DEF Exact
<1>10. /\ Data(q.req) \cap Data(q.res) = {} /\ Data(q.req) \cap Data(q.dropped) = {}
       /\ Data(q.res) \cap Data(q.dropped) = {}
       /\ (Data(q.req) \cup Data(q.res) \cup Data(q.dropped)) \cap q.lost = {}
  <2>1. Data(q.res) \cap (Data(q.req) \cup Data(q.dropped) \cup q.lost) = {}
    BY <1>3 DEF Grown
  <2>2. Data(q.req) \cap Data(q.dropped) = {} /\ (Data(q.req) \cup Data(q.dropped)) \cap q.lost = {}
    BY DEF Apart
  <2> QED BY <2>1, <2>2
<1>11. /\ Bufs(q.req) \cap Bufs(q.res) = {} /\ Bufs(q.req) \cap Bufs(q.dropped) = {}
       /\ Bufs(q.res) \cap Bufs(q.dropped) = {}
  BY <1>5 DEF Grown, Apart
<1>12. /\ Nodes(q.req) \cap Nodes(q.res) = {} /\ Nodes(q.req) \cap Nodes(q.dropped) = {}
       /\ Nodes(q.res) \cap Nodes(q.dropped) = {}
  BY <1>7 DEF Grown, Apart
<1>13. Apart(q)
  BY <1>10, <1>11, <1>12 DEF Apart, Unlike
<1> QED BY <1>9, <1>13

LEMMA WritesFacts ==
    ASSUME NEW m \in 0 .. 2 * Cap
    PROVE  \E n \in 1 .. 2 : /\ DOMAIN Writes(m) = 1 .. n /\ Len(Writes(m)) = n
                             /\ \A i \in 1 .. n : Writes(m)[i] \in Part
<1>1. PICK n \in 1 .. 2 : n = IF m <= Cap THEN 1 ELSE 2
  OBVIOUS
<1>2. PICK w : w = Writes(m)
  OBVIOUS
<1>3. w = [i \in 1 .. n |-> [len |-> Cap, file |-> FALSE]]
  BY <1>1, <1>2 DEF Writes
<1>4. [len |-> Cap, file |-> FALSE] \in Part
  <2>1. Cap \in 0 .. Cap
    BY BufsAssumption
  <2> QED BY <2>1 DEF Part
<1>5. w \in [1 .. n -> Part] /\ n \in Nat
  BY <1>3, <1>4
<1>6. w \in Seq(Part) /\ Len(w) = n /\ DOMAIN w = 1 .. n
  BY <1>5
<1> QED BY <1>2, <1>5, <1>6

\* The chain that the writer makes for a message of m bytes.
LEMMA WriterChain ==
    ASSUME NEW h \in [Chunks -> Users], NEW c \in Calls, NEW m \in 0 .. 2 * Cap,
           NEW uses, uses = ChainUses(Len(Writes(m)))
    PROVE  /\ uses \in Seq(Uses)
           /\ Enough(h, uses) =>
                 /\ Chain(FreeSeq(h), Writes(m)) \in Seq(Buffer)
                 /\ Headed(Chain(FreeSeq(h), Writes(m)))
                 /\ Grown(h, Alloc(h, c, uses), c, Chain(FreeSeq(h), Writes(m)), {})
<1>1. PICK n \in 1 .. 2 : /\ DOMAIN Writes(m) = 1 .. n /\ Len(Writes(m)) = n
                          /\ \A i \in 1 .. n : Writes(m)[i] \in Part
  BY WritesFacts
<1>2. n \in Nat /\ n > 0
  OBVIOUS
<1>3. Wanted(uses, 0, n)
  BY <1>1, <1>2, ChainWanted
<1>4. uses \in Seq(Uses) /\ Len(uses) = 0 + 3 * n - 1
  BY <1>2, <1>3 DEF Wanted
<1>5. PICK f : f = FreeSeq(h)
  OBVIOUS
<1>6. f \in Seq(Chunks)
  BY <1>5, FreeSeqFacts
<1>7. ASSUME Enough(h, uses)
      PROVE  /\ Chain(f, Writes(m)) \in Seq(Buffer) /\ Headed(Chain(f, Writes(m)))
             /\ Grown(h, Alloc(h, c, uses), c, Chain(f, Writes(m)), {})
  <2>1. 0 + 3 * n - 1 <= Len(f)
    BY <1>4, <1>5, <1>7 DEF Enough
  <2>2. 0 \in {0, 1} /\ \A j \in Nat : j >= 1 /\ 0 + j <= Len(f) => f[j] = f[0 + j]
    OBVIOUS
  <2>3. ChainAt(Chain(f, Writes(m)), f, 0, n)
    BY <1>1, <1>2, <1>6, <2>1, <2>2, ChainFacts
  <2>4. Grown(h, Alloc(h, c, uses), c, Chain(f, Writes(m)), IF 0 = 1 THEN {f[1]} ELSE {})
    BY <1>2, <1>3, <1>5, <1>7, <2>2, <2>3, NewChain
  <2>5. (IF 0 = 1 THEN {f[1]} ELSE {}) = {}
    OBVIOUS
  <2>6. Headed(Chain(f, Writes(m)))
    BY <1>2, <2>3, ChainHeaded
  <2> QED BY <2>3, <2>4, <2>5, <2>6 DEF ChainAt
<1> QED BY <1>4, <1>5, <1>7

\* What the parser leaves of a request that does not hang it.
LEMMA ReadParsed ==
    ASSUME NEW k \in CallRec, Parsed(k), k.pc \in {"queued", "back"}, ~Spins(k.req),
           NEW r, r = Read(k.req)
    PROVE  /\ \A b \in Range(r) : b.pos \in {0, b.len}
           /\ k.pc = "queued" => /\ \A i \in DOMAIN r : r[i].pos > 0 => i = 1
                                 /\ (\A b \in Range(r) : ~b.file) => \A b \in Range(r) : b.pos = b.len
<1>1. PICK s \in Seq(Buffer) : s = k.req
  BY DEF CallRec
<1>2. PICK n \in Nat : n = Len(s) /\ DOMAIN s = 1 .. n
  OBVIOUS
<1>3. /\ r \in Seq(Buffer) /\ Len(r) = n
      /\ \A m \in 1 .. n :
            /\ r[m].file = s[m].file /\ r[m].len = s[m].len
            /\ (\E j \in 1 .. m : s[j].file) => r[m].pos = s[m].pos
            /\ ~(\E j \in 1 .. m : s[j].file) => r[m].pos = s[m].len
  BY <1>1, <1>2, ReadFacts
<1>4. Range(r) = {r[i] : i \in 1 .. n} /\ Range(s) = {s[i] : i \in 1 .. n} /\ DOMAIN r = 1 .. n
  BY <1>2, <1>3, RangeFacts
<1>5. \A i \in 1 .. n : s[i].pos \in {0, s[i].len}
  BY <1>1, <1>4 DEF Parsed
<1>6. \A i \in 1 .. n : r[i].pos \in {0, r[i].len}
  BY <1>3, <1>5
<1>7. ASSUME k.pc = "queued", NEW i \in 1 .. n, r[i].pos > 0 PROVE i = 1
  <2>1. n <= 2 /\ s[i].pos = 0
    BY <1>1, <1>2, <1>4, <1>7 DEF Parsed
  <2>2. ~(\E j \in 1 .. i : s[j].file)
    BY <1>3, <1>7, <2>1
  <2>3. SUFFICES ASSUME i # 1 PROVE FALSE
    OBVIOUS
  <2>4. i = 2 /\ n = 2
    BY <2>1, <2>3
  <2>5. ~s[1].file /\ ~s[2].file
    BY <2>2, <2>4
  <2> QED BY <1>1, <1>2, <2>4, <2>5 DEF Spins
<1>8. ASSUME \A b \in Range(r) : ~b.file, NEW i \in 1 .. n PROVE r[i].pos = r[i].len
  <2>1. \A j \in 1 .. n : ~r[j].file
    BY <1>4, <1>8
  <2>2. \A j \in 1 .. i : ~s[j].file
    BY <1>3, <2>1
  <2> QED BY <1>3, <2>2
<1> QED BY <1>4, <1>6, <1>7, <1>8

LEMMA WriteStep ==
    ASSUME BufsInv, NEW c \in Calls, NEW m \in Messages, NEW pc, NEW log, Write(c, m, pc, log),
           call[c].pc \in {"queued", "back"}, call[c].late = {}, ~Spins(call[c].req),
           \/ pc = "answer" /\ log = "finish"
           \/ pc = "forward" /\ log = "forward" /\ call[c].pc = "queued"
    PROVE  BufsInv'
<1>1. PICK k \in CallRec : /\ k = call[c] /\ Way(k) /\ Parsed(k) /\ k.pc \in {"queued", "back"}
                           /\ k.late = {} /\ ~Spins(k.req)
  BY CallFacts
<1>2. m \in 0 .. 2 * Cap /\ m \in Nat
  BY BufsAssumption
<1>3. PICK uses : uses = ChainUses(Len(Writes(m)))
  OBVIOUS
<1>4. heap \in [Chunks -> Users]
  BY CallFacts
<1>5. uses \in Seq(Uses)
  BY <1>2, <1>3, <1>4, WriterChain
<1>6. heap' = Alloc(heap, c, uses) /\ wrong' = wrong
  BY <1>3 DEF Write
<1>7. CASE call' = [call EXCEPT ![c].pc = "crashed"]
  <2>1. Alive(call[c]) /\ ~call[c].sub.on
    BY <1>1 DEF Alive, Parsed
  <2> QED BY <1>5, <1>6, <1>7, <2>1, Crashed
<1>8. CASE /\ Enough(heap, uses)
           /\ call' = [call EXCEPT ![c].pc = pc, ![c].req = Read(@),
                                   ![c].res = Chain(FreeSeq(heap), Writes(m)),
                                   ![c].resLength = m, ![c].late = @ \cup {log},
                                   ![c].dropped = call[c].res]
  <2>1. PICK bs : bs = Chain(FreeSeq(heap), Writes(m))
    OBVIOUS
  <2>2. PICK r : r = Read(k.req)
    OBVIOUS
  <2>3. call' = [call EXCEPT ![c].pc = pc, ![c].req = r, ![c].res = bs, ![c].resLength = m,
                             ![c].late = {log}, ![c].dropped = k.res]
    <3>1. call \in [Calls -> CallRec] /\ k.late \cup {log} = {log}
      BY <1>1, CallFacts
    <3>2. call' = [call EXCEPT ![c].pc = pc, ![c].req = Read(@), ![c].res = bs,
                               ![c].resLength = m, ![c].late = @ \cup {log}, ![c].dropped = k.res]
      BY <1>1, <1>8, <2>1
    <3> QED BY <1>1, <2>2, <3>1, <3>2 DEF CallRec
  <2>4. PICK q : q = [k EXCEPT !.pc = pc, !.req = r, !.res = bs, !.resLength = m,
                               !.late = {log}, !.dropped = k.res]
    OBVIOUS
  <2>5. call' = [call EXCEPT ![c] = q]
    BY <1>1, <2>3, <2>4
  <2>6. bs \in Seq(Buffer) /\ Headed(bs) /\ Grown(heap, heap', c, bs, {})
    BY <1>2, <1>3, <1>4, <1>6, <1>8, <2>1, WriterChain
  <2>7. k.req \in Seq(Buffer) /\ k.res \in Seq(Buffer)
    BY DEF CallRec
  <2>8. r \in Seq(Buffer) /\ Data(r) = Data(k.req) /\ Bufs(r) = Bufs(k.req) /\ Nodes(r) = Nodes(k.req)
    BY <2>2, <2>7, ReadFacts
  <2>9. pc \in {"answer", "forward"} /\ log \in {"forward", "finish"}
    OBVIOUS
  <2>10. /\ q \in CallRec /\ q.pc = pc /\ q.ctx = k.ctx /\ q.task = k.task /\ q.req = r
         /\ q.res = bs /\ q.dropped = k.res /\ q.lost = k.lost /\ q.late = {log}
         /\ q.sub = k.sub
    BY <1>2, <2>4, <2>6, <2>7, <2>8, <2>9 DEF CallRec, Pcs
  <2>11. Way(q)
    <3>1. Headed(r)
      BY <1>1, <2>2, <2>7, ReadFacts DEF Way
    <3> QED BY <1>1, <2>6, <2>10, <3>1 DEF Way
  <2>12. Parsed(q)
    <3>1. /\ \A b \in Range(r) : b.pos \in {0, b.len}
          /\ k.pc = "queued" => /\ \A i \in DOMAIN r : r[i].pos > 0 => i = 1
                                /\ (\A b \in Range(r) : ~b.file) => \A b \in Range(r) : b.pos = b.len
      BY <1>1, <2>2, ReadParsed
    <3>2. ~q.sub.on
      BY <1>1, <2>10 DEF Parsed
    <3> QED BY <1>1, <2>9, <2>10, <3>1, <3>2 DEF Parsed
  <2>13. heap' \in [Chunks -> Users] /\ Touches(heap, heap', c)
    BY <1>4, <1>5, <1>6, AllocTouches
  <2>14. ASSUME ~wrong' PROVE ~wrong /\ Touches(heap, heap', c) /\ Memory(heap', c, q)
    <3>1. ~wrong /\ Memory(heap, c, k)
      BY <1>1, <1>6, <2>14, CallFacts
    <3>2. Exact(heap, c, k) /\ Apart(k) /\ k.dropped = <<>>
      BY <1>1, <3>1 DEF Memory, Way
    <3>3. Unlike(r)
      <4>1. PICK n \in Nat : n = Len(k.req) /\ DOMAIN k.req = 1 .. n
        BY <2>7
      <4>2. DOMAIN r = 1 .. n /\ \A i \in 1 .. n : r[i].data = k.req[i].data
        BY <2>2, <2>7, <2>8, <4>1, ReadFacts
      <4> QED BY <3>2, <4>1, <4>2 DEF Unlike, Apart
    <3>4. Exact(heap', c, q) /\ Apart(q)
      BY <2>6, <2>8, <2>10, <3>2, <3>3, ResMemory
    <3> QED BY <2>9, <2>10, <2>13, <3>1, <3>4 DEF Memory
  <2>15. wrong' \in BOOLEAN
    BY <1>6, CallFacts
  <2> QED BY <2>5, <2>10, <2>11, <2>12, <2>13, <2>14, <2>15, Stepped
<1> QED BY <1>3, <1>7, <1>8 DEF Write

LEMMA HungStep ==
    ASSUME BufsInv, NEW c \in Calls, call[c].pc \in {"queued", "back"}, call[c].late = {},
           call' = [call EXCEPT ![c].pc = "hung"], UNCHANGED <<heap, wrong>>
    PROVE  BufsInv'
<1>1. PICK k \in CallRec : /\ k = call[c] /\ Way(k) /\ Parsed(k) /\ k.pc \in {"queued", "back"}
                           /\ k.late = {}
  BY CallFacts
<1>2. PICK q : q = [k EXCEPT !.pc = "hung"]
  OBVIOUS
<1>3. call' = [call EXCEPT ![c] = q]
  BY <1>1, <1>2
<1>4. q \in CallRec /\ Keeps(k, q)
  BY <1>2 DEF CallRec, Pcs, Keeps
<1>5. Way(q) /\ Parsed(q)
  BY <1>1, <1>2 DEF CallRec, Way, Parsed
<1>6. Alive(k) /\ q.pc = "hung"
  BY <1>1, <1>2 DEF CallRec, Alive
<1> QED BY <1>1, <1>3, <1>4, <1>5, <1>6, Moved

LEMMA RunMethodStep ==
    ASSUME BufsInv, NEW c \in Calls, NEW m \in Messages, RunMethod(c, m)
    PROVE  BufsInv'
<1>1. call[c].pc = "queued" /\ call[c].late = {}
  BY CallFacts DEF RunMethod, Way
<1>2. CASE call' = [call EXCEPT ![c].pc = "hung"] /\ UNCHANGED <<heap, wrong>>
  BY <1>1, <1>2, HungStep
<1>3. CASE ~Spins(call[c].req) /\ Write(c, m, "answer", "finish")
  BY <1>1, <1>3, WriteStep
<1>4. CASE ~Spins(call[c].req) /\ Write(c, m, "forward", "forward")
  BY <1>1, <1>4, WriteStep
<1> QED BY <1>2, <1>3, <1>4 DEF RunMethod

LEMMA FowardDoneStep ==
    ASSUME BufsInv, NEW c \in Calls, NEW m \in Messages, FowardDone(c, m)
    PROVE  BufsInv'
<1>1. call[c].pc = "back" /\ call[c].late = {}
  BY DEF FowardDone
<1>2. CASE call' = [call EXCEPT ![c].pc = "hung"] /\ UNCHANGED <<heap, wrong>>
  BY <1>1, <1>2, HungStep
<1>3. CASE ~Spins(call[c].req) /\ Write(c, m, "answer", "finish")
  BY <1>1, <1>3, WriteStep
<1> QED BY <1>2, <1>3 DEF FowardDone

LEMMA RunBadBodyStep ==
    ASSUME BufsInv, NEW c \in Calls, RunBadBody(c)
    PROVE  BufsInv'
<1>1. PICK k \in CallRec : k = call[c] /\ Way(k) /\ Parsed(k) /\ k.pc = "queued"
  BY CallFacts DEF RunBadBody
<1>2. 0 \in 0 .. 2 * Cap /\ heap \in [Chunks -> Users]
  BY BufsAssumption, CallFacts
<1>3. PICK uses : uses = ChainUses(1)
  OBVIOUS
<1>4. uses = ChainUses(Len(Writes(0)))
  <2>1. 0 <= Cap
    BY BufsAssumption
  <2>2. Writes(0) = [i \in 1 .. 1 |-> [len |-> Cap, file |-> FALSE]]
    BY <2>1 DEF Writes
  <2>3. Len(Writes(0)) = 1
    BY <2>2
  <2> QED BY <1>3, <2>3
<1>5. uses \in Seq(Uses)
  BY <1>2, <1>4, WriterChain
<1>6. heap' = Alloc(heap, c, uses) /\ wrong' = wrong
  BY <1>3 DEF RunBadBody
<1>7. CASE ~Enough(heap, uses)
  <2>1. call' = [call EXCEPT ![c].pc = "crashed"]
    BY <1>3, <1>7 DEF RunBadBody
  <2>2. Alive(call[c]) /\ ~call[c].sub.on
    BY <1>1 DEF Alive, Parsed
  <2> QED BY <1>5, <1>6, <2>1, <2>2, Crashed
<1>8. CASE Enough(heap, uses)
  <2>1. PICK bs : bs = Chain(FreeSeq(heap), Writes(0))
    OBVIOUS
  <2>2. call' = [call EXCEPT ![c].pc = "answer", ![c].res = bs, ![c].resLength = 0,
                             ![c].late = {"finish"}]
    BY <1>3, <1>8, <2>1 DEF RunBadBody
  <2>3. PICK q : q = [k EXCEPT !.pc = "answer", !.res = bs, !.resLength = 0, !.late = {"finish"}]
    OBVIOUS
  <2>4. call' = [call EXCEPT ![c] = q]
    BY <1>1, <2>2, <2>3
  <2>5. bs \in Seq(Buffer) /\ Headed(bs) /\ Grown(heap, heap', c, bs, {})
    BY <1>2, <1>4, <1>6, <1>8, <2>1, WriterChain
  <2>6. /\ q \in CallRec /\ q.pc = "answer" /\ q.ctx = k.ctx /\ q.task = k.task /\ q.req = k.req
        /\ q.res = bs /\ q.dropped = k.dropped /\ q.lost = k.lost /\ q.late = {"finish"}
        /\ q.sub = k.sub
    BY <2>3, <2>5 DEF CallRec, Pcs
  <2>7. k.res = <<>> /\ k.dropped = <<>>
    BY <1>1 DEF Way
  <2>8. Way(q)
    BY <1>1, <2>5, <2>6 DEF Way
  <2>9. Parsed(q)
    BY <1>1, <2>6 DEF Parsed
  <2>10. heap' \in [Chunks -> Users] /\ Touches(heap, heap', c)
    BY <1>2, <1>5, <1>6, AllocTouches
  <2>11. ASSUME ~wrong' PROVE ~wrong /\ Touches(heap, heap', c) /\ Memory(heap', c, q)
    <3>1. ~wrong /\ Memory(heap, c, k)
      BY <1>1, <1>6, <2>11, CallFacts
    <3>2. Exact(heap, c, k) /\ Apart(k)
      BY <1>1, <3>1 DEF Memory
    <3>3. Unlike(q.req)
      BY <2>6, <3>2 DEF Apart, Unlike
    <3>4. /\ Data(q.req) = Data(k.req) /\ Bufs(q.req) = Bufs(k.req) /\ Nodes(q.req) = Nodes(k.req)
          /\ q.dropped = k.res
      BY <2>6, <2>7
    <3>5. Exact(heap', c, q) /\ Apart(q)
      BY <2>5, <2>6, <2>7, <3>2, <3>3, <3>4, ResMemory
    <3> QED BY <2>6, <2>10, <3>1, <3>5 DEF Memory
  <2>12. wrong' \in BOOLEAN
    BY <1>6, CallFacts
  <2> QED BY <2>4, <2>6, <2>8, <2>9, <2>10, <2>11, <2>12, Stepped
<1> QED BY <1>7, <1>8

LEMMA SubCopyStep ==
    ASSUME BufsInv, NEW c \in Calls, NEW out \in Outs, SubCopy(c, out)
    PROVE  BufsInv'
<1>1. PICK k \in CallRec : k = call[c] /\ Way(k) /\ Parsed(k) /\ k.pc = "freed"
  BY CallFacts DEF SubCopy
<1>2. out \in Seq(Part)
  BY BufsAssumption, Zenon
<1>3. PICK n \in Nat : n = Len(out) /\ DOMAIN out = 1 .. n /\ \A m \in 1 .. n : out[m] \in Part
  BY <1>2
<1>4. PICK uses : uses = ChainUses(n)
  OBVIOUS
<1>5. Wanted(uses, 0, n)
  BY <1>4, ChainWanted
<1>6. uses \in Seq(Uses) /\ (n > 0 => Len(uses) = 0 + 3 * n - 1)
  BY <1>5 DEF Wanted
<1>7. PICK f : f = FreeSeq(heap)
  OBVIOUS
<1>8. heap \in [Chunks -> Users] /\ f \in Seq(Chunks)
  BY <1>7, CallFacts, FreeSeqFacts
<1>9. heap' = Alloc(heap, c, uses) /\ wrong' = wrong
  BY <1>3, <1>4 DEF SubCopy
<1>10. CASE ~Enough(heap, uses)
  <2>1. call' = [call EXCEPT ![c].pc = "crashed"]
    BY <1>3, <1>4, <1>10 DEF SubCopy
  <2>2. Alive(call[c]) /\ ~call[c].sub.on
    BY <1>1 DEF Alive, Parsed
  <2> QED BY <1>6, <1>9, <2>1, <2>2, Crashed
<1>11. CASE Enough(heap, uses)
  <2>1. PICK bs : bs = Copied(f, out)
    OBVIOUS
  <2>2. call' = [call EXCEPT ![c].pc = "back", ![c].node = Null, ![c].req = bs]
    BY <1>3, <1>4, <1>7, <1>11, <2>1 DEF SubCopy
  <2>3. ChainAt(bs, f, 0, n)
    <3>1. 0 \in {0, 1} /\ \A j \in Nat : j >= 1 /\ 0 + j <= Len(f) => f[j] = f[0 + j]
      OBVIOUS
    <3>2. n > 0 => 0 + 3 * n - 1 <= Len(f)
      BY <1>6, <1>7, <1>11 DEF Enough
    <3> QED BY <1>3, <1>8, <2>1, <3>1, <3>2, ChainFacts DEF Copied
  <2>4. bs \in Seq(Buffer) /\ Len(bs) = n /\ \A m \in 1 .. n : bs[m].pos = 0
    BY <2>3 DEF ChainAt
  <2>5. PICK q : q = [k EXCEPT !.pc = "back", !.node = Null, !.req = bs]
    OBVIOUS
  <2>6. call' = [call EXCEPT ![c] = q]
    BY <1>1, <2>2, <2>5
  <2>7. /\ q \in CallRec /\ q.pc = "back" /\ q.ctx = k.ctx /\ q.task = k.task /\ q.req = bs
        /\ q.res = k.res /\ q.dropped = k.dropped /\ q.lost = k.lost /\ q.late = k.late
        /\ q.sub = k.sub
    BY <2>4, <2>5 DEF CallRec, Pcs
  <2>8. Way(q)
    BY <1>1, <2>3, <2>7, ChainHeaded DEF Way
  <2>9. \A b \in Range(bs) : b.pos = 0
    BY <2>4, RangeFacts
  <2>10. Parsed(q)
    BY <1>1, <2>7, <2>9 DEF Parsed
  <2>11. heap' \in [Chunks -> Users] /\ Touches(heap, heap', c)
    BY <1>6, <1>8, <1>9, AllocTouches
  <2>12. ASSUME ~wrong' PROVE ~wrong /\ Touches(heap, heap', c) /\ Memory(heap', c, q)
    <3>1. ~wrong /\ Memory(heap, c, k)
      BY <1>1, <1>9, <2>12, CallFacts
    <3>2. Exact(heap, c, k) /\ Apart(k)
      BY <1>1, <3>1 DEF Memory
    <3>3. Grown(heap, heap', c, bs, {}) /\ Unlike(bs)
      <4>1. 0 \in {0, 1} /\ ChainAt(bs, FreeSeq(heap), 0, n)
        BY <1>7, <2>3
      <4>2. /\ Grown(heap, heap', c, bs, IF 0 = 1 THEN {FreeSeq(heap)[1]} ELSE {})
            /\ Unlike(bs)
        BY <1>5, <1>8, <1>9, <1>11, <4>1, NewChain
      <4>3. (IF 0 = 1 THEN {FreeSeq(heap)[1]} ELSE {}) = {}
        OBVIOUS
      <4> QED BY <4>2, <4>3
    <3>4. k.req = <<>> /\ Data(k.req) = {} /\ Bufs(k.req) = {} /\ Nodes(k.req) = {}
      BY <1>1, EmptyFacts DEF Way
    <3>5. Exact(heap', c, q)
      <4>1. Has(heap', c, "ctx") = {q.ctx} \ {Null} /\ Has(heap', c, "task") = {q.task} \ {Null}
        BY <2>7, <3>2, <3>3 DEF Exact, Grown
      <4>2. Has(heap', c, "data") = Data(q.req) \cup Data(q.res) \cup Data(q.dropped) \cup q.lost
        BY <2>7, <3>2, <3>3, <3>4 DEF Exact, Grown
      <4>3. Has(heap', c, "buf") = Bufs(q.req) \cup Bufs(q.res) \cup Bufs(q.dropped)
        BY <2>7, <3>2, <3>3, <3>4 DEF Exact, Grown
      <4>4. Has(heap', c, "node") = Nodes(q.req) \cup Nodes(q.res) \cup Nodes(q.dropped)
        BY <2>7, <3>2, <3>3, <3>4 DEF Exact, Grown
      <4> QED BY <4>1, <4>2, <4>3, <4>4 DEF Exact
    <3>6. Apart(q)
      <4>1. Data(q.req) \cap (Data(q.res) \cup Data(q.dropped) \cup q.lost) = {}
        BY <2>7, <3>2, <3>3, <3>4 DEF Exact, Grown
      <4>2. Data(q.res) \cap Data(q.dropped) = {} /\ (Data(q.res) \cup Data(q.dropped)) \cap q.lost = {}
        BY <2>7, <3>2 DEF Apart
      <4>3. Bufs(q.req) \cap (Bufs(q.res) \cup Bufs(q.dropped)) = {} /\ Bufs(q.res) \cap Bufs(q.dropped) = {}
        BY <2>7, <3>2, <3>3, <3>4 DEF Exact, Grown, Apart
      <4>4. Nodes(q.req) \cap (Nodes(q.res) \cup Nodes(q.dropped)) = {} /\ Nodes(q.res) \cap Nodes(q.dropped) = {}
        BY <2>7, <3>2, <3>3, <3>4 DEF Exact, Grown, Apart
      <4> QED BY <2>7, <3>3, <4>1, <4>2, <4>3, <4>4 DEF Apart, Unlike
    <3> QED BY <2>7, <2>11, <3>1, <3>5, <3>6 DEF Memory
  <2>13. wrong' \in BOOLEAN
    BY <1>9, CallFacts
  <2> QED BY <2>6, <2>7, <2>8, <2>10, <2>11, <2>12, <2>13, Stepped
<1> QED BY <1>10, <1>11

-----------------------------------------------------------------------------
(* ngx_slab_free *)

\* The heap g is h without the chunks of S.
Freed(h, g, S) == \A x \in Chunks : /\ x \in S => g[x] = Free
                                    /\ x \notin S => g[x] = h[x]

LEMMA FreedFacts ==
    ASSUME NEW h, NEW g, NEW S, Freed(h, g, S), NEW c
    PROVE  /\ \A u \in Uses : Has(g, c, u) = Has(h, c, u) \ S
           /\ (\A x \in S \cap Chunks : \E u \in Uses : x \in Has(h, c, u)) => Touches(h, g, c)
<1>1. ASSUME NEW u \in Uses PROVE Has(g, c, u) = Has(h, c, u) \ S
  <2>1. [call |-> c, use |-> u] # Free
    BY DEF Uses, Free
  <2>2. \A x \in Chunks : g[x] = [call |-> c, use |-> u] <=> x \notin S /\ h[x] = [call |-> c, use |-> u]
    BY <2>1, Zenon DEF Freed
  <2> QED BY <2>2 DEF Has
<1>2. ASSUME \A x \in S \cap Chunks : \E u \in Uses : x \in Has(h, c, u), NEW x \in Chunks
      PROVE  g[x] = h[x] \/ (h[x].call = c /\ g[x] = Free)
  <2>1. CASE x \in S
    <3>1. PICK u \in Uses : x \in Has(h, c, u)
      BY <1>2, <2>1
    <3>2. h[x] = [call |-> c, use |-> u]
      BY <3>1 DEF Has
    <3> QED BY <2>1, <3>2 DEF Freed
  <2>2. CASE x \notin S
    BY <2>2 DEF Freed
  <2> QED BY <2>1, <2>2
<1> QED BY <1>1, <1>2 DEF Touches

LEMMA FreeAllFacts ==
    ASSUME NEW h \in [Chunks -> Users], NEW A, NEW g, g = FreeAll(h, A)
    PROVE  /\ g \in [Chunks -> Users]
           /\ \A x \in Chunks : g[x] = IF x * Cap \in A THEN Free ELSE h[x]
  BY DEF FreeAll, Users

\* A step in which set_bufs goes on behind a stale node either frees something, and
\* that is a wrong free, or leaves the pool as it is.
LEMMA FreeMoreStep ==
    ASSUME BufsInv, NEW c \in Calls, call[c].pc = "freed", NEW A, FreeMore(c, A)
    PROVE  BufsInv'
<1>1. PICK k \in CallRec : k = call[c] /\ Way(k) /\ Parsed(k) /\ k.pc = "freed"
  BY CallFacts
<1>2. PICK q : q = [k EXCEPT !.node = Null]
  OBVIOUS
<1>3. call' = [call EXCEPT ![c] = q]
  BY <1>1, <1>2 DEF FreeMore
<1>4. q \in CallRec /\ q.pc = "freed" /\ q.node = Null
  BY <1>1, <1>2 DEF CallRec
<1>5. Way(q) /\ Parsed(q)
  BY <1>1, <1>2 DEF CallRec, Way, Parsed
<1>6. heap' = FreeAll(heap, A) /\ wrong' = (wrong \/ heap' # heap)
  BY DEF FreeMore
<1>7. heap \in [Chunks -> Users] /\ wrong \in BOOLEAN
  BY CallFacts
<1>8. heap' \in [Chunks -> Users] /\ wrong' \in BOOLEAN
  BY <1>6, <1>7, FreeAllFacts
<1>9. ASSUME ~wrong' PROVE ~wrong /\ Touches(heap, heap', c) /\ Memory(heap', c, q)
  <2>1. ~wrong /\ heap' = heap
    BY <1>6, <1>9
  <2>2. Exact(heap, c, k) /\ Apart(k)
    BY <1>1, <2>1, CallFacts DEF Memory
  <2>3. Exact(heap, c, q) /\ Apart(q)
    BY <1>2, <2>2 DEF Exact, Apart, CallRec
  <2>4. \A u \in Uses : q.node \notin Has(heap, c, u)
    BY <1>4, ChunkFacts DEF Has
  <2> QED BY <1>4, <2>1, <2>3, <2>4 DEF Touches, Memory
<1> QED BY <1>3, <1>4, <1>5, <1>8, <1>9, Stepped

LEMMA SubStaleStep ==
    ASSUME BufsInv, NEW c \in Calls, SubStale(c)
    PROVE  BufsInv'
<1>1. PICK k \in CallRec : k = call[c] /\ Way(k) /\ Parsed(k) /\ k.pc = "freed"
  BY CallFacts DEF SubStale
<1>2. CASE \E A : FreeMore(c, A)
  BY <1>1, <1>2, FreeMoreStep
<1>3. CASE call' = [call EXCEPT ![c].pc = "crashed"] /\ UNCHANGED <<heap, wrong>>
  <2>1. PICK q : q = [k EXCEPT !.pc = "crashed"]
    OBVIOUS
  <2>2. call' = [call EXCEPT ![c] = q]
    BY <1>1, <1>3, <2>1
  <2>3. q \in CallRec /\ Keeps(k, q)
    BY <2>1 DEF CallRec, Pcs, Keeps
  <2>4. Way(q) /\ Parsed(q)
    BY <1>1, <2>1 DEF CallRec, Way, Parsed
  <2>5. Alive(k) /\ q.pc = "crashed"
    BY <1>1, <2>1 DEF CallRec, Alive
  <2> QED BY <1>1, <1>3, <2>2, <2>3, <2>4, <2>5, Moved
<1> QED BY <1>2, <1>3 DEF SubStale

\* Where the frees of set_bufs fall: on the buffers, the nodes and the unread data,
\* or behind data that was read to the end of its chunk.
LEMMA OldFacts ==
    ASSUME NEW bs \in Seq(Buffer), NEW x \in Chunks, x * Cap \in OldAddresses(bs)
    PROVE  \E b \in Range(bs) : \/ x = b.buf \/ x = b.node
                                \/ x = b.data /\ b.pos = 0
                                \/ x = b.data + 1 /\ b.pos = Cap
<1>1. PICK b \in Range(bs) : x * Cap \in {Start(b) + b.pos, b.buf * Cap, b.node * Cap}
  BY DEF OldAddresses
<1>2. b \in Buffer
  BY RangeFacts
<1>3. b.buf \in Chunks /\ b.data \in Chunks /\ b.node \in {Null} \cup Chunks /\ b.pos \in 0 .. Cap
  BY <1>2 DEF Buffer
<1>4. x \in Nat /\ b.buf \in Nat /\ b.data \in Nat
  BY <1>3, ChunkFacts
<1>5. b.node \in Nat
  BY <1>3, ChunkFacts DEF Null
<1>6. CASE x * Cap = b.buf * Cap
  BY <1>4, <1>6, ChunkAddress
<1>7. CASE x * Cap = b.node * Cap
  BY <1>4, <1>5, <1>7, ChunkAddress
<1>8. CASE x * Cap = Start(b) + b.pos
  <2>1. x * Cap = b.data * Cap + b.pos
    BY <1>8 DEF Start
  <2> QED BY <1>3, <1>4, <2>1, AddressFacts
<1> QED BY <1>1, <1>6, <1>7, <1>8

LEMMA OldHeads ==
    ASSUME NEW bs, NEW b \in Range(bs)
    PROVE  /\ b.buf * Cap \in OldAddresses(bs) /\ b.node * Cap \in OldAddresses(bs)
           /\ Start(b) + b.pos \in OldAddresses(bs)
  BY DEF OldAddresses

\* A free of set_bufs that hits another chunk is one behind a chunk that was full.
LEMMA HitsFacts ==
    ASSUME NEW bs \in Seq(Buffer), \A b \in Range(bs) : b.pos \in {0, b.len},
           NEW h \in [Chunks -> Users], NEW g, g = FreeAll(h, OldAddresses(bs)),
           NEW x \in Chunks \ Meant(bs), h[x] # Free, g[x] = Free
    PROVE  \E b \in Range(bs) : b.len = Cap /\ b.pos = Cap
<1>1. x * Cap \in OldAddresses(bs)
  BY FreeAllFacts
<1>2. PICK b \in Range(bs) : \/ x = b.buf \/ x = b.node
                             \/ x = b.data /\ b.pos = 0
                             \/ x = b.data + 1 /\ b.pos = Cap
  BY <1>1, OldFacts
<1>3. b.pos = Cap
  BY <1>2 DEF Meant
<1>4. Cap # 0
  BY BufsAssumption
<1> QED BY <1>3, <1>4

\* The chunks that set_bufs frees when no free goes astray.
OldChunks(bs) == Bufs(bs) \cup Nodes(bs) \cup {b.data : b \in {y \in Range(bs) : y.pos = 0}}

LEMMA OldFreed ==
    ASSUME NEW bs \in Seq(Buffer), Unlike(bs), \A i \in DOMAIN bs : bs[i].pos > 0 => i = 1,
           NEW h \in [Chunks -> Users], NEW g, g = FreeAll(h, OldAddresses(bs)),
           \A x \in Chunks \ Meant(bs) : ~(h[x] # Free /\ g[x] = Free)
    PROVE  Freed(h, g, OldChunks(bs))
<1>1. \A x \in Chunks : g[x] = IF x * Cap \in OldAddresses(bs) THEN Free ELSE h[x]
  BY FreeAllFacts
<1>2. Range(bs) = {bs[i] : i \in DOMAIN bs} /\ Range(bs) \subseteq Buffer
  BY RangeFacts
<1>3. \A b \in Buffer : /\ b.data \in Chunks /\ b.pos \in 0 .. Cap
  BY DEF Buffer
<1>4. ASSUME NEW x \in Chunks, x \in OldChunks(bs) PROVE g[x] = Free
  <2>1. CASE x \in Bufs(bs)
    <3>1. PICK b \in Range(bs) : x = b.buf
      BY <2>1 DEF Bufs
    <3> QED BY <1>1, <3>1, OldHeads
  <2>2. CASE x \in Nodes(bs)
    <3>1. PICK b \in Range(bs) : x = b.node
      BY <2>2 DEF Nodes
    <3> QED BY <1>1, <3>1, OldHeads
  <2>3. CASE x \in {b.data : b \in {y \in Range(bs) : y.pos = 0}}
    <3>1. PICK b \in Range(bs) : x = b.data /\ b.pos = 0
      BY <2>3
    <3>2. Start(b) + b.pos = x * Cap
      <4>1. x * Cap \in Int
        BY BufsAssumption, ChunkFacts
      <4> QED BY <3>1, <4>1 DEF Start
    <3> QED BY <1>1, <3>1, <3>2, OldHeads
  <2> QED BY <1>4, <2>1, <2>2, <2>3 DEF OldChunks
<1>5. ASSUME NEW x \in Chunks, x \notin OldChunks(bs) PROVE g[x] = h[x]
  <2>1. CASE x \notin Meant(bs)
    BY <1>1, <2>1
  <2>2. CASE x \in Meant(bs)
    <3>1. x # Null
      BY ChunkFacts
    <3>2. PICK b \in Range(bs) : x \in {b.data, b.buf, b.node}
      BY <2>2 DEF Meant
    <3>3. x = b.data /\ b.pos # 0
      BY <1>5, <3>1, <3>2 DEF OldChunks, Bufs, Nodes
    <3>4. SUFFICES ASSUME x * Cap \in OldAddresses(bs) PROVE FALSE
      BY <1>1
    <3>5. PICK a \in Range(bs) : \/ x = a.buf \/ x = a.node
                                 \/ x = a.data /\ a.pos = 0
                                 \/ x = a.data + 1 /\ a.pos = Cap
      BY <3>4, OldFacts
    <3>6. x = a.data + 1 /\ a.pos = Cap
      BY <1>5, <3>1, <3>5 DEF OldChunks, Bufs, Nodes
    <3>7. PICK i \in DOMAIN bs, j \in DOMAIN bs : b = bs[i] /\ a = bs[j]
      BY <1>2
    <3>8. b.pos > 0 /\ a.pos > 0
      <4>1. b.pos \in 0 .. Cap /\ Cap > 0 /\ Cap \in Nat
        BY <1>2, <1>3, BufsAssumption
      <4> QED BY <3>3, <3>6, <4>1
    <3>9. i = 1 /\ j = 1
      BY <3>7, <3>8
    <3>10. x \in Nat /\ x = x + 1
      BY <3>3, <3>6, <3>7, <3>9, ChunkFacts
    <3> QED BY <3>10
  <2> QED BY <2>1, <2>2
<1> QED BY <1>4, <1>5 DEF Freed

LEMMA SubFreeStep ==
    ASSUME BufsInv, NEW c \in Calls, SubFree(c)
    PROVE  BufsInv'
<1>1. PICK k \in CallRec : k = call[c] /\ Way(k) /\ Parsed(k) /\ k.pc = "sub"
  BY CallFacts DEF SubFree
<1>2. PICK bs \in Seq(Buffer) : bs = k.req
  BY DEF CallRec
<1>3. PICK node : node = IF Len(bs) > 1 THEN bs[2].node ELSE Null
  OBVIOUS
<1>4. PICK lost : lost = {b.data : b \in {x \in Range(bs) : x.pos > 0}}
  OBVIOUS
<1>5. /\ heap' = FreeAll(heap, OldAddresses(bs)) /\ wrong' = (wrong \/ Hits(heap', bs))
      /\ call' = [call EXCEPT ![c].pc = "freed", ![c].sub = NoSub, ![c].req = <<>>,
                              ![c].node = node, ![c].lost = lost]
  BY <1>1, <1>2, <1>3, <1>4 DEF SubFree
<1>6. PICK q : q = [k EXCEPT !.pc = "freed", !.sub = NoSub, !.req = <<>>, !.node = node, !.lost = lost]
  OBVIOUS
<1>7. call' = [call EXCEPT ![c] = q]
  BY <1>1, <1>5, <1>6
<1>8. node \in {Null} \cup Chunks
  <2>1. Len(bs) > 1 => 2 \in DOMAIN bs
    OBVIOUS
  <2>2. Len(bs) > 1 => bs[2] \in Buffer
    BY <2>1
  <2> QED BY <1>3, <2>2 DEF Buffer
<1>9. lost \subseteq Data(bs) /\ lost \subseteq Chunks
  <2>1. Data(bs) \subseteq Chunks
    BY MembersFacts
  <2> QED BY <1>4, <2>1 DEF Data
<1>10. /\ q \in CallRec /\ q.pc = "freed" /\ q.ctx = k.ctx /\ q.task = k.task /\ q.req = <<>>
       /\ q.res = k.res /\ q.dropped = k.dropped /\ q.lost = lost /\ q.late = k.late
       /\ q.sub = NoSub /\ q.node = node
  <2>1. NoSub \in [left : Nat, length : Nat, on : BOOLEAN] /\ <<>> \in Seq(Buffer)
    BY DEF NoSub
  <2> QED BY <1>6, <1>8, <1>9, <2>1 DEF CallRec, Pcs
<1>11. Way(q)
  BY <1>1, <1>10, EmptyFacts DEF Way
<1>12. Parsed(q)
  BY <1>1, <1>10, EmptyFacts DEF Parsed, NoSub
<1>13. heap \in [Chunks -> Users] /\ wrong \in BOOLEAN
  BY CallFacts
<1>14. heap' \in [Chunks -> Users]
  BY <1>5, <1>13, FreeAllFacts
<1>15. wrong' \in BOOLEAN
  BY <1>5, <1>13 DEF Hits
<1>16. ASSUME ~wrong' PROVE ~wrong /\ Touches(heap, heap', c) /\ Memory(heap', c, q)
  <2>1. ~wrong /\ ~Hits(heap', bs)
    BY <1>5, <1>16
  <2>2. Memory(heap, c, k)
    BY <1>1, <2>1, CallFacts
  <2>3. Exact(heap, c, k) /\ Apart(k) /\ k.dropped = <<>> /\ k.lost = {}
    BY <1>1, <2>2 DEF Memory, Way
  <2>4. Data(k.dropped) = {} /\ Bufs(k.dropped) = {} /\ Nodes(k.dropped) = {}
    BY <2>3, EmptyFacts
  <2>5. PICK S : S = OldChunks(bs)
    OBVIOUS
  <2>6. Freed(heap, heap', S)
    <3>1. Unlike(bs) /\ \A i \in DOMAIN bs : bs[i].pos > 0 => i = 1
      BY <1>1, <1>2, <2>3 DEF Unlike, Apart, Parsed
    <3>2. \A x \in Chunks \ Meant(bs) : ~(heap[x] # Free /\ heap'[x] = Free)
      BY <2>1 DEF Hits
    <3> QED BY <1>5, <1>13, <2>5, <3>1, <3>2, OldFreed
  <2>7. PICK Z : Z = {b.data : b \in {y \in Range(bs) : y.pos = 0}}
    OBVIOUS
  <2>8. S = Bufs(bs) \cup Nodes(bs) \cup Z
    BY <2>5, <2>7 DEF OldChunks
  <2>9. Data(bs) = Z \cup lost /\ Z \cap lost = {}
    <3>1. Range(bs) = {bs[i] : i \in DOMAIN bs} /\ Range(bs) \subseteq Buffer
      BY RangeFacts
    <3>2. \A b \in Range(bs) : b.pos = 0 \/ b.pos > 0
      <4>1. \A b \in Buffer : b.pos \in 0 .. Cap
        BY DEF Buffer
      <4>2. \A p \in 0 .. Cap : p = 0 \/ p > 0
        OBVIOUS
      <4> QED BY <3>1, <4>1, <4>2
    <3>3. Data(bs) = Z \cup lost
      BY <1>4, <2>7, <3>2 DEF Data
    <3>4. ASSUME NEW x \in Z, x \in lost PROVE FALSE
      <4>1. PICK a \in Range(bs) : x = a.data /\ a.pos = 0
        BY <2>7
      <4>2. PICK b \in Range(bs) : x = b.data /\ b.pos > 0
        BY <1>4, <3>4
      <4>3. PICK i \in DOMAIN bs, j \in DOMAIN bs : a = bs[i] /\ b = bs[j]
        BY <3>1
      <4>4. i = j
        BY <1>2, <2>3, <4>1, <4>2, <4>3 DEF Apart
      <4> QED BY <4>1, <4>2, <4>3, <4>4
    <3> QED BY <3>3, <3>4
  <2>10. "ctx" \in Uses /\ "task" \in Uses /\ "data" \in Uses /\ "buf" \in Uses /\ "node" \in Uses
    BY DEF Uses
  <2>11. /\ Bufs(bs) \subseteq Has(heap, c, "buf") /\ Nodes(bs) \subseteq Has(heap, c, "node")
         /\ Z \subseteq Has(heap, c, "data")
    BY <1>2, <2>3, <2>9 DEF Exact
  <2>12. Touches(heap, heap', c)
    <3>1. \A x \in S \cap Chunks : \E u \in Uses : x \in Has(heap, c, u)
      BY <2>8, <2>10, <2>11
    <3> QED BY <2>6, <3>1, FreedFacts
  <2>13. \A u \in Uses : Has(heap', c, u) = Has(heap, c, u) \ S
    BY <2>6, FreedFacts, SMTT(20)
  <2>14. ASSUME NEW u \in Uses, NEW v \in Uses, u # v PROVE Has(heap, c, u) \cap Has(heap, c, v) = {}
    BY <2>14 DEF Has
  <2>15. Has(heap', c, "ctx") = {q.ctx} \ {Null} /\ Has(heap', c, "task") = {q.task} \ {Null}
    <3>1. Has(heap, c, "ctx") \cap S = {} /\ Has(heap, c, "task") \cap S = {}
      BY <2>8, <2>10, <2>11, <2>14
    <3>2. Has(heap', c, "ctx") = Has(heap, c, "ctx") /\ Has(heap', c, "task") = Has(heap, c, "task")
      BY <2>10, <2>13, <3>1
    <3> QED BY <1>10, <2>3, <3>2 DEF Exact
  <2>16. Has(heap', c, "data") = Data(q.res) \cup lost
    <3>1. Has(heap, c, "data") \cap (Bufs(bs) \cup Nodes(bs)) = {}
      BY <2>10, <2>11, <2>14
    <3>2. Has(heap', c, "data") = Has(heap, c, "data") \ Z
      BY <2>8, <2>10, <2>13, <3>1
    <3>3. Has(heap, c, "data") = Z \cup lost \cup Data(k.res) /\ Z \cap Data(k.res) = {}
      BY <1>2, <2>3, <2>4, <2>9 DEF Exact, Apart
    <3> QED BY <1>10, <2>9, <3>2, <3>3
  <2>17. Has(heap', c, "buf") = Bufs(q.res)
    <3>1. Has(heap, c, "buf") \cap (Z \cup Nodes(bs)) = {}
      BY <2>10, <2>11, <2>14
    <3>2. Has(heap', c, "buf") = Has(heap, c, "buf") \ Bufs(bs)
      BY <2>8, <2>10, <2>13, <3>1
    <3>3. Has(heap, c, "buf") = Bufs(bs) \cup Bufs(k.res) /\ Bufs(bs) \cap Bufs(k.res) = {}
      BY <1>2, <2>3, <2>4 DEF Exact, Apart
    <3> QED BY <1>10, <3>2, <3>3
  <2>18. Has(heap', c, "node") = Nodes(q.res)
    <3>1. Has(heap, c, "node") \cap (Z \cup Bufs(bs)) = {}
      BY <2>10, <2>11, <2>14
    <3>2. Has(heap', c, "node") = Has(heap, c, "node") \ Nodes(bs)
      BY <2>8, <2>10, <2>13, <3>1
    <3>3. Has(heap, c, "node") = Nodes(bs) \cup Nodes(k.res) /\ Nodes(bs) \cap Nodes(k.res) = {}
      BY <1>2, <2>3, <2>4 DEF Exact, Apart
    <3> QED BY <1>10, <3>2, <3>3
  <2>19. Exact(heap', c, q)
    BY <1>10, <2>3, <2>15, <2>16, <2>17, <2>18, EmptyFacts DEF Exact
  <2>20. Apart(q)
    <3>1. Data(q.res) \cap lost = {}
      BY <1>2, <1>9, <1>10, <2>3 DEF Apart
    <3> QED BY <1>10, <2>3, <3>1, EmptyFacts DEF Apart
  <2>21. ASSUME NEW u \in Uses PROVE node \notin Has(heap', c, u)
    <3>1. CASE node = Null
      BY <3>1, ChunkFacts DEF Has
    <3>2. CASE node # Null
      <4>1. 2 \in 1 .. Len(bs) /\ node = bs[2].node
        BY <1>3, <3>2
      <4>2. node \in Nodes(bs)
        BY <3>2, <4>1, MembersFacts
      <4> QED BY <2>8, <2>13, <4>2
    <3> QED BY <3>1, <3>2
  <2> QED BY <1>10, <2>1, <2>12, <2>19, <2>20, <2>21 DEF Memory
<1> QED BY <1>7, <1>10, <1>11, <1>12, <1>14, <1>15, <1>16, Stepped

\* The cleanups of a connection free the chunks they mean.
CloseChunks(k) == Data(k.req) \cup Data(k.res) \cup ({k.task, k.ctx} \ {Null})

LEMMA CloseFrees ==
    ASSUME BufsInv, NEW c \in Calls, Close(c)
    PROVE  /\ heap' \in [Chunks -> Users] /\ Freed(heap, heap', CloseChunks(call[c]))
           /\ wrong' = (wrong \/ \E i \in Chunks : heap[i] # Free /\ heap'[i] = Free /\ heap[i].call # c)
<1>1. PICK k \in CallRec : k = call[c] /\ Way(k)
  BY CallFacts
<1>2. PICK A : A = (IF k.task = Null THEN {}
                    ELSE DataStarts(k.req) \cup DataStarts(k.res) \cup {k.task * Cap})
                     \cup (IF k.ctx = Null THEN {} ELSE {k.ctx * Cap})
  OBVIOUS
<1>3. /\ heap' = FreeAll(heap, A)
      /\ wrong' = (wrong \/ \E i \in Chunks : heap[i] # Free /\ heap'[i] = Free /\ heap[i].call # c)
  BY <1>1, <1>2 DEF Close
<1>4. /\ k.req \in Seq(Buffer) /\ k.res \in Seq(Buffer)
      /\ k.task \in {Null} \cup Chunks /\ k.ctx \in {Null} \cup Chunks
  BY DEF CallRec
<1>5. ASSUME NEW bs \in Seq(Buffer), NEW x \in Chunks
      PROVE  x * Cap \in DataStarts(bs) <=> x \in Data(bs)
  <2>1. ASSUME x * Cap \in DataStarts(bs) PROVE x \in Data(bs)
    <3>1. PICK b \in Range(bs) : x * Cap = b.data * Cap
      BY <2>1 DEF DataStarts, Start
    <3>2. b.data \in Data(bs) /\ b.data \in Chunks
      BY <3>1, MembersFacts DEF Data
    <3>3. x = b.data
      BY <3>1, <3>2, ChunkFacts, ChunkAddress
    <3> QED BY <3>2, <3>3
  <2>2. ASSUME x \in Data(bs) PROVE x * Cap \in DataStarts(bs)
    BY <2>2 DEF DataStarts, Start, Data
  <2> QED BY <2>1, <2>2
<1>6. ASSUME NEW x \in Chunks, NEW y \in Chunks PROVE x * Cap = y * Cap <=> x = y
  BY ChunkFacts, ChunkAddress
<1>7. k.task = Null => Data(k.req) = {} /\ Data(k.res) = {}
  BY <1>1, EmptyFacts DEF Way
<1>8. ASSUME NEW x \in Chunks PROVE x * Cap \in A <=> x \in CloseChunks(k)
  <2>1. x * Cap \in DataStarts(k.req) <=> x \in Data(k.req)
    BY <1>4, <1>5
  <2>2. x * Cap \in DataStarts(k.res) <=> x \in Data(k.res)
    BY <1>4, <1>5
  <2>3. k.task # Null => (x * Cap = k.task * Cap <=> x = k.task)
    BY <1>4, <1>6
  <2>4. k.ctx # Null => (x * Cap = k.ctx * Cap <=> x = k.ctx)
    BY <1>4, <1>6
  <2>5. x # Null
    BY ChunkFacts
  <2>6. x * Cap \in A <=> (\/ k.task # Null /\ x * Cap \in DataStarts(k.req) \cup DataStarts(k.res)
                           \/ k.task # Null /\ x * Cap = k.task * Cap
                           \/ k.ctx # Null /\ x * Cap = k.ctx * Cap)
    <3>1. PICK y, t, d : y = x * Cap /\ t = k.task * Cap /\ d = k.ctx * Cap
      OBVIOUS
    <3> QED BY <1>2, <3>1
  <2>7. x \in CloseChunks(k) <=> (\/ k.task # Null /\ (x \in Data(k.req) \/ x \in Data(k.res))
                                  \/ k.task # Null /\ x = k.task
                                  \/ k.ctx # Null /\ x = k.ctx)
    BY <1>7, <2>5 DEF CloseChunks
  <2>8. x * Cap \in DataStarts(k.req) \cup DataStarts(k.res) <=> x \in Data(k.req) \/ x \in Data(k.res)
    BY <2>1, <2>2, Zenon
  <2> QED BY <2>3, <2>4, <2>6, <2>7, <2>8, Zenon
<1>9. heap \in [Chunks -> Users]
  BY CallFacts
<1>10. /\ heap' \in [Chunks -> Users]
       /\ \A x \in Chunks : heap'[x] = IF x * Cap \in A THEN Free ELSE heap[x]
  BY <1>3, <1>9, FreeAllFacts
<1>11. Freed(heap, heap', CloseChunks(k))
  BY <1>8, <1>10, Zenon DEF Freed
<1> QED BY <1>1, <1>3, <1>10, <1>11

\* The chunks that the cleanups free are the call's own.
LEMMA CloseOwn ==
    ASSUME BufsInv, NEW c \in Calls, Close(c), ~wrong
    PROVE  /\ \A x \in CloseChunks(call[c]) : \E u \in Uses : x \in Has(heap, c, u)
           /\ ~wrong'
<1>1. PICK k \in CallRec : k = call[c] /\ k.pc = "finished"
  BY CallFacts DEF Close
<1>2. Exact(heap, c, k)
  <2>1. Memory(heap, c, k)
    BY <1>1, CallFacts
  <2> QED BY <1>1, <2>1 DEF Memory
<1>3. "ctx" \in Uses /\ "task" \in Uses /\ "data" \in Uses
  BY DEF Uses
<1>4. \A x \in CloseChunks(k) : \E u \in Uses : x \in Has(heap, c, u)
  BY <1>2, <1>3 DEF CloseChunks, Exact
<1>5. ASSUME NEW i \in Chunks, heap[i] # Free, heap'[i] = Free PROVE heap[i].call = c
  <2>1. i \in CloseChunks(k)
    BY <1>1, <1>5, CloseFrees DEF Freed
  <2>2. PICK u \in Uses : i \in Has(heap, c, u)
    BY <1>4, <2>1
  <2> QED BY <2>2 DEF Has
<1>6. wrong' = (wrong \/ \E i \in Chunks : heap[i] # Free /\ heap'[i] = Free /\ heap[i].call # c)
  BY CloseFrees
<1> QED BY <1>1, <1>4, <1>5, <1>6

LEMMA CloseStep ==
    ASSUME BufsInv, NEW c \in Calls, Close(c)
    PROVE  BufsInv'
<1>1. PICK k \in CallRec : k = call[c] /\ Way(k) /\ Parsed(k) /\ k.pc = "finished"
  BY CallFacts DEF Close
<1>2. PICK q : q = [k EXCEPT !.pc = "closed"]
  OBVIOUS
<1>3. call' = [call EXCEPT ![c] = q]
  BY <1>1, <1>2 DEF Close
<1>4. q \in CallRec /\ Keeps(k, q) /\ q.pc = "closed"
  BY <1>2 DEF CallRec, Pcs, Keeps
<1>5. Way(q) /\ Parsed(q)
  BY <1>1, <1>2 DEF CallRec, Way, Parsed
<1>6. /\ heap' \in [Chunks -> Users] /\ Freed(heap, heap', CloseChunks(k))
      /\ wrong' = (wrong \/ \E i \in Chunks : heap[i] # Free /\ heap'[i] = Free /\ heap[i].call # c)
  BY <1>1, CloseFrees
<1>7. wrong' \in BOOLEAN
  BY <1>6, CallFacts
<1>8. ASSUME ~wrong' PROVE ~wrong /\ Touches(heap, heap', c) /\ Memory(heap', c, q)
  <2>1. ~wrong
    BY <1>6, <1>8
  <2>2. Exact(heap, c, k) /\ Apart(k)
    <3>1. Memory(heap, c, k)
      BY <1>1, <2>1, CallFacts
    <3> QED BY <1>1, <3>1 DEF Memory
  <2>3. Touches(heap, heap', c)
    <3>1. \A x \in CloseChunks(k) \cap Chunks : \E u \in Uses : x \in Has(heap, c, u)
      BY <1>1, <2>1, CloseOwn
    <3> QED BY <1>6, <3>1, FreedFacts
  <2>4. \A u \in Uses : Has(heap', c, u) = Has(heap, c, u) \ CloseChunks(k)
    BY <1>6, FreedFacts, SMTT(20)
  <2>5. "ctx" \in Uses /\ "task" \in Uses /\ "data" \in Uses /\ "buf" \in Uses /\ "node" \in Uses
    BY DEF Uses
  <2>6. ASSUME NEW u \in Uses, NEW v \in Uses, u # v PROVE Has(heap, c, u) \cap Has(heap, c, v) = {}
    BY <2>6 DEF Has
  <2>7. PICK D : D = Data(k.req) \cup Data(k.res)
    OBVIOUS
  <2>8. PICK T : T = {k.task} \ {Null}
    OBVIOUS
  <2>9. PICK X : X = {k.ctx} \ {Null}
    OBVIOUS
  <2>10. CloseChunks(k) = D \cup T \cup X
    BY <2>7, <2>8, <2>9 DEF CloseChunks
  <2>11. T = Has(heap, c, "task") /\ X = Has(heap, c, "ctx") /\ D \subseteq Has(heap, c, "data")
    BY <2>2, <2>7, <2>8, <2>9 DEF Exact
  <2>12. Has(heap', c, "task") = {} /\ Has(heap', c, "ctx") = {}
    BY <2>4, <2>5, <2>10, <2>11
  <2>13. Has(heap', c, "data") = Data(k.dropped) \cup k.lost
    <3>1. Has(heap', c, "data") = Has(heap, c, "data") \ D
      BY <2>4, <2>5, <2>6, <2>10, <2>11
    <3>2. Has(heap, c, "data") = D \cup (Data(k.dropped) \cup k.lost)
      BY <2>2, <2>7 DEF Exact
    <3>3. D \cap (Data(k.dropped) \cup k.lost) = {}
      BY <2>2, <2>7 DEF Apart
    <3> QED BY <3>1, <3>2, <3>3
  <2>14. Has(heap', c, "buf") = Has(heap, c, "buf") /\ Has(heap', c, "node") = Has(heap, c, "node")
    <3>1. Has(heap, c, "buf") \cap (D \cup T \cup X) = {} /\ Has(heap, c, "node") \cap (D \cup T \cup X) = {}
      BY <2>5, <2>6, <2>11
    <3> QED BY <2>4, <2>5, <2>10, <3>1
  <2>15. Leaves(heap', c, q)
    BY <1>4, <2>2, <2>12, <2>13, <2>14 DEF Leaves, Exact, Keeps
  <2> QED BY <1>4, <2>1, <2>3, <2>15 DEF Memory
<1> QED BY <1>3, <1>4, <1>5, <1>6, <1>7, <1>8, Stepped

-----------------------------------------------------------------------------
(* The theorems *)

LEMMA BufsInitially == Init => BufsInv
<1> SUFFICES ASSUME Init PROVE BufsInv
  OBVIOUS
<1>1. PICK k : k = [pc |-> "none", ctx |-> Null, task |-> Null, req |-> <<>>, res |-> <<>>,
                    resLength |-> 0, late |-> {}, sub |-> NoSub, node |-> Null,
                    dropped |-> <<>>, lost |-> {}]
  OBVIOUS
<1>2. call = [c \in Calls |-> k] /\ heap = [x \in Chunks |-> Free] /\ wrong = FALSE
  BY <1>1 DEF Init
<1>3. k \in CallRec
  <2>1. NoSub \in [left : Nat, length : Nat, on : BOOLEAN] /\ <<>> \in Seq(Buffer)
    BY DEF NoSub
  <2> QED BY <1>1, <2>1 DEF CallRec, Pcs
<1>4. heap \in [Chunks -> Users] /\ call \in [Calls -> CallRec] /\ wrong \in BOOLEAN
  BY <1>2, <1>3 DEF Users
<1>5. Way(k) /\ Parsed(k)
  BY <1>1, EmptyFacts DEF Way, Parsed, NoSub
<1>6. ASSUME NEW c \in Calls PROVE Memory(heap, c, k)
  <2>1. ASSUME NEW u \in Uses PROVE Has(heap, c, u) = {}
    <3>1. [call |-> c, use |-> u] # Free
      BY DEF Uses, Free
    <3> QED BY <1>2, <3>1 DEF Has
  <2>2. "ctx" \in Uses /\ "task" \in Uses /\ "data" \in Uses /\ "buf" \in Uses /\ "node" \in Uses
    BY DEF Uses
  <2>3. Exact(heap, c, k)
    BY <1>1, <2>1, <2>2, EmptyFacts DEF Exact
  <2>4. Apart(k)
    BY <1>1, EmptyFacts DEF Apart
  <2> QED BY <1>1, <2>3, <2>4 DEF Memory
<1> QED BY <1>2, <1>4, <1>5, <1>6 DEF BufsInv

\* The inductive invariant of the pool: the way of every call, how far its request
\* has been read, and, until a free goes wrong, exactly which chunks are its own.
THEOREM BufsInvariant == Spec => []BufsInv
<1>1. Init => BufsInv
  BY BufsInitially
<1>2. BufsInv /\ [Next]_vars => BufsInv'
  <2> SUFFICES ASSUME BufsInv, [Next]_vars PROVE BufsInv'
    OBVIOUS
  <2>1. ASSUME NEW c \in Calls, Begin(c) PROVE BufsInv'
    BY <2>1, BeginStep
  <2>2. ASSUME NEW c \in Calls, NoBody(c) PROVE BufsInv'
    BY <2>2, NoBodyStep
  <2>3. ASSUME NEW c \in Calls, NEW body \in Bodies, Post(c, body) PROVE BufsInv'
    BY <2>3, PostStep
  <2>4. ASSUME NEW c \in Calls, NEW m \in Messages, RunMethod(c, m) PROVE BufsInv'
    BY <2>4, RunMethodStep
  <2>5. ASSUME NEW c \in Calls, RunBadBody(c) PROVE BufsInv'
    BY <2>5, RunBadBodyStep
  <2>6. ASSUME NEW c \in Calls, LateLog(c) PROVE BufsInv'
    BY <2>6, LateLogStep
  <2>7. ASSUME NEW c \in Calls, Foward(c) PROVE BufsInv'
    BY <2>7, FowardStep
  <2>8. ASSUME NEW c \in Calls, SubFailed(c) PROVE BufsInv'
    BY <2>8, SubFailedStep
  <2>9. ASSUME NEW c \in Calls, SubFree(c) PROVE BufsInv'
    BY <2>9, SubFreeStep
  <2>10. ASSUME NEW c \in Calls, NEW out \in Outs, SubCopy(c, out) PROVE BufsInv'
    BY <2>10, SubCopyStep
  <2>11. ASSUME NEW c \in Calls, SubStale(c) PROVE BufsInv'
    BY <2>11, SubStaleStep
  <2>12. ASSUME NEW c \in Calls, NEW m \in Messages, FowardDone(c, m) PROVE BufsInv'
    BY <2>12, FowardDoneStep
  <2>13. ASSUME NEW c \in Calls, Finish(c) PROVE BufsInv'
    BY <2>13, FinishStep
  <2>14. ASSUME NEW c \in Calls, Close(c) PROVE BufsInv'
    BY <2>14, CloseStep
  <2>15. CASE UNCHANGED vars
    BY <2>15 DEF vars, BufsInv
  <2> QED BY <2>1, <2>2, <2>3, <2>4, <2>5, <2>6, <2>7, <2>8, <2>9, <2>10, <2>11, <2>12, <2>13,
             <2>14, <2>15 DEF Next
<1> QED BY <1>1, <1>2, PTL DEF Spec

\* Every chunk has one user, and no buffer holds more than its chunk: the copy in
\* set_bufs never writes behind what it allocated.
THEOREM BufsTypeOK == Spec => []TypeOK
<1>1. BufsInv => TypeOK
  <2> SUFFICES ASSUME BufsInv PROVE TypeOK
    OBVIOUS
  <2>1. heap \in [Chunks -> {Free} \cup [call : Calls, use : Uses]] /\ wrong \in BOOLEAN
    BY DEF BufsInv, Users
  <2>2. ASSUME NEW c \in Calls
        PROVE  /\ call[c].ctx \in {Null} \cup Chunks /\ call[c].task \in {Null} \cup Chunks
               /\ Range(call[c].req) \subseteq Buffer /\ Range(call[c].res) \subseteq Buffer
               /\ call[c].late \subseteq {"forward", "finish"}
    <3>1. PICK k \in CallRec : k = call[c]
      BY CallFacts
    <3>2. /\ k.ctx \in {Null} \cup Chunks /\ k.task \in {Null} \cup Chunks
          /\ k.req \in Seq(Buffer) /\ k.res \in Seq(Buffer) /\ k.late \subseteq {"forward", "finish"}
      BY DEF CallRec
    <3>3. Range(k.req) \subseteq Buffer /\ Range(k.res) \subseteq Buffer
      BY <3>2, RangeFacts
    <3> QED BY <3>1, <3>2, <3>3
  <2> QED BY <2>1, <2>2 DEF TypeOK
<1> QED BY <1>1, BufsInvariant, PTL

\* Until a free goes wrong, an open task points only to memory of its own: neither
\* set_bufs nor the cleanup of another call has taken anything from under it.
THEOREM BufsOwnMemory == Spec => []OwnMemory
<1>1. BufsInv => OwnMemory
  <2> SUFFICES ASSUME BufsInv, ~wrong, NEW c \in Calls, Open(c)
               PROVE  LET req == call[c].req
                          res == call[c].res
                      IN  /\ Owns(c, call[c].task, "task") /\ Owns(c, call[c].ctx, "ctx")
                          /\ \A b \in Range(req) \cup Range(res) :
                                /\ Owns(c, b.buf, "buf") /\ Owns(c, b.data, "data")
                                /\ b.node # Null => Owns(c, b.node, "node")
                          /\ Data(req) \cap Data(res) = {} /\ Bufs(req) \cap Bufs(res) = {}
                          /\ Nodes(req) \cap Nodes(res) = {}
    BY DEF OwnMemory
  <2>1. PICK k \in CallRec : k = call[c] /\ Way(k) /\ Memory(heap, c, k)
    BY CallFacts
  <2>2. Exact(heap, c, k) /\ Apart(k) /\ k.task # Null /\ k.ctx # Null
    BY <2>1 DEF Open, Memory, Way
  <2>3. \A u, x : x \in Has(heap, c, u) => Owns(c, x, u)
    BY DEF Has, Owns
  <2>4. k.task \in Has(heap, c, "task") /\ k.ctx \in Has(heap, c, "ctx")
    BY <2>2 DEF Exact
  <2>5. ASSUME NEW b \in Range(k.req) \cup Range(k.res)
        PROVE  /\ b.buf \in Has(heap, c, "buf") /\ b.data \in Has(heap, c, "data")
               /\ b.node # Null => b.node \in Has(heap, c, "node")
    <3>1. /\ b.buf \in Bufs(k.req) \cup Bufs(k.res) /\ b.data \in Data(k.req) \cup Data(k.res)
          /\ b.node # Null => b.node \in Nodes(k.req) \cup Nodes(k.res)
      BY DEF Bufs, Data, Nodes
    <3> QED BY <2>2, <3>1 DEF Exact
  <2>6. /\ Data(k.req) \cap Data(k.res) = {} /\ Bufs(k.req) \cap Bufs(k.res) = {}
        /\ Nodes(k.req) \cap Nodes(k.res) = {}
    BY <2>2 DEF Apart
  <2> QED BY <2>1, <2>3, <2>4, <2>5, <2>6
<1> QED BY <1>1, BufsInvariant, PTL

\* What a closed call has left in the pool, to the chunk.
THEOREM BufsLeftBehind == Spec => []LeftBehind
<1>1. BufsInv => LeftBehind
  <2> SUFFICES ASSUME BufsInv, ~wrong, NEW c \in Calls, call[c].pc = "closed"
               PROVE  LET k == call[c]
                      IN  /\ Kept(c, "task") = {} /\ Kept(c, "ctx") = {}
                          /\ Kept(c, "data") = Data(k.dropped) \cup k.lost
                          /\ Kept(c, "buf") = Bufs(k.req) \cup Bufs(k.res) \cup Bufs(k.dropped)
                          /\ Kept(c, "node") = Nodes(k.req) \cup Nodes(k.res) \cup Nodes(k.dropped)
    BY DEF LeftBehind
  <2>1. Leaves(heap, c, call[c])
    BY CallFacts DEF Memory
  <2>2. \A u : Kept(c, u) = Has(heap, c, u)
    BY DEF Kept, Owns, Has
  <2> QED BY <2>1, <2>2 DEF Leaves
<1> QED BY <1>1, BufsInvariant, PTL

\* The task that forward_request still logs is there, whatever the other processes
\* have done since it was pushed.
THEOREM BufsLogAfterForward == Spec => []LogAfterForward
<1>1. BufsInv => LogAfterForward
  <2> SUFFICES ASSUME BufsInv, NEW c \in Calls, ~wrong, "forward" \in call[c].late
               PROVE  Owns(c, call[c].task, "task")
    BY DEF LogAfterForward
  <2>1. PICK k \in CallRec : k = call[c] /\ Way(k) /\ Memory(heap, c, k)
    BY CallFacts
  <2>2. k.task # Null /\ k.pc # "closed"
    BY <2>1 DEF Way
  <2>3. k.task \in Has(heap, c, "task")
    BY <2>1, <2>2, TaskThere DEF Memory, Alive
  <2> QED BY <2>1, <2>3 DEF Has, Owns
<1> QED BY <1>1, BufsInvariant, PTL

\* A forwarded call sends the body that its own parser has consumed, under the length
\* of the message that was serialized.
THEOREM BufsBodyIsConsumed == Spec => []BodyIsConsumed
<1>1. BufsInv => BodyIsConsumed
  <2> SUFFICES ASSUME BufsInv, NEW c \in Calls, call[c].sub.on,
                      \A b \in Range(call[c].req) : ~b.file
               PROVE  call[c].sub.left = call[c].sub.length <=> call[c].sub.length = 0
    BY DEF BodyIsConsumed
  <2>1. call[c].sub.left = 0
    BY CallFacts DEF Parsed
  <2> QED BY <2>1
<1> QED BY <1>1, BufsInvariant, PTL

\* A node that is not the last of its chain is in a chain of three buffers or more.
LEMMA RestFacts ==
    ASSUME NEW bs \in Seq(Buffer), Headed(bs), NEW k \in Chunks, NEW a,
           a \in OldAddresses(Rest(bs, k))
    PROVE  Len(bs) > 2 /\ k \in Nodes(bs)
<1>1. k # Null /\ DOMAIN bs = 1 .. Len(bs) /\ Len(bs) \in Nat
  BY ChunkFacts
<1>2. PICK J : J = {j \in DOMAIN bs : \E i \in 1 .. j - 1 : bs[i].node = k}
  OBVIOUS
<1>3. J # {}
  <2>1. PICK b \in Range(Rest(bs, k)) : TRUE
    BY DEF OldAddresses
  <2>2. DOMAIN Rest(bs, k) = J
    BY <1>2 DEF Rest, Restrict
  <2> QED BY <2>1, <2>2 DEF Range
<1>3a. PICK j \in 1 .. Len(bs) : \E i \in 1 .. j - 1 : bs[i].node = k
  BY <1>1, <1>2, <1>3
<1>4. PICK i \in 1 .. j - 1 : bs[i].node = k
  BY <1>3a
<1>5. i # 1
  BY <1>1, <1>4 DEF Headed
<1>6. i \in 1 .. Len(bs) /\ Len(bs) > 2
  BY <1>1, <1>4, <1>5
<1>7. k \in Nodes(bs)
  BY <1>1, <1>4, <1>6, MembersFacts
<1> QED BY <1>6, <1>7

\* A free behind a stale node is a free of what another call has put there.
LEMMA StaleFacts ==
    ASSUME BufsInv, NEW c \in Calls, SubStale(c), ~wrong, wrong'
    PROVE  /\ call[c].pc = "freed" /\ call'[c].pc = "freed" /\ call[c].node # Null
           /\ heap[call[c].node] # Free /\ heap[call[c].node].call # c
           /\ InChain(call[c].node) =>
                 \E bs \in Chains : Len(bs) > 2 /\ call[c].node \in Nodes(bs)
<1>1. PICK x : x = call[c].node
  OBVIOUS
<1>2. call[c].pc = "freed" /\ x # Null /\ heap[x] # Free
  BY <1>1 DEF SubStale
<1>3. call \in [Calls -> CallRec] /\ heap \in [Chunks -> Users] /\ Memory(heap, c, call[c])
  BY CallFacts
<1>4. x \in Chunks
  BY <1>1, <1>2, <1>3 DEF CallRec
<1>5. heap[x].call # c
  <2>1. PICK u \in Uses : heap[x] = [call |-> heap[x].call, use |-> u]
    BY <1>2, <1>3, <1>4 DEF Users
  <2>2. x \notin Has(heap, c, u)
    BY <1>1, <1>2, <1>3 DEF Memory
  <2> QED BY <1>4, <2>1, <2>2 DEF Has
<1>6. PICK A : FreeMore(c, A) /\ (InChain(x) => A = Behind(x))
  BY <1>1 DEF SubStale
<1>7. call'[c].pc = "freed"
  BY <1>2, <1>3, <1>6 DEF FreeMore, CallRec
<1>8. ASSUME InChain(x) PROVE \E bs \in Chains : Len(bs) > 2 /\ x \in Nodes(bs)
  <2>1. heap' = FreeAll(heap, Behind(x)) /\ heap' # heap
    BY <1>6, <1>8 DEF FreeMore
  <2>2. PICK a : a \in Behind(x)
    <3>1. SUFFICES ASSUME Behind(x) = {} PROVE heap' = heap
      BY <2>1
    <3> QED BY <1>3, <2>1, <3>1 DEF FreeAll
  <2>3. PICK bs \in Chains : a \in OldAddresses(Rest(bs, x))
    BY <2>2 DEF Behind
  <2>4. bs \in Seq(Buffer) /\ Headed(bs)
    <3>1. PICK d \in Calls : bs \in {call[d].req, call[d].res, call[d].dropped}
      BY <2>3 DEF Chains
    <3>2. call[d] \in CallRec /\ Way(call[d])
      BY CallFacts
    <3> QED BY <3>1, <3>2 DEF CallRec, Way
  <2> QED BY <1>4, <2>3, <2>4, RestFacts
<1> QED BY <1>1, <1>2, <1>5, <1>7, <1>8

\* A free hits a chunk that is not meant only in set_bufs: behind a full, fully parsed
\* body, or through the next of a freed node that is another call's by then.
THEOREM BufsWrongFree == Spec => WrongFreeInSetBufs
<1>1. ASSUME BufsInv, [Next]_vars, ~wrong, wrong'
      PROVE  \E c \in Calls :
                /\ call'[c].pc = "freed"
                /\ \/ /\ call[c].pc = "sub"
                      /\ \E b \in Range(call[c].req) : b.len = Cap /\ b.pos = Cap
                   \/ /\ call[c].pc = "freed" /\ call[c].node # Null
                      /\ heap[call[c].node] # Free /\ heap[call[c].node].call # c
                      /\ InChain(call[c].node) =>
                            \E bs \in Chains : Len(bs) > 2 /\ call[c].node \in Nodes(bs)
  <2>1. PICK c \in Calls : SubFree(c) \/ SubStale(c) \/ Close(c)
    <3>1. ASSUME NEW c \in Calls,
                 \/ Begin(c) \/ NoBody(c) \/ RunBadBody(c) \/ LateLog(c) \/ Foward(c)
                 \/ SubFailed(c) \/ Finish(c)
          PROVE  wrong' = wrong
      BY <3>1 DEF Begin, NoBody, RunBadBody, LateLog, Foward, SubFailed, Finish
    <3>2. \A c \in Calls, body \in Bodies : Post(c, body) => wrong' = wrong
      BY DEF Post
    <3>3. \A c \in Calls, m \in Messages : RunMethod(c, m) \/ FowardDone(c, m) => wrong' = wrong
      BY DEF RunMethod, FowardDone, Write
    <3>4. \A c \in Calls, out \in Outs : SubCopy(c, out) => wrong' = wrong
      BY DEF SubCopy
    <3>5. UNCHANGED vars => wrong' = wrong
      BY DEF vars
    <3> QED BY <1>1, <3>1, <3>2, <3>3, <3>4, <3>5, Zenon DEF Next
  <2>2. CASE Close(c)
    BY <1>1, <2>2, CloseOwn
  <2>3. CASE SubStale(c)
    BY <1>1, <2>3, StaleFacts, Zenon
  <2>4. CASE SubFree(c)
    <3>1. PICK k \in CallRec : k = call[c] /\ Parsed(k) /\ k.pc = "sub"
      BY <1>1, <2>4, CallFacts DEF SubFree
    <3>2. PICK bs \in Seq(Buffer) : bs = k.req
      BY DEF CallRec
    <3>3. heap' = FreeAll(heap, OldAddresses(bs)) /\ Hits(heap', bs) /\ call'[c].pc = "freed"
      <4>1. call \in [Calls -> CallRec]
        BY <1>1, CallFacts
      <4>2. /\ heap' = FreeAll(heap, OldAddresses(bs)) /\ wrong' = (wrong \/ Hits(heap', bs))
        BY <2>4, <3>1, <3>2 DEF SubFree
      <4>3. call'[c].pc = "freed"
        BY <2>4, <4>1 DEF SubFree, CallRec
      <4> QED BY <1>1, <4>2, <4>3
    <3>4. PICK x \in Chunks \ Meant(bs) : heap[x] # Free /\ heap'[x] = Free
      BY <3>3 DEF Hits
    <3>5. heap \in [Chunks -> Users] /\ \A b \in Range(bs) : b.pos \in {0, b.len}
      BY <1>1, <3>1, <3>2, CallFacts DEF Parsed
    <3>6. \E b \in Range(bs) : b.len = Cap /\ b.pos = Cap
      BY <3>3, <3>4, <3>5, HitsFacts
    <3> QED BY <3>1, <3>2, <3>3, <3>6
  <2> QED BY <2>1, <2>2, <2>3, <2>4
<1> QED BY <1>1, BufsInvariant, PTL DEF Spec, WrongFreeInSetBufs
=============================================================================
