-------------------------- MODULE RpcStreamsProofs --------------------------
(***************************************************************************)
(* The protobuf streams are right for messages of any size, any number of  *)
(* messages and chains of any length.                                      *)
(***************************************************************************)
EXTENDS RpcStreams, TLAPS

WriterBufs == [pos : Int, last : Int, end : Int, last_buf : BOOLEAN]
ReaderBufs == [pos : Int, last : Nat, in_file : BOOLEAN]

ShapeInv ==
    /\ class \in {"pool", "shm", "reader"}
    /\ class = "reader" => bufs \in Seq(ReaderBufs)
    /\ class # "reader" => bufs \in Seq(WriterBufs)
    /\ cells \in Seq(Int \X Int)
    /\ totaly \in Int /\ extends \in Nat /\ n \in Nat /\ messages \in Nat /\ written \in Nat
    /\ chunk \in Int /\ from \in Int /\ astray \in BOOLEAN

-----------------------------------------------------------------------------
(* The writers *)

Fits(b) == 0 <= b.pos /\ b.pos <= b.last /\ b.last <= b.end

\* Where a writer is, and that it counts what the client has kept.
WriterInv ==
    /\ pc \in {"idle", "writing", "aborted"}
    /\ chain = IF class = "pool" /\ bufs # <<>> THEN Len(bufs) ELSE 1
    /\ extends = Len(bufs) + 1 /\ n <= written
    /\ totaly = IF pc = "writing" THEN written - n + Len(cells) ELSE written
    /\ messages = 0 => bufs = <<>> /\ pc = "idle"
    /\ pc # "aborted" => \A i \in DOMAIN bufs : Fits(bufs[i])

\* The bytes of a chain of buffers; Contents is Bytes(bufs).
Bytes(bs) == UNION {{i} \X (bs[i].pos..(bs[i].last - 1)) : i \in DOMAIN bs}

\* The cells cs of a message of k bytes: the last of them are those of the last
\* buffer, all of it, and the surplus is not more.
Ends(cs, k, L, b) ==
    LET size == b.last - b.pos
    IN  /\ b.last = b.end /\ size <= Len(cs) /\ Len(cs) - k <= size
        /\ \A j \in 1..Len(cs) :
              IF j <= Len(cs) - size THEN cs[j][1] < L
              ELSE cs[j] = <<L, b.last - (Len(cs) - j) - 1>>

\* They are the end of the chain; a first message has nothing before it.
Given(cs, bs, k, m) ==
    /\ bs # <<>>
    /\ Ends(cs, k, Len(bs), bs[Len(bs)])
    /\ IsLast(cs, Bytes(bs))
    /\ m = 1 => IsAll(cs, Bytes(bs))

\* So it is while a message is written, whichever writer it is.
GivenInv ==
    pc = "writing" => /\ cells = <<>> /\ messages = 1 => bufs = <<>>
                      /\ cells # <<>> => Given(cells, bufs, n, messages)

\* The message is still there when the surplus has been given back, if BackUp
\* has worked on the last buffer.
KeptInv ==
    pc # "writing" /\ (class = "pool" \/ Len(bufs) <= 1) =>
      /\ pc = "idle" /\ IsLast(cells, Contents)
      /\ messages = 1 => IsAll(cells, Contents)

-----------------------------------------------------------------------------
(* The reader *)

At(bs, i) == IF i \in DOMAIN bs THEN bs[i].pos ELSE 0

ReaderInv ==
    /\ pc \in {"ready", "end", "failed", "spin", "crashed"}
    /\ pc \in {"ready", "end", "spin"} => chain = 1
    /\ pc = "failed" => chain \in {1} \union DOMAIN bufs
    /\ pc = "crashed" => chain = Null
    /\ totaly = 0
    /\ chunk > 0 => 1 \in DOMAIN bufs
    /\ \A i \in DOMAIN bufs : bufs[i].pos <= bufs[i].last
    /\ pc = "end" => AtEnd
    /\ pc = "spin" => Len(bufs) >= 2 /\ Over(1) /\ Over(2)

\* Nothing is read of the buffers bs but the first two, which are in memory, the
\* second after the first; cs is what was read.
Placed(cs, bs) ==
    /\ \A i \in DOMAIN bs : /\ 0 <= bs[i].pos
                            /\ i > 2 => bs[i].pos = 0
                            /\ bs[i].pos > 0 => \A j \in 1..i : ~bs[j].in_file
    /\ At(bs, 2) > 0 => bs[1].pos = bs[1].last
    /\ Len(cs) = At(bs, 1) + At(bs, 2)
    /\ \A j \in 1..Len(cs) :
          cs[j] = IF j <= At(bs, 1) THEN <<1, j - 1>> ELSE <<2, j - At(bs, 1) - 1>>

\* So it is as long as BackUp was called for the buffer of chain only.
PlaceInv ==
    ~astray => /\ Placed(cells, bufs)
               /\ chunk > 0 /\ from = 1 => chunk <= bufs[1].pos /\ At(bufs, 2) = 0

StreamsInv ==
    /\ ShapeInv
    /\ class # "reader" => WriterInv /\ GivenInv /\ KeptInv /\ MarksAtTheEnd
    /\ class = "reader" => ReaderInv /\ PlaceInv
-----------------------------------------------------------------------------
(* Sequences of cells *)

LEMMA RunFacts ==
    ASSUME NEW i \in Int, NEW o \in Int, NEW k \in Nat
    PROVE  /\ Run(i, o, k) \in Seq(Int \X Int) /\ Len(Run(i, o, k)) = k
           /\ \A j \in 1..k : Run(i, o, k)[j] = <<i, o + j - 1>>
<1>1. \A j \in 1..k : <<i, o + j - 1>> \in Int \X Int
  OBVIOUS
<1>2. Run(i, o, k) \in [1..k -> Int \X Int]
  BY <1>1 DEF Run
<1>3. Run(i, o, k) \in Seq(Int \X Int)
  BY <1>2
<1>4. DOMAIN Run(i, o, k) = 1..k
  BY DEF Run
<1>5. Len(Run(i, o, k)) = k
  BY <1>3, <1>4
<1> QED BY <1>3, <1>5 DEF Run

LEMMA ConcatFacts ==
    ASSUME NEW C, NEW s \in Seq(C), NEW t \in Seq(C)
    PROVE  /\ s \o t \in Seq(C) /\ Len(s \o t) = Len(s) + Len(t)
           /\ Len(s) \in Nat /\ Len(t) \in Nat
           /\ DOMAIN s = 1..Len(s) /\ DOMAIN (s \o t) = 1..(Len(s) + Len(t))
           /\ \A j \in 1..Len(s) : (s \o t)[j] = s[j]
           /\ \A j \in 1..(Len(s) + Len(t)) : j > Len(s) => (s \o t)[j] = t[j - Len(s)]
  OBVIOUS

\* The cells ds are cs and then k cells of buffer i from offset o.
Joined(ds, cs, i, o, k) ==
    /\ ds \in Seq(Int \X Int) /\ Len(ds) = Len(cs) + k /\ Len(cs) \in Nat
    /\ DOMAIN cs = 1..Len(cs) /\ DOMAIN ds = 1..(Len(cs) + k)
    /\ \A j \in 1..Len(cs) : ds[j] = cs[j]
    /\ \A j \in 1..(Len(cs) + k) : j > Len(cs) => ds[j] = <<i, o + (j - Len(cs)) - 1>>

LEMMA JoinFacts ==
    ASSUME NEW cs \in Seq(Int \X Int), NEW i \in Int, NEW o \in Int, NEW k \in Nat
    PROVE  Joined(cs \o Run(i, o, k), cs, i, o, k)
<1> DEFINE r == Run(i, o, k)
           ds == cs \o r
<1>1. /\ r \in Seq(Int \X Int) /\ Len(r) = k
      /\ \A j \in 1..k : r[j] = <<i, o + j - 1>>
  BY RunFacts
<1> HIDE DEF r
<1>2. /\ ds \in Seq(Int \X Int) /\ Len(ds) = Len(cs) + k /\ Len(cs) \in Nat
      /\ DOMAIN cs = 1..Len(cs) /\ DOMAIN ds = 1..(Len(cs) + k)
      /\ \A j \in 1..Len(cs) : ds[j] = cs[j]
  BY ZenonT(40), <1>1, ConcatFacts
<1>3. \A j \in 1..(Len(cs) + k) : j > Len(cs) => ds[j] = r[j - Len(cs)]
  BY <1>1, ConcatFacts
<1>4. ASSUME NEW j \in 1..(Len(cs) + k), j > Len(cs)
      PROVE  ds[j] = <<i, o + (j - Len(cs)) - 1>>
  <2>1. j - Len(cs) \in 1..k
    BY <1>2, <1>4
  <2> QED BY <1>1, <1>3, <1>4, <2>1
<1> QED BY <1>2, <1>4 DEF r, Joined

\* The client gets k cells of buffer i, from which it has none, and there is
\* nothing behind it.
Grows(cs, S, i, o, k) ==
    /\ InOrder(cs)
    /\ \A j \in DOMAIN cs : cs[j] \in S /\ cs[j][1] < i
    /\ \A j \in DOMAIN cs : \A b \in S : Before(cs[j], b) /\ b[1] < i => b \in Range(cs)
    /\ \A b \in S : b[1] <= i
    /\ \A b \in Int \X Int : b[1] = i => (b \in S <=> o <= b[2] /\ b[2] < o + k)

LEMMA GrowLast ==
    ASSUME NEW cs \in Seq(Int \X Int), NEW i \in Int, NEW o \in Int, NEW k \in Nat,
           NEW S \in SUBSET (Int \X Int), Grows(cs, S, i, o, k)
    PROVE  /\ IsLast(cs \o Run(i, o, k), S)
           /\ (\A b \in S : b[1] < i => b \in Range(cs)) => IsAll(cs \o Run(i, o, k), S)
<1>a. Joined(cs \o Run(i, o, k), cs, i, o, k)
  BY JoinFacts
<1>b. PICK ds : ds = cs \o Run(i, o, k)
  OBVIOUS
<1>1. /\ Len(ds) = Len(cs) + k /\ Len(cs) \in Nat
      /\ DOMAIN cs = 1..Len(cs) /\ DOMAIN ds = 1..(Len(cs) + k)
      /\ \A j \in 1..Len(cs) : ds[j] = cs[j]
      /\ \A j \in 1..(Len(cs) + k) : j > Len(cs) => ds[j] = <<i, o + (j - Len(cs)) - 1>>
  BY <1>a, <1>b DEF Joined
<1>2. InOrder(ds)
  <2> SUFFICES ASSUME NEW j \in DOMAIN ds, NEW m \in DOMAIN ds, j < m
               PROVE  Before(ds[j], ds[m])
    BY DEF InOrder
  <2>1. j \in 1..(Len(cs) + k) /\ m \in 1..(Len(cs) + k) /\ j \in Int /\ m \in Int
    BY <1>1
  <2>2. CASE m <= Len(cs)
    BY SMTT(20), <1>1, <2>1, <2>2 DEF InOrder, Grows
  <2>3. CASE j <= Len(cs) /\ m > Len(cs)
    <3>1. ds[j] = cs[j] /\ cs[j][1] < i /\ ds[m] = <<i, o + (m - Len(cs)) - 1>>
      BY SMTT(20), <1>1, <2>1, <2>3 DEF Grows
    <3> QED BY <3>1 DEF Before
  <2>4. CASE j > Len(cs)
    <3>1. ds[j] = <<i, o + (j - Len(cs)) - 1>> /\ ds[m] = <<i, o + (m - Len(cs)) - 1>>
      BY <1>1, <2>1, <2>4
    <3>2. o + (j - Len(cs)) - 1 < o + (m - Len(cs)) - 1
      BY <1>1, <2>1
    <3> QED BY <3>1, <3>2 DEF Before
  <2> QED BY <1>1, <2>1, <2>2, <2>3, <2>4
<1>3. \A b \in Range(cs) : b \in Range(ds)
  BY <1>1 DEF Range
<1>4. ASSUME NEW b \in S, b[1] = i PROVE b \in Range(ds)
  <2>1. b = <<i, b[2]>> /\ b[2] \in Int /\ o <= b[2] /\ b[2] < o + k
    BY <1>4 DEF Grows
  <2>2. PICK x \in Int : x = b[2]
    BY <2>1
  <2>2a. o <= x /\ x < o + k /\ b = <<i, x>> /\ Len(cs) \in Nat
    BY <1>1, <2>1, <2>2
  <2>3. PICK j \in Int : j = Len(cs) + ((x - o) + 1)
    <3>1. \A c \in Nat : c + ((x - o) + 1) \in Int
      OBVIOUS
    <3> QED BY <2>2a, <3>1, Zenon
  <2>4. j \in 1..(Len(cs) + k) /\ j > Len(cs) /\ o + (j - Len(cs)) - 1 = x
    BY <2>2a, <2>3
  <2>5. ds[j] = b /\ j \in DOMAIN ds
    BY <1>1, <2>2a, <2>4
  <2> QED BY <2>5 DEF Range
<1>5. \A j \in DOMAIN ds : ds[j] \in S
  <2> SUFFICES ASSUME NEW j \in DOMAIN ds PROVE ds[j] \in S
    OBVIOUS
  <2>1. CASE j <= Len(cs)
    BY <1>1, <2>1 DEF Grows
  <2>2. CASE j > Len(cs)
    <3>1. ds[j] = <<i, o + (j - Len(cs)) - 1>> /\ j \in Int /\ j <= Len(cs) + k
      BY <1>1, <2>2
    <3>2. PICK x \in Int : x = o + (j - Len(cs)) - 1
      BY <1>1, <3>1
    <3>3. o <= x /\ x < o + k
      BY <1>1, <2>2, <3>1, <3>2
    <3>4. <<i, x>> \in Int \X Int /\ <<i, x>>[1] = i /\ <<i, x>>[2] = x
      OBVIOUS
    <3>5. <<i, x>> \in S
      BY <3>3, <3>4 DEF Grows
    <3> QED BY <3>1, <3>2, <3>5
  <2> QED BY <1>1, <2>1, <2>2
<1>6. \A a \in Range(ds) : a \in S
  BY <1>5 DEF Range
<1>7. ASSUME NEW a \in Range(ds), NEW b \in S, Before(a, b) PROVE b \in Range(ds)
  <2>1. CASE b[1] = i
    BY <1>4, <2>1
  <2>2. CASE b[1] # i
    <3>1. a[1] \in Int /\ b[1] \in Int /\ b[1] < i
      BY <1>6, <2>2 DEF Grows
    <3>2. PICK j \in DOMAIN ds : ds[j] = a
      BY DEF Range
    <3>3. j <= Len(cs)
      <4>1. CASE j > Len(cs)
        <5>1. a[1] = i
          BY <1>1, <3>2, <4>1
        <5> QED BY <1>7, <3>1, <5>1 DEF Before
      <4> QED BY <1>1, <4>1
    <3>4. j \in DOMAIN cs /\ a = cs[j]
      BY <1>1, <3>2, <3>3
    <3> QED BY <1>3, <1>7, <3>1, <3>4 DEF Grows
  <2> QED BY <2>1, <2>2
<1>8. IsLast(ds, S)
  BY <1>2, <1>6, <1>7 DEF IsLast
<1>9. ASSUME \A b \in S : b[1] < i => b \in Range(cs) PROVE IsAll(ds, S)
  <2>1. \A b \in S : b[1] \in Int
    OBVIOUS
  <2>2. \A b \in S : b \in Range(ds)
    BY <1>3, <1>4, <1>9, <2>1 DEF Grows
  <2> QED BY <1>2, <1>6, <2>2 DEF IsAll
<1> QED BY <1>b, <1>8, <1>9

\* The last cells are given back: those of the last buffer from offset e on.
Cuts(cs, S, T, L, e, k) ==
    /\ \A j \in 1..k : cs[j][1] < L \/ (cs[j][1] = L /\ cs[j][2] < e)
    /\ \A j \in 1..Len(cs) : j > k => cs[j][1] = L /\ cs[j][2] >= e
    /\ \A b \in S : b \in T <=> ~(b[1] = L /\ b[2] >= e)
    /\ InOrder(cs) /\ Range(cs) \subseteq S

LEMMA CutLast ==
    ASSUME NEW cs \in Seq(Int \X Int), NEW S \in SUBSET (Int \X Int), NEW T \in SUBSET S,
           NEW k \in Nat, k <= Len(cs), NEW L \in Int, NEW e \in Int,
           Cuts(cs, S, T, L, e, k)
    PROVE  /\ IsLast(cs, S) => IsLast(SubSeq(cs, 1, k), T)
           /\ IsAll(cs, S) => IsAll(SubSeq(cs, 1, k), T)
<1> DEFINE ds == SubSeq(cs, 1, k)
<1>1. /\ Len(cs) \in Nat /\ DOMAIN cs = 1..Len(cs)
      /\ ds \in Seq(Int \X Int) /\ DOMAIN ds = 1..k
      /\ \A j \in 1..k : ds[j] = cs[j] /\ j \in DOMAIN cs
      /\ \A j \in DOMAIN cs : cs[j] \in Int \X Int
  OBVIOUS
<1> HIDE DEF ds
<1>2. InOrder(ds)
  BY <1>1 DEF InOrder, Cuts
<1>3. ASSUME NEW b \in T, b \in Range(cs) PROVE b \in Range(ds)
  <2>1. PICK j \in DOMAIN cs : cs[j] = b
    BY <1>3 DEF Range
  <2>2. ~(j > k)
    BY <1>1, <2>1 DEF Cuts
  <2>3. j \in DOMAIN ds /\ ds[j] = b
    BY <1>1, <2>1, <2>2
  <2> QED BY <2>3 DEF Range
<1>4. ASSUME NEW j \in DOMAIN ds PROVE ds[j] \in T /\ ds[j] \in Range(cs)
  <2>1. ds[j] = cs[j] /\ j \in DOMAIN cs /\ j \in 1..k
    BY <1>1
  <2>2. cs[j] \in S /\ cs[j] \in Range(cs) /\ cs[j][1] \in Int /\ cs[j][2] \in Int
    BY <1>1, <2>1 DEF Range, Cuts
  <2>2a. PICK x \in Int, y \in Int : x = cs[j][1] /\ y = cs[j][2]
    BY <2>2
  <2>2b. x < L \/ (x = L /\ y < e)
    BY <2>1, <2>2a DEF Cuts
  <2>2c. ~(x = L /\ y >= e)
    BY <2>2b
  <2>3. ~(cs[j][1] = L /\ cs[j][2] >= e)
    BY <2>2a, <2>2c
  <2> QED BY <2>1, <2>2, <2>3 DEF Cuts
<1>5. \A a \in Range(ds) : a \in T /\ a \in Range(cs)
  BY <1>4 DEF Range
<1>6. IsLast(cs, S) => IsLast(ds, T)
  BY <1>2, <1>3, <1>5 DEF IsLast, Cuts
<1>7. IsAll(cs, S) => IsAll(ds, T)
  BY <1>2, <1>3, <1>5 DEF IsAll, Cuts
<1> QED BY <1>6, <1>7 DEF ds
-----------------------------------------------------------------------------
(* The bytes of a chain of buffers *)

LEMMA BytesFacts ==
    ASSUME NEW bs \in Seq(WriterBufs)
    PROVE  /\ Bytes(bs) \in SUBSET (Int \X Int)
           /\ \A i, o \in Int : <<i, o>> \in Bytes(bs) <=>
                 i \in DOMAIN bs /\ bs[i].pos <= o /\ o < bs[i].last
           /\ \A b \in Int \X Int : b \in Bytes(bs) <=>
                 b[1] \in DOMAIN bs /\ bs[b[1]].pos <= b[2] /\ b[2] < bs[b[1]].last
<1>1. \A i \in DOMAIN bs : i \in Int /\ bs[i].pos \in Int /\ bs[i].last \in Int
  <2>1. \A i \in DOMAIN bs : i \in Int /\ bs[i] \in WriterBufs
    OBVIOUS
  <2>2. \A x \in WriterBufs : x.pos \in Int /\ x.last \in Int
    BY DEF WriterBufs
  <2> QED BY <2>1, <2>2
<1>2. \A i, o \in Int : <<i, o>> \in Bytes(bs) <=>
                 i \in DOMAIN bs /\ bs[i].pos <= o /\ o < bs[i].last
  BY <1>1 DEF Bytes
<1>3. Bytes(bs) \in SUBSET (Int \X Int)
  BY <1>1 DEF Bytes
<1>4. ASSUME NEW b \in Int \X Int
      PROVE  b \in Bytes(bs) <=>
                 b[1] \in DOMAIN bs /\ bs[b[1]].pos <= b[2] /\ b[2] < bs[b[1]].last
  <2>1. PICK i \in Int, o \in Int : b = <<i, o>>
    OBVIOUS
  <2> QED BY <1>2, <2>1
<1> QED BY <1>2, <1>3, <1>4

LEMMA ContentsBytes == Contents = Bytes(bufs) /\ Contents' = Bytes(bufs')
  BY DEF Contents, Bytes

LEMMA AppendFacts ==
    ASSUME NEW C, NEW s \in Seq(C), NEW x \in C
    PROVE  /\ Append(s, x) \in Seq(C) /\ Len(Append(s, x)) = Len(s) + 1 /\ Len(s) \in Nat
           /\ DOMAIN s = 1..Len(s) /\ DOMAIN Append(s, x) = 1..(Len(s) + 1)
           /\ \A i \in 1..Len(s) : Append(s, x)[i] = s[i]
           /\ Append(s, x)[Len(s) + 1] = x
  OBVIOUS

LEMMA EmptyFacts ==
    ASSUME NEW C, NEW s \in Seq(C)
    PROVE  Len(s) \in Nat /\ DOMAIN s = 1..Len(s) /\ (s = <<>> <=> Len(s) = 0)
  OBVIOUS
-----------------------------------------------------------------------------
(* What the client has *)

\* The walk of NgxShmChainBufferWriter::Next changes no bytes.
SameBytes(B, bs) ==
    /\ Len(B) = Len(bs)
    /\ \A i \in DOMAIN bs : /\ B[i].pos = bs[i].pos /\ B[i].last = bs[i].last
                            /\ B[i].end = bs[i].end

\* What Next may count on: the client has nothing of this message or too little.
Wants(cs, bs, k, m) ==
    /\ cs = <<>> /\ m = 1 => bs = <<>>
    /\ cs # <<>> => Len(cs) < k /\ Given(cs, bs, k, m)

LEMMA WantsCells ==
    ASSUME NEW bs \in Seq(WriterBufs), NEW cs \in Seq(Int \X Int), NEW k, NEW m,
           Wants(cs, bs, k, m)
    PROVE  /\ InOrder(cs)
           /\ \A j \in DOMAIN cs : cs[j] \in Int \X Int /\ cs[j] \in Bytes(bs)
                                   /\ cs[j][1] \in DOMAIN bs
           /\ \A j \in DOMAIN cs : \A c \in Bytes(bs) : Before(cs[j], c) => c \in Range(cs)
           /\ m = 1 => \A c \in Bytes(bs) : c \in Range(cs)
<1>1. Len(cs) \in Nat /\ DOMAIN cs = 1..Len(cs) /\ (cs = <<>> <=> Len(cs) = 0)
  BY EmptyFacts
<1>2. CASE cs = <<>>
  <2>1. DOMAIN cs = {}
    BY <1>1, <1>2
  <2>2. m = 1 => Bytes(bs) = {}
    BY <1>2 DEF Wants, Bytes
  <2> QED BY <2>1, <2>2 DEF InOrder
<1>3. CASE cs # <<>>
  <2>1. IsLast(cs, Bytes(bs)) /\ (m = 1 => IsAll(cs, Bytes(bs)))
    BY <1>3 DEF Wants, Given
  <2>2. \A j \in DOMAIN cs : cs[j] \in Bytes(bs) /\ cs[j] \in Range(cs)
    BY <2>1 DEF IsLast, Range
  <2>3. \A j \in DOMAIN cs : cs[j] \in Int \X Int /\ cs[j][1] \in DOMAIN bs
    BY <2>2, BytesFacts
  <2> QED BY <2>1, <2>2, <2>3 DEF IsLast, IsAll
<1> QED BY <1>2, <1>3

\* Next makes a buffer of z bytes.
LEMMA NewGiven ==
    ASSUME NEW bs \in Seq(WriterBufs), NEW B \in Seq(WriterBufs), SameBytes(B, bs),
           NEW cs \in Seq(Int \X Int), NEW k \in Nat, NEW m, Wants(cs, bs, k, m),
           NEW z \in Nat, z > 0,
           NEW b \in WriterBufs, b.pos = 0, b.last = z, b.end = z
    PROVE  Given(cs \o Run(Len(bs) + 1, 0, z), Append(B, b), k, m)
<1>1. PICK L \in Nat : L = Len(bs)
  BY EmptyFacts
<1>2. PICK ds : ds = cs \o Run(L + 1, 0, z)
  OBVIOUS
<1>3. PICK D \in Seq(WriterBufs) : D = Append(B, b)
  BY AppendFacts
<1>4. /\ DOMAIN bs = 1..L /\ Len(D) = L + 1 /\ DOMAIN D = 1..(L + 1) /\ D[L + 1] = b
      /\ \A i \in 1..L : D[i].pos = bs[i].pos /\ D[i].last = bs[i].last
  <2>1. DOMAIN bs = 1..L /\ Len(B) = L
    BY <1>1, EmptyFacts DEF SameBytes
  <2>2. /\ Len(D) = L + 1 /\ DOMAIN D = 1..(L + 1) /\ D[L + 1] = b
        /\ \A i \in 1..L : D[i] = B[i]
    <3>1. /\ Len(Append(B, b)) = Len(B) + 1 /\ DOMAIN Append(B, b) = 1..(Len(B) + 1)
          /\ \A i \in 1..Len(B) : Append(B, b)[i] = B[i]
          /\ Append(B, b)[Len(B) + 1] = b
      BY AppendFacts
    <3> QED BY <1>3, <2>1, <3>1
  <2> QED BY <2>1, <2>2 DEF SameBytes
<1>5. /\ L + 1 \in Int /\ 0 \in Int /\ Len(cs) \in Nat /\ DOMAIN cs = 1..Len(cs)
      /\ (cs = <<>> <=> Len(cs) = 0)
  BY EmptyFacts
<1>6. /\ ds \in Seq(Int \X Int) /\ Len(ds) = Len(cs) + z
      /\ \A j \in 1..Len(cs) : ds[j] = cs[j]
      /\ \A j \in 1..(Len(cs) + z) : j > Len(cs) => ds[j] = <<L + 1, 0 + (j - Len(cs)) - 1>>
  <2>1. PICK i \in Int, o \in Int : i = L + 1 /\ o = 0
    BY <1>5
  <2>2. ds = cs \o Run(i, o, z)
    BY <1>2, <2>1
  <2>3. Joined(cs \o Run(i, o, z), cs, i, o, z)
    BY JoinFacts
  <2> QED BY <2>1, <2>2, <2>3 DEF Joined
<1>7. /\ InOrder(cs)
      /\ \A j \in DOMAIN cs : cs[j] \in Int \X Int /\ cs[j] \in Bytes(bs) /\ cs[j][1] \in 1..L
      /\ \A j \in DOMAIN cs : \A c \in Bytes(bs) : Before(cs[j], c) => c \in Range(cs)
      /\ m = 1 => \A c \in Bytes(bs) : c \in Range(cs)
  BY <1>4, WantsCells
<1>8. Ends(ds, k, L + 1, b)
  <2>1. z <= Len(ds) /\ Len(ds) - k <= z
    <3>1. Len(cs) <= k
      BY <1>5 DEF Wants
    <3> QED BY <1>5, <1>6, <3>1
  <2>2. ASSUME NEW j \in 1..Len(ds)
        PROVE  IF j <= Len(ds) - z THEN ds[j][1] < L + 1
               ELSE ds[j] = <<L + 1, z - (Len(ds) - j) - 1>>
    <3>1. CASE j <= Len(cs)
      <4>1. j \in 1..Len(cs) /\ j <= Len(ds) - z
        BY <1>5, <1>6, <3>1
      <4>2. ds[j] = cs[j] /\ cs[j][1] \in 1..L
        BY <1>5, <1>6, <1>7, <4>1
      <4>3. ds[j][1] < L + 1
        BY SMTT(20), <4>2
      <4> QED BY <4>1, <4>3
    <3>2. CASE j > Len(cs)
      <4>1. 0 + (j - Len(cs)) - 1 = z - (Len(ds) - j) - 1 /\ ~(j <= Len(ds) - z)
        BY <1>5, <1>6, <3>2
      <4> QED BY <1>5, <1>6, <3>2, <4>1
    <3> QED BY SMTT(20), <1>5, <3>1, <3>2
  <2>3. b.last - b.pos = z /\ b.last = z /\ b.end = z
    OBVIOUS
  <2> QED BY <2>1, <2>2, <2>3 DEF Ends
<1>9. /\ Bytes(D) \in SUBSET (Int \X Int)
      /\ \A c \in Int \X Int : c \in Bytes(D) <=>
            \/ c[1] \in 1..L /\ c \in Bytes(bs)
            \/ c[1] = L + 1 /\ 0 <= c[2] /\ c[2] < 0 + z
  <2>1. Bytes(D) \in SUBSET (Int \X Int)
    BY BytesFacts
  <2>2. ASSUME NEW c \in Int \X Int
        PROVE  c \in Bytes(D) <=> \/ c[1] \in 1..L /\ c \in Bytes(bs)
                                  \/ c[1] = L + 1 /\ 0 <= c[2] /\ c[2] < 0 + z
    <3>1. c[1] \in Int /\ c[2] \in Int
      OBVIOUS
    <3>2. c \in Bytes(D) <=> c[1] \in DOMAIN D /\ D[c[1]].pos <= c[2] /\ c[2] < D[c[1]].last
      BY BytesFacts
    <3>3. c \in Bytes(bs) <=> c[1] \in DOMAIN bs /\ bs[c[1]].pos <= c[2] /\ c[2] < bs[c[1]].last
      BY BytesFacts
    <3>4. CASE c[1] \in 1..L
      BY <1>4, <3>1, <3>2, <3>3, <3>4
    <3>5. CASE c[1] = L + 1
      BY <1>4, <3>1, <3>2, <3>5
    <3>6. CASE c[1] \notin 1..L /\ c[1] # L + 1
      <4>1. c[1] \notin 1..(L + 1)
        BY <3>1, <3>6
      <4> QED BY <1>4, <3>2, <3>6, <4>1
    <3> QED BY <3>4, <3>5, <3>6
  <2> QED BY <2>1, <2>2
<1>10. Grows(cs, Bytes(D), L + 1, 0, z)
  <2>1. \A j \in DOMAIN cs : cs[j] \in Bytes(D) /\ cs[j][1] < L + 1
    BY <1>7, <1>9
  <2>2. \A c \in Bytes(D) : c \in Int \X Int /\ c[1] <= L + 1 /\ (c[1] < L + 1 => c \in Bytes(bs))
    BY <1>9
  <2>3. \A j \in DOMAIN cs : \A c \in Bytes(D) :
           Before(cs[j], c) /\ c[1] < L + 1 => c \in Range(cs)
    BY <1>7, <2>2
  <2>4. \A c \in Int \X Int :
           c[1] = L + 1 => (c \in Bytes(D) <=> 0 <= c[2] /\ c[2] < 0 + z)
    BY SMTT(20), <1>9
  <2> QED BY <1>7, <2>1, <2>2, <2>3, <2>4 DEF Grows
<1>11. /\ IsLast(ds, Bytes(D))
       /\ (\A c \in Bytes(D) : c[1] < L + 1 => c \in Range(cs)) => IsAll(ds, Bytes(D))
  <2>1. PICK S \in SUBSET (Int \X Int) : S = Bytes(D)
    BY <1>9
  <2>2. PICK i \in Int : i = L + 1
    BY <1>5
  <2>3. Grows(cs, S, i, 0, z)
    BY <1>10, <2>1, <2>2
  <2> QED BY <1>2, <1>5, <2>1, <2>2, <2>3, GrowLast
<1>12. m = 1 => IsAll(ds, Bytes(D))
  <2>1. m = 1 => \A c \in Bytes(D) : c[1] < L + 1 => c \in Range(cs)
    BY <1>7, <1>9
  <2> QED BY <1>11, <2>1
<1>13. D # <<>>
  BY <1>4, EmptyFacts
<1>14. Given(ds, D, k, m)
  BY <1>4, <1>8, <1>11, <1>12, <1>13 DEF Given
<1> QED BY <1>1, <1>2, <1>3, <1>14

LEMMA NoCells == <<>> \in Seq(Int \X Int)
  OBVIOUS

LEMMA BufFacts ==
    \A x \in WriterBufs : x.pos \in Int /\ x.last \in Int /\ x.end \in Int /\ x.last_buf \in BOOLEAN
  BY DEF WriterBufs

\* Next gives what was left of the last buffer.
LEMMA RestGiven ==
    ASSUME NEW bs \in Seq(WriterBufs), NEW B \in Seq(WriterBufs), SameBytes(B, bs),
           bs # <<>>, Fits(bs[Len(bs)]), bs[Len(bs)].last # bs[Len(bs)].end,
           NEW k \in Nat, NEW m, m # 1
    PROVE  LET L == Len(bs)
               b == bs[L]
           IN  /\ Rest(B, L) \in Seq(WriterBufs) /\ Len(Rest(B, L)) = L
               /\ b.end - b.last \in Nat /\ b.end - b.last > 0
               /\ Given(<<>> \o Run(L, b.last, b.end - b.last), Rest(B, L), k, m)
<1>1. PICK L \in Nat : L = Len(bs)
  BY EmptyFacts
<1>2. DOMAIN bs = 1..L /\ DOMAIN B = 1..L /\ Len(B) = L /\ L \in 1..L /\ L # 0
  BY <1>1, EmptyFacts DEF SameBytes
<1>3. PICK b \in WriterBufs : b = bs[L]
  BY <1>1, <1>2
<1>4. PICK p \in Int, l \in Int, e \in Int : b.pos = p /\ b.last = l /\ b.end = e
  BY BufFacts
<1>5. 0 <= p /\ p <= l /\ l < e
  BY <1>1, <1>3, <1>4 DEF Fits
<1>6. PICK z \in Nat : z = e - l /\ z > 0
  BY <1>5
<1>7. B[L] \in WriterBufs /\ B[L].pos = p /\ B[L].last = l /\ B[L].end = e
  BY <1>2, <1>3, <1>4 DEF SameBytes
<1>8. PICK d : d = [B[L] EXCEPT !.pos = l, !.last = e]
  OBVIOUS
<1>9. d \in WriterBufs /\ d.pos = l /\ d.last = e /\ d.end = e
  BY <1>7, <1>8 DEF WriterBufs
<1>10. PICK D : D = Rest(B, L)
  OBVIOUS
<1>11. D = [B EXCEPT ![L] = d]
  BY <1>2, <1>7, <1>8, <1>10 DEF Rest
<1>12. D \in Seq(WriterBufs) /\ Len(D) = L /\ DOMAIN D = 1..L
  BY <1>2, <1>9, <1>11
<1>13. D[L] = d /\ \A i \in 1..L : i # L => D[i] = B[i]
  BY <1>2, <1>11
<1>14. PICK cs \in Seq(Int \X Int) : cs = <<>>
  BY NoCells
<1>15. DOMAIN cs = {} /\ Len(cs) = 0 /\ Range(cs) = {}
  BY <1>14 DEF Range
<1>16. PICK ds : ds = cs \o Run(L, l, z)
  OBVIOUS
<1>17. Joined(ds, cs, L, l, z)
  BY <1>16, JoinFacts
<1>18. /\ Len(ds) = z
       /\ \A j \in 1..z : ds[j] = <<L, l + j - 1>>
  BY <1>15, <1>17 DEF Joined
<1>19. Ends(ds, k, L, d)
  <2>1. \A j \in 1..Len(ds) : ds[j] = <<L, e - (Len(ds) - j) - 1>> /\ ~(j <= Len(ds) - (e - l))
    <3> SUFFICES ASSUME NEW j \in 1..z
                 PROVE  ds[j] = <<L, e - (z - j) - 1>> /\ ~(j <= z - (e - l))
      BY <1>18
    <3>1. l + j - 1 = e - (z - j) - 1 /\ ~(j <= z - (e - l))
      BY <1>6
    <3> QED BY <1>18, <3>1
  <2>2. e - l <= Len(ds) /\ Len(ds) - k <= e - l
    BY <1>6, <1>18
  <2> QED BY <1>9, <2>1, <2>2 DEF Ends
<1>20. /\ Bytes(D) \in SUBSET (Int \X Int)
       /\ \A c \in Bytes(D) : c \in Int \X Int /\ c[1] <= L
       /\ \A c \in Int \X Int : c[1] = L => (c \in Bytes(D) <=> l <= c[2] /\ c[2] < l + z)
  <2>1. Bytes(D) \in SUBSET (Int \X Int)
    BY <1>12, BytesFacts
  <2>2. \A c \in Int \X Int : c \in Bytes(D) <=>
           c[1] \in 1..L /\ D[c[1]].pos <= c[2] /\ c[2] < D[c[1]].last
    BY <1>12, BytesFacts
  <2>3. l + z = e
    BY <1>6
  <2>4. \A c \in Bytes(D) : c \in Int \X Int /\ c[1] <= L
    BY <2>1, <2>2
  <2>5. ASSUME NEW c \in Int \X Int, c[1] = L
        PROVE  c \in Bytes(D) <=> l <= c[2] /\ c[2] < l + z
    <3>1. D[c[1]].pos = l /\ D[c[1]].last = e /\ c[1] \in 1..L
      BY <1>2, <1>9, <1>13, <2>5
    <3> QED BY <2>2, <2>3, <3>1
  <2> QED BY <2>1, <2>4, <2>5
<1>21. Grows(cs, Bytes(D), L, l, z)
  BY <1>15, <1>20 DEF Grows, InOrder
<1>22. IsLast(ds, Bytes(D))
  BY <1>16, <1>20, <1>21, GrowLast
<1>23. Given(ds, D, k, m)
  <2>1. D # <<>>
    BY <1>2, <1>12, EmptyFacts
  <2> QED BY <1>12, <1>13, <1>19, <1>22, <2>1 DEF Given
<1> QED BY <1>1, <1>3, <1>4, <1>6, <1>10, <1>12, <1>14, <1>16, <1>23

\* BackUp takes the surplus back from the last buffer.
LEMMA CutGiven ==
    ASSUME NEW bs \in Seq(WriterBufs), NEW cs \in Seq(Int \X Int), NEW k \in Nat, NEW m,
           Given(cs, bs, k, m), k <= Len(cs), Fits(bs[Len(bs)]),
           NEW D \in Seq(WriterBufs),
           D = [bs EXCEPT ![Len(bs)].last = @ - (Len(cs) - k)]
    PROVE  /\ IsLast(SubSeq(cs, 1, k), Bytes(D))
           /\ m = 1 => IsAll(SubSeq(cs, 1, k), Bytes(D))
           /\ D[Len(bs)].pos <= D[Len(bs)].last
<1>1. PICK L \in Nat : L = Len(bs)
  BY EmptyFacts
<1>2. DOMAIN bs = 1..L /\ L \in 1..L
  BY <1>1, EmptyFacts DEF Given
<1>3. PICK b \in WriterBufs : b = bs[L]
  BY <1>1, <1>2
<1>4. PICK p \in Int, l \in Int : b.pos = p /\ b.last = l
  BY BufFacts
<1>5. PICK c \in Nat : c = Len(cs)
  BY EmptyFacts
<1>6. PICK e \in Int : e = l - (c - k)
  OBVIOUS
<1>7. /\ c - k <= l - p /\ l - p <= c /\ k <= c
      /\ \A j \in 1..c : IF j <= c - (l - p) THEN cs[j][1] < L
                         ELSE cs[j] = <<L, l - (c - j) - 1>>
  BY <1>1, <1>3, <1>4, <1>5 DEF Given, Ends
<1>8. /\ DOMAIN D = 1..L /\ D[L].pos = p /\ D[L].last = e
      /\ \A i \in 1..L : i # L => D[i] = bs[i]
  BY <1>1, <1>2, <1>3, <1>4, <1>5, <1>6 DEF WriterBufs
<1>9. IsLast(cs, Bytes(bs)) /\ (m = 1 => IsAll(cs, Bytes(bs)))
  BY DEF Given
<1>10. /\ Bytes(bs) \in SUBSET (Int \X Int) /\ Bytes(D) \in SUBSET (Int \X Int)
       /\ \A x \in Int \X Int :
             x \in Bytes(bs) <=> x[1] \in 1..L /\ bs[x[1]].pos <= x[2] /\ x[2] < bs[x[1]].last
       /\ \A x \in Int \X Int :
             x \in Bytes(D) <=> x[1] \in 1..L /\ D[x[1]].pos <= x[2] /\ x[2] < D[x[1]].last
  BY <1>2, <1>8, BytesFacts
<1>11. \A x \in Int \X Int : x \in Bytes(D) <=> x \in Bytes(bs) /\ ~(x[1] = L /\ x[2] >= e)
  <2> SUFFICES ASSUME NEW x \in Int \X Int
               PROVE  x \in Bytes(D) <=> x \in Bytes(bs) /\ ~(x[1] = L /\ x[2] >= e)
    OBVIOUS
  <2>1. PICK y \in Int : y = x[2]
    OBVIOUS
  <2>2. CASE x[1] = L
    <3>1. x \in Bytes(D) <=> p <= y /\ y < e
      BY <1>2, <1>8, <1>10, <2>1, <2>2
    <3>2. x \in Bytes(bs) <=> p <= y /\ y < l
      BY <1>2, <1>3, <1>4, <1>10, <2>1, <2>2
    <3>3. e <= l
      BY SMTT(20), <1>6, <1>7
    <3> QED BY <2>1, <2>2, <3>1, <3>2, <3>3
  <2>3. CASE x[1] # L
    BY <1>8, <1>10, <2>3
  <2> QED BY <2>2, <2>3
<1>12. \A j \in 1..k : cs[j][1] < L \/ (cs[j][1] = L /\ cs[j][2] < e)
  <2> SUFFICES ASSUME NEW j \in 1..k
               PROVE  cs[j][1] < L \/ (cs[j][1] = L /\ cs[j][2] < e)
    OBVIOUS
  <2>a. j \in 1..c
    BY <1>7
  <2>0. IF j <= c - (l - p) THEN cs[j][1] < L ELSE cs[j] = <<L, l - (c - j) - 1>>
    BY <1>7, <2>a, Zenon
  <2>1. CASE j <= c - (l - p)
    BY <2>0, <2>1
  <2>2. CASE ~(j <= c - (l - p))
    <3>1. cs[j] = <<L, l - (c - j) - 1>>
      BY <2>0, <2>2
    <3>2. l - (c - j) - 1 < e
      BY <1>6
    <3> QED BY <3>1, <3>2
  <2> QED BY <2>1, <2>2
<1>13. \A j \in 1..Len(cs) : j > k => cs[j][1] = L /\ cs[j][2] >= e
  <2> SUFFICES ASSUME NEW j \in 1..c, j > k
               PROVE  cs[j][1] = L /\ cs[j][2] >= e
    BY <1>5
  <2>1. ~(j <= c - (l - p)) /\ l - (c - j) - 1 >= e
    BY SMTT(20), <1>6, <1>7
  <2>2. cs[j] = <<L, l - (c - j) - 1>>
    BY <1>7, <2>1
  <2> QED BY <2>1, <2>2
<1>14. PICK S \in SUBSET (Int \X Int) : S = Bytes(bs)
  BY <1>10
<1>15. PICK T \in SUBSET S : T = Bytes(D)
  BY <1>10, <1>11, <1>14
<1>16. Cuts(cs, S, T, L, e, k)
  BY <1>9, <1>11, <1>12, <1>13, <1>14, <1>15 DEF Cuts, IsLast
<1>17. (IsLast(cs, S) => IsLast(SubSeq(cs, 1, k), T)) /\ (IsAll(cs, S) => IsAll(SubSeq(cs, 1, k), T))
  <2>1. L \in Int
    OBVIOUS
  <2> QED BY <1>16, <2>1, CutLast, Zenon
<1>18. p <= e
  BY <1>6, <1>7
<1> QED BY <1>1, <1>8, <1>9, <1>14, <1>15, <1>17, <1>18
-----------------------------------------------------------------------------
(* The steps of the writers *)

LEMMA WriterFacts ==
    ASSUME StreamsInv, class # "reader"
    PROVE  /\ bufs \in Seq(WriterBufs) /\ cells \in Seq(Int \X Int)
           /\ totaly \in Int /\ extends \in Nat /\ n \in Nat /\ messages \in Nat /\ written \in Nat
           /\ Len(bufs) \in Nat /\ DOMAIN bufs = 1..Len(bufs) /\ (bufs = <<>> <=> Len(bufs) = 0)
           /\ Len(cells) \in Nat /\ (cells = <<>> <=> Len(cells) = 0)
           /\ extends = Len(bufs) + 1 /\ n <= written /\ pc \in {"idle", "writing", "aborted"}
           /\ chain = IF class = "pool" /\ bufs # <<>> THEN Len(bufs) ELSE 1
           /\ totaly = IF pc = "writing" THEN written - n + Len(cells) ELSE written
           /\ messages = 0 => bufs = <<>> /\ pc = "idle"
           /\ pc # "aborted" => \A i \in DOMAIN bufs : Fits(bufs[i])
           /\ class \in {"pool", "shm"}
<1>1. /\ bufs \in Seq(WriterBufs) /\ cells \in Seq(Int \X Int)
      /\ totaly \in Int /\ extends \in Nat /\ n \in Nat /\ messages \in Nat /\ written \in Nat
      /\ class \in {"pool", "shm"}
  BY DEF StreamsInv, ShapeInv
<1>2. WriterInv
  BY DEF StreamsInv
<1> QED BY <1>1, <1>2, EmptyFacts DEF WriterInv

LEMMA WritingWants ==
    ASSUME StreamsInv, class # "reader", Refreshes
    PROVE  Wants(cells, bufs, n, messages)
  BY DEF StreamsInv, GivenInv, Refreshes, Wants

LEMMA SerializeStep ==
    ASSUME StreamsInv, NEW k \in 0..MaxBytes, Serialize(k)
    PROVE  StreamsInv'
<1>1. /\ class # "reader" /\ pc = "idle" /\ pc' = "writing" /\ n' = k /\ cells' = <<>>
      /\ messages' = messages + 1 /\ written' = written + k
      /\ UNCHANGED <<class, bufs, chain, totaly, extends, chunk, from, astray>>
  BY DEF Serialize, readerVars
<1>2. /\ totaly = written /\ written \in Nat /\ messages \in Nat /\ k \in Nat
      /\ extends = Len(bufs) + 1
      /\ \A i \in DOMAIN bufs : Fits(bufs[i])
      /\ chain = IF class = "pool" /\ bufs # <<>> THEN Len(bufs) ELSE 1
      /\ messages = 0 => bufs = <<>>
  BY <1>1, WriterFacts, StreamAssumption
<1>3. ShapeInv'
  BY <1>1, <1>2, NoCells DEF StreamsInv, ShapeInv
<1>4. WriterInv'
  <2>1. totaly = written' - n' + Len(cells') /\ n' <= written' /\ messages' # 0
    BY <1>1, <1>2
  <2> QED BY <1>1, <1>2, <2>1 DEF WriterInv
<1>5. GivenInv' /\ KeptInv'
  <2>1. messages' = 1 => bufs = <<>>
    BY <1>1, <1>2
  <2> QED BY <1>1, <2>1 DEF GivenInv, KeptInv
<1>6. MarksAtTheEnd'
  BY <1>1 DEF StreamsInv, MarksAtTheEnd
<1> QED BY <1>1, <1>3, <1>4, <1>5, <1>6 DEF StreamsInv

\* What Next has in common: the client gets z bytes of buffer i from offset o.
LEMMA NextStep ==
    ASSUME StreamsInv, class # "reader", Refreshes,
           NEW i \in Int, NEW o \in Int, NEW z \in Nat, z > 0, Hand(i),
           bufs' \in Seq(WriterBufs), extends' = Len(bufs') + 1, bufs' # <<>>,
           bufs'[i].pos = o, bufs'[i].last - o = z,
           \A j \in DOMAIN bufs' : Fits(bufs'[j]),
           chain' = IF class = "pool" THEN Len(bufs') ELSE 1,
           Given(cells \o Run(i, o, z), bufs', n, messages)
    PROVE  ShapeInv' /\ WriterInv' /\ GivenInv' /\ KeptInv'
<1>1. pc = "writing" /\ messages # 0
  BY WriterFacts DEF Refreshes
<1>2. Cells(bufs', i) = Run(i, o, z) /\ Len(Run(i, o, z)) = z
  BY RunFacts DEF Cells
<1>3. /\ cells' = cells \o Run(i, o, z) /\ totaly' = totaly + z
      /\ UNCHANGED <<class, pc, n, messages, written, chunk, from, astray>>
  BY <1>2 DEF Hand, readerVars
<1>4. cells \in Seq(Int \X Int) /\ Len(cells) \in Nat
  BY WriterFacts
<1>5. Joined(cells \o Run(i, o, z), cells, i, o, z)
  BY <1>4, JoinFacts
<1>6. cells' \in Seq(Int \X Int) /\ Len(cells') = Len(cells) + z
  BY <1>3, <1>5 DEF Joined
<1>7. cells' # <<>>
  BY <1>4, <1>6, EmptyFacts
<1>8. totaly \in Int /\ extends' \in Nat /\ totaly' \in Int
  <2>1. totaly \in Int
    BY WriterFacts
  <2>2. Len(bufs') \in Nat
    BY EmptyFacts
  <2>3. totaly + z \in Int /\ Len(bufs') + 1 \in Nat
    BY <2>1, <2>2
  <2> QED BY <1>3, <2>1, <2>3
<1>9. ShapeInv'
  BY <1>3, <1>6, <1>8 DEF StreamsInv, ShapeInv
<1>10. totaly' = written - n + Len(cells')
  <2>1. totaly = written - n + Len(cells) /\ written \in Nat /\ n \in Nat
    BY <1>1, WriterFacts
  <2>2. (written - n + Len(cells)) + z = written - n + (Len(cells) + z)
    BY <1>4, <2>1
  <2> QED BY <1>3, <1>6, <2>1, <2>2
<1>11. n <= written /\ class \in {"pool", "shm"}
  BY WriterFacts
<1>12. WriterInv'
  BY <1>1, <1>3, <1>10, <1>11 DEF WriterInv
<1>13. GivenInv' /\ KeptInv'
  BY <1>1, <1>3, <1>7 DEF GivenInv, KeptInv
<1> QED BY <1>9, <1>12, <1>13

LEMMA NewStep ==
    ASSUME StreamsInv, class # "reader", Refreshes,
           NEW B \in Seq(WriterBufs), SameBytes(B, bufs),
           NEW mark \in BOOLEAN, bufs' = Append(B, NewBuf(mark)), extends' = extends + 1,
           Hand(Len(bufs) + 1), chain' = IF class = "pool" THEN Len(bufs) + 1 ELSE 1
    PROVE  /\ ShapeInv' /\ WriterInv' /\ GivenInv' /\ KeptInv'
           /\ NewBuf(mark) \in WriterBufs
<1>1. PICK L \in Nat : L = Len(bufs)
  BY WriterFacts
<1>2. PICK z \in Nat : z = DefaultSize * extends /\ z > 0
  <2>1. \A x, y \in Nat \ {0} : x * y \in Nat /\ x * y > 0
    OBVIOUS
  <2>2. extends \in Nat \ {0}
    BY WriterFacts
  <2> QED BY <2>1, <2>2, StreamAssumption
<1>3. PICK b \in WriterBufs : b = NewBuf(mark) /\ b.pos = 0 /\ b.last = z /\ b.end = z
  BY <1>2 DEF NewBuf, WriterBufs
<1>4. /\ Append(B, b) \in Seq(WriterBufs)
      /\ Len(Append(B, b)) = Len(B) + 1 /\ DOMAIN Append(B, b) = 1..(Len(B) + 1)
      /\ \A i \in 1..Len(B) : Append(B, b)[i] = B[i]
      /\ Append(B, b)[Len(B) + 1] = b
  BY AppendFacts
<1>5. Len(B) = L /\ DOMAIN bufs = 1..L
  BY <1>1, WriterFacts DEF SameBytes
<1>6. /\ bufs' \in Seq(WriterBufs) /\ Len(bufs') = L + 1 /\ DOMAIN bufs' = 1..(L + 1)
      /\ \A i \in 1..L : bufs'[i] = B[i]
      /\ bufs'[L + 1] = b
  BY <1>3, <1>4, <1>5
<1>7. \A j \in DOMAIN bufs' : Fits(bufs'[j])
  <2>1. Fits(b)
    BY <1>3 DEF Fits
  <2>2. \A j \in 1..L : Fits(bufs[j])
    BY <1>5, WriterFacts DEF Refreshes
  <2>3. \A j \in 1..L : Fits(B[j])
    BY <1>5, <2>2 DEF SameBytes, Fits
  <2>4. \A j \in 1..(L + 1) : j \in 1..L \/ j = L + 1
    OBVIOUS
  <2> QED BY <1>6, <2>1, <2>3, <2>4
<1>8. Given(cells \o Run(L + 1, 0, z), bufs', n, messages)
  <2>1. Wants(cells, bufs, n, messages)
    BY WritingWants
  <2>2. bufs \in Seq(WriterBufs) /\ cells \in Seq(Int \X Int) /\ n \in Nat
    BY WriterFacts
  <2>3. Given(cells \o Run(Len(bufs) + 1, 0, z), Append(B, b), n, messages)
    BY <1>2, <1>3, <2>1, <2>2, NewGiven
  <2> QED BY <1>1, <1>3, <2>3
<1>9. PICK i \in Int : i = L + 1
  OBVIOUS
<1>10. PICK o \in Int : o = 0
  OBVIOUS
<1>11. Hand(i) /\ bufs'[i].pos = o /\ bufs'[i].last - o = z
  BY <1>1, <1>3, <1>6, <1>9, <1>10
<1>12. bufs' # <<>>
  BY <1>6, EmptyFacts
<1>13. extends' = Len(bufs') + 1
  BY <1>1, <1>6, WriterFacts
<1>14. chain' = IF class = "pool" THEN Len(bufs') ELSE 1
  BY <1>1, <1>6
<1>15. Given(cells \o Run(i, o, z), bufs', n, messages)
  BY <1>8, <1>9, <1>10
<1>16. ShapeInv' /\ WriterInv' /\ GivenInv' /\ KeptInv'
  BY <1>2, <1>6, <1>7, <1>11, <1>12, <1>13, <1>14, <1>15, NextStep
<1> QED BY <1>3, <1>16

LEMMA RestStep ==
    ASSUME StreamsInv, class # "reader", Refreshes,
           NEW B \in Seq(WriterBufs), SameBytes(B, bufs),
           bufs # <<>>, bufs[Len(bufs)].last # bufs[Len(bufs)].end,
           bufs' = Rest(B, Len(bufs)), extends' = extends, chain' = chain,
           Hand(Len(bufs))
    PROVE  ShapeInv' /\ WriterInv' /\ GivenInv' /\ KeptInv'
<1>1. PICK L \in Int : L = Len(bufs) /\ L \in Nat /\ L \in 1..L /\ DOMAIN bufs = 1..L
  BY WriterFacts
<1>2. bufs \in Seq(WriterBufs) /\ cells \in Seq(Int \X Int) /\ n \in Nat
  BY WriterFacts
<1>3. cells = <<>> /\ messages # 1
  <2>1. Wants(cells, bufs, n, messages)
    BY WritingWants
  <2>2. cells = <<>>
    BY <2>1 DEF Wants, Given, Ends
  <2> QED BY <2>1, <2>2 DEF Wants
<1>4. PICK b \in WriterBufs : b = bufs[L]
  BY <1>1, <1>2
<1>5. Fits(b) /\ b.last # b.end /\ \A i \in 1..L : Fits(bufs[i])
  BY <1>1, <1>4, WriterFacts DEF Refreshes
<1>6. /\ Rest(B, L) \in Seq(WriterBufs) /\ Len(Rest(B, L)) = L
      /\ b.end - b.last \in Nat /\ b.end - b.last > 0
      /\ Given(<<>> \o Run(L, b.last, b.end - b.last), Rest(B, L), n, messages)
  BY <1>1, <1>2, <1>3, <1>4, <1>5, RestGiven
<1>7. PICK z \in Nat : z = b.end - b.last /\ z > 0
  BY <1>6
<1>8. PICK o \in Int : o = b.last
  BY BufFacts
<1>9. b.end \in Int /\ b.pos \in Int
  BY BufFacts
<1>10. bufs' \in Seq(WriterBufs) /\ Len(bufs') = L
  BY <1>1, <1>6
<1>11. Given(cells \o Run(L, o, z), bufs', n, messages)
  BY <1>1, <1>3, <1>6, <1>7, <1>8
<1>12. /\ DOMAIN B = 1..L /\ \A i \in 1..L : B[i] \in WriterBufs
       /\ \A i \in 1..L : B[i].pos = bufs[i].pos /\ B[i].last = bufs[i].last /\ B[i].end = bufs[i].end
  BY <1>1 DEF SameBytes
<1>13. /\ bufs'[L].pos = o /\ bufs'[L].last = b.end /\ bufs'[L].end = b.end
       /\ \A i \in 1..L : i # L => bufs'[i] = B[i]
  <2>1. B[L] \in WriterBufs /\ B[L].last = o /\ B[L].end = b.end
    BY <1>1, <1>4, <1>8, <1>12
  <2> QED BY <1>1, <1>12, <2>1 DEF Rest, WriterBufs
<1>14. \A j \in DOMAIN bufs' : Fits(bufs'[j])
  <2>1. DOMAIN bufs' = 1..L
    BY <1>10, EmptyFacts
  <2>2. Fits(bufs'[L])
    BY <1>5, <1>7, <1>8, <1>9, <1>13 DEF Fits
  <2>3. \A i \in 1..L : Fits(B[i])
    BY <1>5, <1>12 DEF Fits
  <2> QED BY <1>13, <2>1, <2>2, <2>3
<1>15. bufs'[L].last - o = z
  BY <1>7, <1>8, <1>13
<1>16. bufs' # <<>> /\ extends' = Len(bufs') + 1
  BY <1>1, <1>10, EmptyFacts, WriterFacts
<1>17. chain' = IF class = "pool" THEN Len(bufs') ELSE 1
  BY <1>1, <1>10, WriterFacts
<1>18. Hand(L)
  BY <1>1
<1> QED BY <1>7, <1>10, <1>11, <1>13, <1>14, <1>15, <1>16, <1>17, <1>18, NextStep

LEMMA SetFacts ==
    ASSUME NEW C, NEW s \in Seq(C), NEW i \in 1..Len(s), NEW x \in C
    PROVE  LET t == [s EXCEPT ![i] = x]
           IN  /\ t \in Seq(C) /\ Len(t) = Len(s) /\ DOMAIN t = 1..Len(s)
               /\ t[i] = x /\ \A j \in 1..Len(s) : j # i => t[j] = s[j]
  OBVIOUS

LEMMA PrefixSeq ==
    ASSUME NEW C, NEW s \in Seq(C), NEW k \in Nat, k <= Len(s)
    PROVE  SubSeq(s, 1, k) \in Seq(C)
  OBVIOUS

\* BackUp, whichever buffer it works on.
LEMMA BackUpStep ==
    ASSUME StreamsInv, class # "reader", Trims, TakeBack(Surplus), Trimmed
    PROVE  ShapeInv' /\ WriterInv' /\ GivenInv' /\ KeptInv'
<1>1. /\ pc = "writing" /\ cells # <<>> /\ ~(Len(cells) < n)
      /\ totaly' = totaly - (Len(cells) - n)
      /\ bufs' = [bufs EXCEPT ![chain].last = @ - (Len(cells) - n)]
      /\ pc' = IF bufs'[chain].last >= bufs'[chain].pos /\ totaly' >= 0 THEN "idle" ELSE "aborted"
      /\ cells' = SubSeq(cells, 1, n)
      /\ UNCHANGED <<class, chain, extends, n, messages, written, chunk, from, astray>>
  BY DEF Trims, Refreshes, TakeBack, Surplus, Trimmed, readerVars
<1>2. /\ bufs \in Seq(WriterBufs) /\ cells \in Seq(Int \X Int)
      /\ n \in Nat /\ Len(cells) \in Nat /\ written \in Nat /\ n <= written
      /\ totaly = written - n + Len(cells) /\ messages # 0
      /\ extends = Len(bufs) + 1 /\ class \in {"pool", "shm"}
      /\ chain = IF class = "pool" /\ bufs # <<>> THEN Len(bufs) ELSE 1
      /\ \A i \in DOMAIN bufs : Fits(bufs[i])
  BY <1>1, WriterFacts
<1>2a. n \in Nat /\ Len(cells) \in Nat /\ n <= Len(cells) /\ cells \in Seq(Int \X Int)
  <2>1. ~(Len(cells) < n)
    BY <1>1
  <2>2. n \in Nat /\ Len(cells) \in Nat /\ cells \in Seq(Int \X Int)
    BY <1>2
  <2> QED BY <2>1, <2>2
<1>2b. bufs \in Seq(WriterBufs) /\ \A i \in DOMAIN bufs : Fits(bufs[i])
  BY <1>2
<1>3. Given(cells, bufs, n, messages)
  BY <1>1 DEF StreamsInv, GivenInv
<1>4. Len(bufs) \in Nat /\ DOMAIN bufs = 1..Len(bufs) /\ Len(bufs) # 0 /\ bufs # <<>>
  BY <1>3, WriterFacts DEF Given
<1>5. chain \in 1..Len(bufs)
  BY <1>2, <1>4
<1>6. PICK s \in Nat : s = Len(cells) - n
  BY <1>2a
<1>7. PICK b \in WriterBufs : b = bufs[chain] /\ Fits(b)
  BY <1>2b, <1>4, <1>5
<1>8. PICK p \in Int, l \in Int, e \in Int : b.pos = p /\ b.last = l /\ b.end = e
  BY BufFacts
<1>9. PICK d : d = [b EXCEPT !.last = l - s]
  OBVIOUS
<1>10. d \in WriterBufs /\ d.pos = p /\ d.last = l - s /\ d.end = e
  BY <1>8, <1>9 DEF WriterBufs
<1>11. bufs' = [bufs EXCEPT ![chain] = d]
  BY <1>1, <1>4, <1>5, <1>6, <1>7, <1>8, <1>9
<1>12. bufs' \in Seq(WriterBufs) /\ Len(bufs') = Len(bufs) /\ DOMAIN bufs' = 1..Len(bufs)
  BY <1>2b, <1>5, <1>10, <1>11, SetFacts
<1>13. bufs'[chain] = d /\ \A i \in 1..Len(bufs) : i # chain => bufs'[i] = bufs[i]
  BY <1>4, <1>5, <1>11
<1>14. totaly' = written /\ totaly' >= 0
  BY SMTT(20), <1>1, <1>2
<1>15. cells' \in Seq(Int \X Int)
  BY <1>1, <1>2a, PrefixSeq
<1>16. ShapeInv'
  BY <1>1, <1>2, <1>12, <1>14, <1>15 DEF StreamsInv, ShapeInv
<1>17. pc' = IF d.last >= d.pos THEN "idle" ELSE "aborted"
  <2>1. pc' = IF bufs'[chain].last >= bufs'[chain].pos /\ totaly' >= 0 THEN "idle" ELSE "aborted"
    BY <1>1
  <2> QED BY <1>13, <1>14, <2>1
<1>18. WriterInv'
  <2>1. ASSUME d.last >= d.pos PROVE \A i \in DOMAIN bufs' : Fits(bufs'[i])
    <3>1. Fits(d)
      BY <1>7, <1>8, <1>10, <2>1 DEF Fits
    <3> QED BY <1>2, <1>4, <1>12, <1>13, <3>1
  <2>2. pc' # "aborted" => \A i \in DOMAIN bufs' : Fits(bufs'[i])
    BY <1>17, <2>1
  <2>3. bufs' # <<>>
    BY <1>4, <1>12, EmptyFacts
  <2> QED BY <1>1, <1>2, <1>4, <1>12, <1>14, <1>17, <2>2, <2>3 DEF WriterInv
<1>19. GivenInv'
  BY <1>17 DEF GivenInv
<1>20. KeptInv'
  <2> SUFFICES ASSUME class = "pool" \/ Len(bufs) <= 1
               PROVE  /\ pc' = "idle" /\ IsLast(cells, Contents)'
                      /\ messages = 1 => IsAll(cells, Contents)'
    BY <1>1, <1>12 DEF KeptInv
  <2>1. chain = Len(bufs)
    BY <1>2, <1>4
  <2>2. PICK D \in Seq(WriterBufs) : D = bufs'
    BY <1>12
  <2>3. D = [bufs EXCEPT ![Len(bufs)].last = @ - (Len(cells) - n)] /\ n <= Len(cells)
    <3>1. bufs' = [bufs EXCEPT ![chain].last = @ - (Len(cells) - n)]
      BY <1>1
    <3> QED BY <1>2a, <2>1, <2>2, <3>1
  <2>4. Fits(bufs[Len(bufs)])
    BY <1>2, <1>4
  <2>5. /\ IsLast(SubSeq(cells, 1, n), Bytes(D))
        /\ messages = 1 => IsAll(SubSeq(cells, 1, n), Bytes(D))
        /\ D[Len(bufs)].pos <= D[Len(bufs)].last
    BY <1>2, <1>3, <2>3, <2>4, CutGiven
  <2>6. pc' = "idle"
    BY <1>10, <1>13, <1>17, <2>1, <2>2, <2>5
  <2>7. /\ IsLast(cells', Bytes(bufs'))
        /\ messages = 1 => IsAll(cells', Bytes(bufs'))
    BY <1>1, <2>2, <2>5
  <2> QED BY <2>6, <2>7, ContentsBytes DEF IsLast, IsAll
<1> QED BY <1>16, <1>18, <1>19, <1>20

LEMMA PoolStep ==
    ASSUME StreamsInv, PoolNew \/ PoolRest \/ PoolBackUp
    PROVE  StreamsInv'
<1>0. class = "pool" /\ class # "reader"
  BY DEF PoolNew, PoolRest, PoolBackUp
<1>1. PICK B \in Seq(WriterBufs) : B = bufs
  BY <1>0, WriterFacts
<1>2. SameBytes(B, bufs)
  BY <1>1 DEF SameBytes
<1>3. chain = IF bufs # <<>> THEN Len(bufs) ELSE 1
  BY <1>0, WriterFacts
<1>4. class' = "pool"
  BY <1>0 DEF PoolNew, PoolRest, PoolBackUp, Hand, Trimmed
<1>5. ASSUME PoolNew PROVE ShapeInv' /\ WriterInv' /\ GivenInv' /\ KeptInv'
  <2>1. Refreshes /\ bufs' = Append(B, NewBuf(FALSE)) /\ extends' = extends + 1
    BY <1>1, <1>5 DEF PoolNew
  <2>2. Len(bufs') = Len(bufs) + 1
    BY <1>1, <2>1, EmptyFacts
  <2>3. Hand(Len(bufs) + 1) /\ chain' = IF class = "pool" THEN Len(bufs) + 1 ELSE 1
    BY <1>0, <1>5, <2>2 DEF PoolNew
  <2>4. PICK mark \in BOOLEAN : mark = FALSE
    OBVIOUS
  <2>5. bufs' = Append(B, NewBuf(mark))
    BY <2>1, <2>4
  <2> QED BY <1>0, <1>2, <2>1, <2>3, <2>5, NewStep
<1>6. ASSUME PoolRest PROVE ShapeInv' /\ WriterInv' /\ GivenInv' /\ KeptInv'
  <2>1. Refreshes /\ bufs # <<>> /\ chain = Len(bufs)
    BY <1>3, <1>6 DEF PoolRest, Full
  <2>2. /\ bufs[Len(bufs)].last # bufs[Len(bufs)].end
        /\ bufs' = Rest(B, Len(bufs)) /\ extends' = extends /\ chain' = chain
        /\ Hand(Len(bufs))
    BY <1>1, <1>6, <2>1 DEF PoolRest, Full
  <2> QED BY <1>0, <1>2, <2>1, <2>2, RestStep
<1>7. ASSUME PoolBackUp PROVE ShapeInv' /\ WriterInv' /\ GivenInv' /\ KeptInv'
  BY <1>0, <1>7, BackUpStep DEF PoolBackUp
<1>8. MarksAtTheEnd'
  BY <1>4 DEF MarksAtTheEnd
<1> QED BY <1>4, <1>5, <1>6, <1>7, <1>8 DEF StreamsInv

\* Each walk clears all marks but the last, which the one before it had set.
LEMMA WalkedFacts ==
    ASSUME NEW L \in Nat, NEW W \in Seq(WriterBufs), bufs \in Seq(WriterBufs), L = Len(bufs), W = Walked
    PROVE  /\ SameBytes(W, bufs) /\ Len(W) = L /\ DOMAIN W = 1..L
           /\ \A i \in 1..L : i < L => ~W[i].last_buf
           /\ \A i \in 1..L : i = L => W[i] = bufs[i]
<1>1. DOMAIN bufs = 1..L /\ DOMAIN W = 1..L
  BY DEF Walked
<1>2. Len(W) = L
  BY <1>1
<1>3. \A i \in 1..L : bufs[i] \in WriterBufs
  BY <1>1
<1>4. \A i \in 1..L : W[i] = IF i < L THEN [bufs[i] EXCEPT !.last_buf = FALSE] ELSE bufs[i]
  BY DEF Walked
<1>5. \A x \in WriterBufs :
        LET y == [x EXCEPT !.last_buf = FALSE]
        IN  y.pos = x.pos /\ y.last = x.last /\ y.end = x.end /\ y.last_buf = FALSE
  BY DEF WriterBufs
<1>6. \A i \in 1..L : W[i].pos = bufs[i].pos /\ W[i].last = bufs[i].last /\ W[i].end = bufs[i].end
  BY ZenonT(40), <1>3, <1>4, <1>5
<1>7. \A i \in 1..L : i < L => ~W[i].last_buf
  BY <1>3, <1>4, <1>5
<1>8. \A i \in 1..L : i = L => W[i] = bufs[i]
  <2>1. ~(L < L)
    OBVIOUS
  <2> QED BY <1>4, <2>1, Zenon
<1> QED BY <1>1, <1>2, <1>6, <1>7, <1>8 DEF SameBytes

LEMMA WalkedSeq ==
    ASSUME bufs \in Seq(WriterBufs)
    PROVE  Walked \in Seq(WriterBufs)
<1>1. Len(bufs) \in Nat /\ \A i \in 1..Len(bufs) : bufs[i] \in WriterBufs
  OBVIOUS
<1>2. \A x \in WriterBufs : [x EXCEPT !.last_buf = FALSE] \in WriterBufs
  BY DEF WriterBufs
<1>3. Walked \in [1..Len(bufs) -> WriterBufs]
  BY <1>1, <1>2 DEF Walked
<1> QED BY <1>1, <1>3

LEMMA ShmStep ==
    ASSUME StreamsInv, ShmNew \/ ShmRest \/ ShmBackUp
    PROVE  StreamsInv'
<1>0. class = "shm" /\ class # "reader" /\ class # "pool"
  BY DEF ShmNew, ShmRest, ShmBackUp
<1>1. bufs \in Seq(WriterBufs) /\ chain = 1
  BY <1>0, WriterFacts
<1>2. PICK L \in Nat : L = Len(bufs) /\ DOMAIN bufs = 1..L
  BY <1>0, WriterFacts
<1>3. PICK W \in Seq(WriterBufs) : W = Walked
  BY <1>1, WalkedSeq
<1>4. /\ SameBytes(W, bufs) /\ Len(W) = L /\ DOMAIN W = 1..L
      /\ \A i \in 1..L : i < L => ~W[i].last_buf
      /\ \A i \in 1..L : i = L => W[i] = bufs[i]
  BY <1>1, <1>2, <1>3, WalkedFacts
<1>5. \A i \in 1..L : /\ i = L => bufs[i].last_buf
                      /\ i < L - 1 => ~bufs[i].last_buf
  <2>1. MarksAtTheEnd
    BY <1>0 DEF StreamsInv
  <2>2. \A i \in DOMAIN bufs : /\ i = Len(bufs) => bufs[i].last_buf
                               /\ i < Len(bufs) - 1 => ~bufs[i].last_buf
    BY <1>0, <2>1, Zenon DEF MarksAtTheEnd
  <2> QED BY <1>2, <2>2, Zenon
<1>6. class' = "shm"
  BY <1>0 DEF ShmNew, ShmRest, ShmBackUp, Hand, Trimmed
<1>7. ASSUME ShmNew PROVE ShapeInv' /\ WriterInv' /\ GivenInv' /\ KeptInv' /\ MarksAtTheEnd'
  <2>1. Refreshes /\ bufs' = Append(W, NewBuf(TRUE)) /\ extends' = extends + 1 /\ chain' = chain
    BY <1>3, <1>7 DEF ShmNew
  <2>2. PICK mark \in BOOLEAN : mark = TRUE
    OBVIOUS
  <2>3. bufs' = Append(W, NewBuf(mark)) /\ NewBuf(mark).last_buf = TRUE
    BY <2>1, <2>2 DEF NewBuf
  <2>4. Len(bufs') = Len(bufs) + 1
    BY <1>2, <1>4, <2>1, EmptyFacts
  <2>5. Hand(Len(bufs) + 1)
    BY <1>7, <2>4 DEF ShmNew
  <2>6. chain' = IF class = "pool" THEN Len(bufs) + 1 ELSE 1
    BY <1>0, <1>1, <2>1
  <2>7. /\ ShapeInv' /\ WriterInv' /\ GivenInv' /\ KeptInv'
        /\ NewBuf(mark) \in WriterBufs
    BY <1>0, <1>4, <2>1, <2>3, <2>5, <2>6, NewStep
  <2>8. PICK b \in WriterBufs : b = NewBuf(mark)
    BY <2>7
  <2>9. /\ Len(Append(W, b)) = Len(W) + 1 /\ DOMAIN Append(W, b) = 1..(Len(W) + 1)
        /\ \A i \in 1..Len(W) : Append(W, b)[i] = W[i]
        /\ Append(W, b)[Len(W) + 1] = b
    BY AppendFacts
  <2>10. /\ Len(bufs') = L + 1 /\ DOMAIN bufs' = 1..(L + 1)
         /\ \A i \in 1..L : bufs'[i] = W[i]
         /\ bufs'[L + 1] = b
    BY <1>4, <2>3, <2>8, <2>9
  <2>11. MarksAtTheEnd'
    <3> SUFFICES ASSUME NEW i \in 1..(L + 1)
                 PROVE  /\ i = L + 1 => bufs'[i].last_buf
                        /\ i < (L + 1) - 1 => ~bufs'[i].last_buf
      BY <2>10 DEF MarksAtTheEnd
    <3>1. i = L + 1 => bufs'[i].last_buf
      BY <2>3, <2>8, <2>10
    <3>2. i < (L + 1) - 1 => i \in 1..L /\ i < L
      OBVIOUS
    <3>3. i < (L + 1) - 1 => ~bufs'[i].last_buf
      BY <1>4, <2>10, <3>2
    <3> QED BY <3>1, <3>3
  <2> QED BY <2>7, <2>11
<1>8. ASSUME ShmRest PROVE ShapeInv' /\ WriterInv' /\ GivenInv' /\ KeptInv' /\ MarksAtTheEnd'
  <2>1. /\ Refreshes /\ bufs # <<>>
        /\ bufs[Len(bufs)].last # bufs[Len(bufs)].end
        /\ bufs' = Rest(W, Len(bufs)) /\ extends' = extends /\ chain' = chain
        /\ Hand(Len(bufs))
    BY <1>3, <1>8 DEF ShmRest, Full
  <2>2. ShapeInv' /\ WriterInv' /\ GivenInv' /\ KeptInv'
    BY <1>0, <1>4, <2>1, RestStep
  <2>3. L \in 1..L
    BY <1>1, <1>2, <2>1, EmptyFacts
  <2>4. W[L] \in WriterBufs
    BY <1>4, <2>3
  <2>5. PICK d : d = [W[L] EXCEPT !.pos = W[L].last, !.last = W[L].end]
    OBVIOUS
  <2>6. d \in WriterBufs /\ d.last_buf = W[L].last_buf
    BY <2>4, <2>5 DEF WriterBufs
  <2>7. bufs' = [W EXCEPT ![L] = d]
    BY <1>2, <1>4, <2>1, <2>3, <2>4, <2>5 DEF Rest
  <2>8. /\ Len(bufs') = L /\ DOMAIN bufs' = 1..L /\ bufs'[L] = d
        /\ \A i \in 1..L : i # L => bufs'[i] = W[i]
    BY <1>4, <2>3, <2>6, <2>7, SetFacts
  <2>9. MarksAtTheEnd'
    <3> SUFFICES ASSUME NEW i \in 1..L
                 PROVE  /\ i = L => bufs'[i].last_buf
                        /\ i < L - 1 => ~bufs'[i].last_buf
      BY <2>8 DEF MarksAtTheEnd
    <3>1. i = L => bufs'[i].last_buf
      BY <1>4, <1>5, <2>6, <2>8
    <3>2. i < L - 1 => i < L /\ i # L
      OBVIOUS
    <3>3. i < L - 1 => ~bufs'[i].last_buf
      BY <1>4, <2>8, <3>2
    <3> QED BY <3>1, <3>3
  <2> QED BY <2>2, <2>9
<1>9. ASSUME ShmBackUp PROVE ShapeInv' /\ WriterInv' /\ GivenInv' /\ KeptInv' /\ MarksAtTheEnd'
  <2>1. ShapeInv' /\ WriterInv' /\ GivenInv' /\ KeptInv'
    BY <1>0, <1>9, BackUpStep DEF ShmBackUp
  <2>2. bufs' = [bufs EXCEPT ![1].last = @ - Surplus]
    BY <1>1, <1>9 DEF ShmBackUp, TakeBack
  <2>3. DOMAIN bufs' = 1..L /\ bufs' \in Seq(WriterBufs)
    BY <1>2, <1>6, <2>1, <2>2 DEF ShapeInv
  <2>4. Len(bufs') = L
    BY <2>3
  <2>5. \A i \in 1..L : bufs[i] \in WriterBufs
    BY <1>1, <1>2
  <2>6. \A x \in WriterBufs : \A v : [x EXCEPT !.last = v].last_buf = x.last_buf
    BY DEF WriterBufs
  <2>7. \A i \in 1..L : bufs'[i] = IF i = 1 THEN [bufs[i] EXCEPT !.last = @ - Surplus] ELSE bufs[i]
    BY <1>2, <2>2
  <2>8. \A i \in 1..L : bufs'[i].last_buf = bufs[i].last_buf
    <3> SUFFICES ASSUME NEW i \in 1..L PROVE bufs'[i].last_buf = bufs[i].last_buf
      OBVIOUS
    <3>1. CASE i = 1
      <4>1. bufs'[i] = [bufs[i] EXCEPT !.last = bufs[i].last - Surplus]
        BY <2>7, <3>1
      <4> QED BY <2>5, <2>6, <4>1, Zenon
    <3>2. CASE i # 1
      BY <2>7, <3>2
    <3> QED BY <3>1, <3>2
  <2>9. MarksAtTheEnd'
    BY <1>5, <2>3, <2>4, <2>8 DEF MarksAtTheEnd
  <2> QED BY <2>1, <2>9
<1> QED BY <1>6, <1>7, <1>8, <1>9 DEF StreamsInv
-----------------------------------------------------------------------------
(* The buffers that are read *)

\* The next position of buffer i is k bytes further on.
Moved(bs, i, k) == [bs EXCEPT ![i].pos = @ + k]

LEMMA ReadFacts ==
    \A x \in ReaderBufs : x.pos \in Int /\ x.last \in Nat /\ x.in_file \in BOOLEAN
  BY DEF ReaderBufs

LEMMA MovedFacts ==
    ASSUME NEW bs \in Seq(ReaderBufs), NEW i \in DOMAIN bs, NEW k \in Int
    PROVE  /\ Moved(bs, i, k) \in Seq(ReaderBufs) /\ Len(Moved(bs, i, k)) = Len(bs)
           /\ DOMAIN Moved(bs, i, k) = DOMAIN bs
           /\ \A j \in DOMAIN bs : /\ Moved(bs, i, k)[j].pos = IF j = i THEN bs[i].pos + k ELSE bs[j].pos
                                   /\ Moved(bs, i, k)[j].last = bs[j].last
                                   /\ Moved(bs, i, k)[j].in_file = bs[j].in_file
<1>1. PICK L \in Nat : L = Len(bs) /\ DOMAIN bs = 1..L
  BY EmptyFacts
<1>2. bs[i] \in ReaderBufs /\ bs[i].pos \in Int
  BY ReadFacts
<1>3. PICK x \in Int : x = bs[i].pos + k
  BY <1>2
<1>4. PICK d : d = [bs[i] EXCEPT !.pos = x]
  OBVIOUS
<1>5. /\ d \in ReaderBufs /\ d.pos = x /\ d.last = bs[i].last /\ d.in_file = bs[i].in_file
  BY <1>2, <1>4 DEF ReaderBufs
<1>6. PICK D : D = [bs EXCEPT ![i] = d]
  OBVIOUS
<1>7. Moved(bs, i, k) = D
  BY <1>3, <1>4, <1>6 DEF Moved
<1>8. /\ D \in Seq(ReaderBufs) /\ Len(D) = Len(bs) /\ DOMAIN D = 1..Len(bs)
      /\ D[i] = d /\ \A j \in 1..Len(bs) : j # i => D[j] = bs[j]
  BY <1>1, <1>5, <1>6, SetFacts
<1> QED BY <1>1, <1>3, <1>5, <1>7, <1>8

\* Where the first two buffers are afterwards.
LEMMA MovedAt ==
    ASSUME NEW bs \in Seq(ReaderBufs), NEW i \in DOMAIN bs, NEW k \in Int
    PROVE  /\ \A j \in {1, 2} : At(bs, j) \in Int
           /\ At(bs, i) = bs[i].pos
           /\ At(Moved(bs, i, k), i) = bs[i].pos + k
           /\ \A j \in {1, 2} : j # i => At(Moved(bs, i, k), j) = At(bs, j)
<1>1. \A j \in DOMAIN bs : bs[j] \in ReaderBufs
  OBVIOUS
<1>2. \A j \in DOMAIN bs : bs[j].pos \in Int
  BY <1>1, ReadFacts
<1>3. PICK D : D = Moved(bs, i, k)
  OBVIOUS
<1>4. /\ DOMAIN D = DOMAIN bs
      /\ \A j \in DOMAIN bs : D[j].pos = IF j = i THEN bs[i].pos + k ELSE bs[j].pos
  BY <1>3, MovedFacts
<1>5. \A j \in {1, 2} : At(bs, j) \in Int
  BY <1>2 DEF At
<1>6. At(bs, i) = bs[i].pos /\ At(D, i) = bs[i].pos + k
  BY <1>4 DEF At
<1>7. \A j \in {1, 2} : j # i => At(D, j) = At(bs, j)
  BY <1>4 DEF At
<1> QED BY <1>3, <1>5, <1>6, <1>7

\* k more bytes of the first or the second buffer are read.
LEMMA PlacedFurther ==
    ASSUME NEW bs \in Seq(ReaderBufs), NEW cs \in Seq(Int \X Int), Placed(cs, bs),
           NEW i \in DOMAIN bs, i \in {1, 2}, NEW k \in Nat, ~bs[i].in_file,
           bs[i].pos + k <= bs[i].last,
           i = 1 => k = 0 \/ At(bs, 2) = 0,
           i = 2 => bs[1].pos = bs[1].last /\ ~bs[1].in_file
    PROVE  Placed(cs \o Run(i, bs[i].pos, k), Moved(bs, i, k))
<1>1. PICK D \in Seq(ReaderBufs) : D = Moved(bs, i, k)
  BY MovedFacts
<1>2. /\ DOMAIN D = DOMAIN bs
      /\ \A j \in DOMAIN bs : /\ D[j].pos = IF j = i THEN bs[i].pos + k ELSE bs[j].pos
                              /\ D[j].last = bs[j].last /\ D[j].in_file = bs[j].in_file
  BY <1>1, MovedFacts
<1>3. \A j \in DOMAIN bs : j \in Nat \ {0} /\ bs[j].pos \in Int /\ bs[j].last \in Nat /\ bs[j].in_file \in BOOLEAN
  <2>1. \A j \in DOMAIN bs : bs[j] \in ReaderBufs /\ j \in Nat \ {0}
    OBVIOUS
  <2> QED BY <2>1, ReadFacts
<1>4. PICK o \in Int : o = bs[i].pos
  BY <1>3
<1>5. PICK a \in Int, b \in Int, A \in Int, B \in Int :
         a = At(bs, 1) /\ b = At(bs, 2) /\ A = At(D, 1) /\ B = At(D, 2)
  <2>1. At(bs, 1) \in Int /\ At(bs, 2) \in Int
    BY MovedAt
  <2>2. At(D, 1) \in Int /\ At(D, 2) \in Int
    BY <1>2, MovedAt
  <2> QED BY <2>1, <2>2
<1>6. /\ i = 1 => a = o /\ A = a + k /\ B = b
      /\ i = 2 => b = o /\ B = b + k /\ A = a
  <2>0. k \in Int
    OBVIOUS
  <2>1. At(bs, i) = o /\ At(D, i) = o + k /\ \A j \in {1, 2} : j # i => At(D, j) = At(bs, j)
    <3>1. /\ At(bs, i) = bs[i].pos
          /\ At(Moved(bs, i, k), i) = bs[i].pos + k
          /\ \A j \in {1, 2} : j # i => At(Moved(bs, i, k), j) = At(bs, j)
      BY <2>0, MovedAt
    <3> QED BY <1>1, <1>4, <3>1
  <2> QED BY <1>5, <2>1
<1>6a. i = 1 => k = 0 \/ b = 0
  BY <1>5
<1>7. 0 <= a /\ 0 <= b /\ 0 <= o
  BY <1>4, <1>5 DEF Placed, At
<1>8. PICK ds : ds = cs \o Run(i, o, k)
  OBVIOUS
<1>9. Joined(ds, cs, i, o, k)
  BY <1>3, <1>8, JoinFacts
<1>10. Len(cs) = a + b /\ Len(ds) = A + B
  <2>1. Len(cs) = a + b
    BY <1>5 DEF Placed
  <2>2. Len(ds) = Len(cs) + k
    BY <1>9 DEF Joined
  <2> QED BY <1>6, <2>1, <2>2
<1>11. ASSUME NEW j \in DOMAIN D
       PROVE  /\ 0 <= D[j].pos
              /\ j > 2 => D[j].pos = 0
              /\ D[j].pos > 0 => \A h \in 1..j : ~D[h].in_file
  <2>1. CASE j # i
    <3>1. \A h \in 1..j : h \in DOMAIN bs
      BY <1>2, <1>3
    <3>2. D[j].pos = bs[j].pos /\ \A h \in 1..j : D[h].in_file = bs[h].in_file
      BY <1>2, <2>1, <3>1
    <3>3. /\ 0 <= bs[j].pos
          /\ j > 2 => bs[j].pos = 0
          /\ bs[j].pos > 0 => \A h \in 1..j : ~bs[h].in_file
      BY <1>2 DEF Placed
    <3> QED BY <3>2, <3>3
  <2>2. CASE j = i
    <3>1. D[j].pos = o + k /\ j \in {1, 2}
      BY <1>2, <1>4, <2>2
    <3>2. 0 <= D[j].pos /\ ~(j > 2)
      BY <1>7, <3>1
    <3>3. \A h \in 1..j : ~bs[h].in_file
      BY <2>2
    <3>4. \A h \in 1..j : h \in DOMAIN bs
      BY <1>2, <1>3
    <3> QED BY <1>2, <3>2, <3>3, <3>4
  <2> QED BY <2>1, <2>2
<1>12. B > 0 => D[1].pos = D[1].last
  <2>1. CASE i = 2
    <3>1. 1 \in DOMAIN bs
      BY <2>1
    <3> QED BY <1>2, <2>1, <3>1
  <2>2. CASE i = 1
    <3>1. D[1].last = bs[1].last /\ D[1].pos = bs[1].pos + k
      BY <1>2, <2>2
    <3>2. ASSUME B > 0 PROVE k = 0 /\ bs[1].pos = bs[1].last
      BY <1>5, <1>6, <2>2, <3>2 DEF Placed
    <3>3. bs[1].pos \in Int
      BY <1>3, <2>2
    <3> QED BY <3>1, <3>2, <3>3
  <2> QED BY <2>1, <2>2
<1>13. ASSUME NEW j \in 1..Len(ds)
       PROVE  ds[j] = IF j <= A THEN <<1, j - 1>> ELSE <<2, j - A - 1>>
  <2>1. CASE j <= a + b
    <3>1. j \in 1..Len(cs)
      BY <1>10, <2>1
    <3>2. ds[j] = cs[j]
      BY <1>9, <3>1 DEF Joined
    <3>3. cs[j] = IF j <= a THEN <<1, j - 1>> ELSE <<2, j - a - 1>>
      BY <1>5, <3>1 DEF Placed
    <3>4. (j <= a <=> j <= A) /\ (~(j <= a) => a = A)
      BY <1>6, <1>6a, <1>7, <2>1, <3>1, <1>10
    <3> QED BY <3>2, <3>3, <3>4
  <2>2. CASE ~(j <= a + b)
    <3>1. j \in 1..(Len(cs) + k) /\ j > Len(cs)
      BY <1>9, <1>10, <2>2 DEF Joined
    <3>2. ds[j] = <<i, o + (j - (a + b)) - 1>>
      BY <1>9, <1>10, <3>1 DEF Joined
    <3>3. CASE i = 1
      <4>1. b = 0
        BY <1>6, <1>6a, <1>7, <1>10, <2>2, <3>3
      <4>2. j <= A /\ o + (j - (a + b)) - 1 = j - 1
        BY <1>6, <1>10, <3>3, <4>1
      <4> QED BY <3>2, <3>3, <4>2
    <3>4. CASE i = 2
      <4>1. ~(j <= A) /\ o + (j - (a + b)) - 1 = j - A - 1
        BY <1>6, <1>7, <1>10, <2>2, <3>4
      <4> QED BY <3>2, <3>4, <4>1
    <3> QED BY <3>3, <3>4
  <2> QED BY <2>1, <2>2
<1>14. Placed(ds, D)
  BY <1>5, <1>10, <1>11, <1>12, <1>13 DEF Placed
<1> QED BY <1>1, <1>4, <1>8, <1>14

\* k bytes of the first buffer are given back before any of the second is read.
LEMMA PlacedBack ==
    ASSUME NEW bs \in Seq(ReaderBufs), NEW cs \in Seq(Int \X Int), Placed(cs, bs),
           1 \in DOMAIN bs, NEW k \in Nat, k <= bs[1].pos, bs[1].pos <= bs[1].last,
           At(bs, 2) = 0
    PROVE  Placed(SubSeq(cs, 1, Len(cs) - k), Moved(bs, 1, -k))
<1>1. -k \in Int
  OBVIOUS
<1>2. PICK D \in Seq(ReaderBufs) : D = Moved(bs, 1, -k)
  BY <1>1, MovedFacts
<1>3. PICK o \in Int : o = bs[1].pos
  BY ReadFacts
<1>4. /\ DOMAIN D = DOMAIN bs /\ D[1].pos = o - k
      /\ \A j \in DOMAIN bs : j # 1 => D[j].pos = bs[j].pos
      /\ \A j \in DOMAIN bs : D[j].last = bs[j].last /\ D[j].in_file = bs[j].in_file
  <2>1. /\ DOMAIN D = DOMAIN bs
        /\ \A j \in DOMAIN bs : /\ D[j].pos = IF j = 1 THEN bs[1].pos + (-k) ELSE bs[j].pos
                                /\ D[j].last = bs[j].last /\ D[j].in_file = bs[j].in_file
    BY <1>1, <1>2, MovedFacts
  <2>2. o + (-k) = o - k
    BY <1>3
  <2> QED BY <1>3, <2>1, <2>2
<1>5. At(bs, 1) = o /\ At(D, 1) = o - k /\ At(D, 2) = 0
  BY <1>3, <1>4 DEF At
<1>6. Len(cs) = o
  BY <1>3, <1>5 DEF Placed
<1>7. PICK m \in Nat : m = o - k
  BY <1>3
<1>8. PICK ds : ds = SubSeq(cs, 1, m)
  OBVIOUS
<1>9. Len(ds) = m /\ \A j \in 1..m : ds[j] = cs[j] /\ j \in 1..Len(cs) /\ j <= o /\ j <= m
  BY <1>6, <1>7, <1>8
<1>10. \A j \in 1..m : ds[j] = <<1, j - 1>>
  BY <1>5, <1>6, <1>9 DEF Placed
<1>11. ASSUME NEW j \in DOMAIN D
       PROVE  /\ 0 <= D[j].pos
              /\ j > 2 => D[j].pos = 0
              /\ D[j].pos > 0 => \A h \in 1..j : ~D[h].in_file
  <2>0. j \in Nat \ {0} /\ \A h \in 1..j : h \in DOMAIN bs
    BY <1>4
  <2>1. \A h \in 1..j : D[h].in_file = bs[h].in_file
    BY <1>4, <2>0
  <2>2. /\ 0 <= bs[j].pos
        /\ j > 2 => bs[j].pos = 0
        /\ bs[j].pos > 0 => \A h \in 1..j : ~bs[h].in_file
    BY <1>4 DEF Placed
  <2>3. CASE j # 1
    BY <1>4, <2>1, <2>2, <2>3
  <2>4. CASE j = 1
    <3>1. D[j].pos = m /\ ~(j > 2) /\ (m > 0 => bs[j].pos > 0)
      BY <1>3, <1>4, <1>7, <2>4
    <3>2. 0 <= D[j].pos /\ (D[j].pos > 0 => bs[j].pos > 0)
      BY <3>1
    <3>3. D[j].pos > 0 => \A h \in 1..j : ~bs[h].in_file
      BY <2>2, <3>2, Zenon
    <3> QED BY <2>1, <3>1, <3>2, <3>3
  <2> QED BY <2>3, <2>4
<1>12. Len(ds) = At(D, 1) + At(D, 2) /\ ~(At(D, 2) > 0)
  BY <1>5, <1>7, <1>9
<1>13. \A j \in 1..Len(ds) : ds[j] = <<1, j - 1>> /\ j <= At(D, 1)
  BY <1>5, <1>7, <1>9, <1>10
<1>14. Placed(ds, D)
  BY <1>11, <1>12, <1>13 DEF Placed
<1> QED BY <1>2, <1>6, <1>7, <1>8, <1>14

-----------------------------------------------------------------------------
(* The steps of the reader *)

LEMMA ReaderFacts ==
    ASSUME StreamsInv, class = "reader"
    PROVE  /\ ReaderInv /\ PlaceInv /\ ShapeInv
           /\ bufs \in Seq(ReaderBufs) /\ cells \in Seq(Int \X Int) /\ astray \in BOOLEAN
           /\ Len(bufs) \in Nat /\ DOMAIN bufs = 1..Len(bufs)
           /\ \A i \in DOMAIN bufs : bufs[i].pos \in Int /\ bufs[i].last \in Nat
<1>1. bufs \in Seq(ReaderBufs) /\ cells \in Seq(Int \X Int) /\ astray \in BOOLEAN
  BY DEF StreamsInv, ShapeInv
<1>2. \A i \in DOMAIN bufs : bufs[i] \in ReaderBufs
  BY <1>1
<1>3. \A i \in DOMAIN bufs : bufs[i].pos \in Int /\ bufs[i].last \in Nat
  BY <1>2, ReadFacts
<1> QED BY <1>1, <1>3 DEF StreamsInv

\* Next and Skip: k bytes of the first or the second buffer are read.
LEMMA ReadStep ==
    ASSUME StreamsInv, class = "reader", pc = "ready",
           NEW i \in {1, 2}, Readable(i), NEW k \in Nat, bufs[i].pos + k <= bufs[i].last,
           i = 1 => k = 0 \/ ~Over(1),
           i = 2 => Readable(1) /\ Over(1),
           bufs' = Moved(bufs, i, k), cells' = cells \o Run(i, bufs[i].pos, k),
           \/ chunk' = 0 /\ from' = from
           \/ chunk' = k /\ from' = i,
           UNCHANGED <<class, chain, pc, astray, totaly, extends, n, messages, written>>
    PROVE  StreamsInv'
<1>1. /\ bufs \in Seq(ReaderBufs) /\ cells \in Seq(Int \X Int) /\ i \in DOMAIN bufs
      /\ ~bufs[i].in_file
  BY ReaderFacts DEF Readable
<1>2. k \in Int /\ i \in Int
  OBVIOUS
<1>3. PICK o \in Int, e \in Nat : o = bufs[i].pos /\ e = bufs[i].last
  BY <1>1, ReaderFacts
<1>4. /\ bufs' \in Seq(ReaderBufs) /\ DOMAIN bufs' = DOMAIN bufs
      /\ \A j \in DOMAIN bufs : bufs'[j].last = bufs[j].last
      /\ bufs'[i].pos = o + k
      /\ \A j \in DOMAIN bufs : j # i => bufs'[j].pos = bufs[j].pos
  <2>1. PICK D : D = Moved(bufs, i, k)
    OBVIOUS
  <2>2. /\ D \in Seq(ReaderBufs) /\ DOMAIN D = DOMAIN bufs
        /\ \A j \in DOMAIN bufs : /\ D[j].pos = IF j = i THEN bufs[i].pos + k ELSE bufs[j].pos
                                  /\ D[j].last = bufs[j].last
    BY <1>1, <1>2, <2>1, MovedFacts
  <2> QED BY <1>1, <1>3, <2>1, <2>2
<1>5. cells' \in Seq(Int \X Int)
  <2>1. Joined(cells \o Run(i, o, k), cells, i, o, k)
    BY <1>1, <1>2, JoinFacts
  <2> QED BY <1>3, <2>1 DEF Joined
<1>6. ShapeInv'
  <2>1. chunk' \in Int /\ from' \in Int
    BY <1>2, ReaderFacts DEF ShapeInv
  <2> QED BY <1>4, <1>5, <2>1, ReaderFacts DEF ShapeInv
<1>7. ReaderInv'
  <2>1. \A j \in DOMAIN bufs' : bufs'[j].pos <= bufs'[j].last
    BY <1>3, <1>4, ReaderFacts DEF ReaderInv
  <2>2. 1 \in DOMAIN bufs'
    BY <1>1, <1>4, ReaderFacts
  <2> QED BY <2>1, <2>2, ReaderFacts DEF ReaderInv
<1>8. PlaceInv'
  <2> SUFFICES ASSUME ~astray
               PROVE  /\ Placed(cells', bufs')
                      /\ chunk' > 0 /\ from' = 1 => chunk' <= bufs'[1].pos /\ At(bufs', 2) = 0
    BY DEF PlaceInv
  <2>1. Placed(cells, bufs) /\ (chunk > 0 /\ from = 1 => chunk <= bufs[1].pos /\ At(bufs, 2) = 0)
    BY ReaderFacts DEF PlaceInv
  <2>2. At(bufs, 2) \in Int /\ 0 <= At(bufs, 2) /\ 0 <= o
    BY SMTT(20), <1>1, <1>3, <2>1, ReaderFacts DEF At, Placed
  <2>3. ~Over(1) => At(bufs, 2) = 0
    BY <2>1, <2>2 DEF Placed, Over
  <2>4. i = 2 => bufs[1].pos = bufs[1].last /\ ~bufs[1].in_file
    BY DEF Readable, Over
  <2>5. Placed(cells \o Run(i, bufs[i].pos, k), Moved(bufs, i, k))
    BY <1>1, <2>1, <2>3, <2>4, PlacedFurther
  <2>6. ASSUME chunk' > 0, from' = 1 PROVE chunk' <= bufs'[1].pos /\ At(bufs', 2) = 0
    <3>1. chunk' = k /\ i = 1 /\ k > 0
      BY <2>6
    <3>2. At(bufs, 2) = 0
      BY <2>3, <3>1
    <3>3. At(bufs', 2) = 0
      BY <1>4, <3>1, <3>2 DEF At
    <3>4. chunk' <= bufs'[1].pos
      BY <1>4, <2>2, <3>1
    <3> QED BY <3>3, <3>4
  <2> QED BY <2>5, <2>6
<1> QED BY <1>6, <1>7, <1>8 DEF StreamsInv

LEMMA NextReadStep ==
    ASSUME StreamsInv, class = "reader", NextHere \/ NextFurther
    PROVE  StreamsInv'
<1>1. chain = 1 /\ pc = "ready"
  BY ReaderFacts DEF ReaderInv, NextHere, NextFurther, LooksFurther
<1>2. PICK i \in {1, 2} : /\ Give(i) /\ Readable(i) /\ ~Over(i)
                          /\ i = 2 => Readable(1) /\ Over(1)
  <2>1. CASE NextHere
    BY <1>1, <2>1 DEF NextHere
  <2>2. CASE NextFurther
    <3>1. chain + 1 = 2
      BY <1>1
    <3> QED BY <1>1, <2>2, <3>1 DEF NextFurther, LooksFurther
  <2> QED BY <2>1, <2>2
<1>3. i \in DOMAIN bufs /\ bufs[i].pos \in Int /\ bufs[i].last \in Nat
  BY <1>2, ReaderFacts DEF Readable
<1>4. bufs[i].pos <= bufs[i].last
  BY <1>3, ReaderFacts DEF ReaderInv
<1>5. PICK k \in Nat : k = bufs[i].last - bufs[i].pos
  BY <1>3, <1>4
<1>6. bufs[i].pos + k = bufs[i].last
  BY <1>3, <1>5
<1>7. bufs' = Moved(bufs, i, k)
  BY <1>2, <1>6 DEF Give, Moved
<1>8. /\ chunk' = k /\ from' = i /\ cells' = cells \o Run(i, bufs[i].pos, k)
      /\ UNCHANGED <<class, chain, pc, astray, totaly, extends, n, messages, written>>
  BY <1>2, <1>5 DEF Give, writerVars
<1>9. i = 1 => k = 0 \/ ~Over(1)
  BY <1>2
<1>10. bufs[i].pos + k <= bufs[i].last
  BY <1>3, <1>6
<1> QED BY <1>1, <1>2, <1>7, <1>8, <1>9, <1>10, ReadStep

LEMMA SkipStep ==
    ASSUME StreamsInv, class = "reader", NEW k \in Nat, SkipHere(k)
    PROVE  StreamsInv'
<1>1. chain = 1 /\ pc = "ready"
  BY ReaderFacts DEF ReaderInv, SkipHere
<1>2. Readable(1) /\ bufs[1].last - bufs[1].pos >= k
  BY <1>1 DEF SkipHere, Left
<1>3. bufs[1].pos \in Int /\ bufs[1].last \in Nat
  BY <1>2, ReaderFacts DEF Readable
<1>4. bufs[1].pos + k <= bufs[1].last
  BY <1>2, <1>3
<1>5. k = 0 \/ ~Over(1)
  BY <1>3, <1>4 DEF Over
<1>6. /\ bufs' = Moved(bufs, 1, k) /\ cells' = cells \o Run(1, bufs[1].pos, k)
      /\ chunk' = 0 /\ from' = from
      /\ UNCHANGED <<class, chain, pc, astray, totaly, extends, n, messages, written>>
  BY <1>1 DEF SkipHere, Moved, writerVars
<1>7. PICK i \in {1, 2} : i = 1
  OBVIOUS
<1>8. /\ Readable(i) /\ bufs[i].pos + k <= bufs[i].last
      /\ i = 1 => k = 0 \/ ~Over(1)
      /\ i = 2 => Readable(1) /\ Over(1)
      /\ bufs' = Moved(bufs, i, k) /\ cells' = cells \o Run(i, bufs[i].pos, k)
  BY <1>2, <1>4, <1>5, <1>6, <1>7
<1> QED BY <1>1, <1>6, <1>8, ReadStep

\* Next or Skip returns false, or Next does not return.
LEMMA StopStep ==
    ASSUME StreamsInv, class = "reader",
           NextFalse \/ NextSpins \/ (\E k \in Nat : SkipFalse(k))
    PROVE  StreamsInv'
<1>1. /\ pc = "ready" /\ chain = 1
      /\ UNCHANGED <<class, bufs, cells, from, astray, totaly, extends, n, messages, written>>
      /\ chunk' = 0 \/ chunk' = chunk
  BY ReaderFacts DEF ReaderInv, NextFalse, NextSpins, Spins, LooksFurther, SkipFalse,
     readerVars, writerVars
<1>2. ShapeInv'
  <2>1. chunk' \in Int
    BY <1>1, ReaderFacts DEF ShapeInv
  <2> QED BY <1>1, <2>1, ReaderFacts DEF ShapeInv
<1>3. PlaceInv'
  BY <1>1, ReaderFacts DEF PlaceInv
<1>4. ReaderInv'
  <2>1. /\ totaly' = 0
        /\ chunk' > 0 => 1 \in DOMAIN bufs'
        /\ \A i \in DOMAIN bufs' : bufs'[i].pos <= bufs'[i].last
    BY <1>1, ReaderFacts DEF ReaderInv
  <2>2. CASE NextFalse
    <3>1. pc' = "end" /\ chain' = 1 /\ AtEnd
      BY <1>1, <2>2 DEF NextFalse
    <3>2. AtEnd'
      BY <1>1, <3>1 DEF AtEnd, Readable, Over
    <3> QED BY <2>1, <3>1, <3>2 DEF ReaderInv
  <2>3. CASE NextSpins
    <3>1. /\ pc' = "spin" /\ chain' = 1 /\ Over(1)
          /\ 1 < Len(bufs) /\ Over(chain + 1)
      BY <1>1, <2>3 DEF NextSpins, Spins, LooksFurther
    <3>2. Over(2) /\ Len(bufs) >= 2
      BY <1>1, <3>1, ReaderFacts
    <3>3. Over(1)' /\ Over(2)' /\ Len(bufs') >= 2
      BY <1>1, <3>1, <3>2 DEF Over
    <3> QED BY <2>1, <3>1, <3>3 DEF ReaderInv
  <2>4. ASSUME NEW k \in Nat, SkipFalse(k) PROVE ReaderInv'
    <3>1. \/ pc' = "failed" /\ chain' = 1
          \/ pc' = "failed" /\ 1 < Len(bufs) /\ chain' = 2
          \/ pc' = "crashed" /\ chain' = Null
      BY <1>1, <2>4 DEF SkipFalse
    <3>2. 1 < Len(bufs) => 2 \in DOMAIN bufs'
      BY <1>1, ReaderFacts
    <3> QED BY <2>1, <3>1, <3>2 DEF ReaderInv
  <2> QED BY <2>2, <2>3, <2>4
<1> QED BY <1>1, <1>2, <1>3, <1>4 DEF StreamsInv

LEMMA ReaderBackUpStep ==
    ASSUME StreamsInv, class = "reader", NEW k \in 1..chunk, ReaderBackUp(k)
    PROVE  StreamsInv'
<1>1. chunk \in Int /\ k \in Nat /\ k > 0 /\ chunk > 0 /\ k <= chunk /\ -k \in Int
  BY ReaderFacts DEF ShapeInv
<1>2. pc = "ready" /\ chain = 1 /\ 1 \in DOMAIN bufs
  BY <1>1, ReaderFacts DEF ReaderInv, ReaderBackUp
<1>3. bufs[1].pos \in Int /\ bufs[1].last \in Nat /\ bufs[1].pos <= bufs[1].last
  BY <1>2, ReaderFacts DEF ReaderInv
<1>4. bufs[1].pos - k = bufs[1].pos + (-k)
  BY <1>1, <1>3
<1>5. /\ bufs' = Moved(bufs, 1, -k) /\ cells' = SubSeq(cells, 1, Len(cells) - k)
      /\ chunk' = 0 /\ astray' = (astray \/ from # 1)
      /\ UNCHANGED <<class, chain, pc, from, totaly, extends, n, messages, written>>
  BY <1>2, <1>4 DEF ReaderBackUp, Moved, writerVars
<1>6. /\ bufs' \in Seq(ReaderBufs) /\ DOMAIN bufs' = DOMAIN bufs
      /\ \A j \in DOMAIN bufs : bufs'[j].last = bufs[j].last
      /\ bufs'[1].pos = bufs[1].pos + (-k)
      /\ \A j \in DOMAIN bufs : j # 1 => bufs'[j].pos = bufs[j].pos
  <2>1. PICK D : D = Moved(bufs, 1, -k)
    OBVIOUS
  <2>2. /\ D \in Seq(ReaderBufs) /\ DOMAIN D = DOMAIN bufs
        /\ \A j \in DOMAIN bufs : /\ D[j].pos = IF j = 1 THEN bufs[1].pos + (-k) ELSE bufs[j].pos
                                  /\ D[j].last = bufs[j].last
    <3>1. bufs \in Seq(ReaderBufs)
      BY ReaderFacts
    <3>2. PICK h \in Int : h = -k
      BY <1>1
    <3>2a. PICK b \in Seq(ReaderBufs) : b = bufs
      BY <3>1
    <3>2b. PICK i \in DOMAIN b : i = 1
      BY <1>2, <3>2a
    <3>3. b = bufs /\ i = 1
      BY <3>2a, <3>2b
    <3>4. D = Moved(b, i, h)
      BY <2>1, <3>2, <3>3
    <3>5. /\ D \in Seq(ReaderBufs) /\ DOMAIN D = DOMAIN b
          /\ \A j \in DOMAIN b : /\ D[j].pos = IF j = i THEN b[i].pos + h ELSE b[j].pos
                                 /\ D[j].last = b[j].last
      BY <3>4, MovedFacts
    <3> QED BY <3>2, <3>3, <3>5
  <2> QED BY <1>2, <1>5, <2>1, <2>2
<1>7. cells' \in Seq(Int \X Int)
  <2>1. cells \in Seq(Int \X Int)
    BY ReaderFacts
  <2>2. PICK c \in Seq(Int \X Int), x \in Nat : c = cells /\ x = Len(c)
    BY <2>1
  <2>3. PICK m \in Int : m = x - k
    BY <1>1
  <2>4. cells' = SubSeq(c, 1, m)
    BY <1>5, <2>2, <2>3
  <2>5. CASE m >= 0
    <3>1. m \in Nat /\ m <= Len(c)
      BY <1>1, <2>2, <2>3, <2>5
    <3> QED BY <2>4, <3>1, PrefixSeq
  <2>6. CASE m < 0
    <3>1. SubSeq(c, 1, m) = <<>>
      BY <2>2, <2>6
    <3> QED BY <2>4, <3>1, NoCells
  <2> QED BY <2>5, <2>6
<1>8. ShapeInv'
  BY <1>5, <1>6, <1>7, ReaderFacts DEF ShapeInv
<1>9. ReaderInv'
  <2>1. \A j \in DOMAIN bufs' : bufs'[j].pos <= bufs'[j].last
    <3>1. bufs'[1].pos <= bufs'[1].last
      BY <1>1, <1>2, <1>3, <1>6
    <3> QED BY <1>6, <3>1, ReaderFacts DEF ReaderInv
  <2> QED BY <1>2, <1>5, <2>1, ReaderFacts DEF ReaderInv
<1>10. PlaceInv'
  <2> SUFFICES ASSUME ~astray' PROVE Placed(cells', bufs')
    BY <1>5 DEF PlaceInv
  <2>1. ~astray /\ from = 1
    BY <1>5
  <2>2. Placed(cells, bufs) /\ chunk <= bufs[1].pos /\ At(bufs, 2) = 0
    BY <1>1, <2>1, ReaderFacts DEF PlaceInv
  <2>3. k <= bufs[1].pos
    BY <1>1, <1>3, <2>2
  <2>4. bufs \in Seq(ReaderBufs) /\ cells \in Seq(Int \X Int)
    BY ReaderFacts
  <2>5. Placed(SubSeq(cells, 1, Len(cells) - k), Moved(bufs, 1, -k))
    BY <1>1, <1>2, <1>3, <2>2, <2>3, <2>4, PlacedBack
  <2> QED BY <1>5, <2>5
<1> QED BY <1>5, <1>8, <1>9, <1>10 DEF StreamsInv

-----------------------------------------------------------------------------
(* The inductive invariant *)

LEMMA InitStreams == Init => StreamsInv
<1> SUFFICES ASSUME Init PROVE StreamsInv
  OBVIOUS
<1>1. Common
  BY DEF Init, InitWriter, InitReader
<1>2. /\ cells \in Seq(Int \X Int) /\ Len(cells) = 0 /\ DOMAIN cells = {} /\ Range(cells) = {}
      /\ cells = <<>>
  BY <1>1 DEF Common, Range
<1>2a. /\ totaly \in Int /\ extends \in Nat /\ n \in Nat /\ messages \in Nat /\ written \in Nat
       /\ chunk \in Int /\ from \in Int
  BY <1>1 DEF Common
<1>2b. astray \in BOOLEAN
  BY <1>1 DEF Common
<1>3. CASE InitWriter
  <2>1. /\ class \in {"pool", "shm"} /\ class # "reader" /\ bufs = <<>> /\ pc = "idle"
        /\ bufs \in Seq(WriterBufs) /\ Len(bufs) = 0 /\ DOMAIN bufs = {}
    BY <1>3 DEF InitWriter
  <2>2. ShapeInv
    BY <1>2, <1>2a, <1>2b, <2>1 DEF ShapeInv
  <2>3. WriterInv
    BY <1>1, <2>1 DEF WriterInv, Common
  <2>4. GivenInv /\ MarksAtTheEnd
    BY <2>1 DEF GivenInv, MarksAtTheEnd
  <2>5. Contents = {}
    BY <2>1 DEF Contents
  <2>6. KeptInv
    BY <1>2, <2>1, <2>5 DEF KeptInv, IsLast, IsAll, InOrder
  <2> QED BY <2>1, <2>2, <2>3, <2>4, <2>6 DEF StreamsInv
<1>4. CASE InitReader
  <2>1. class = "reader" /\ pc = "ready"
    BY <1>4 DEF InitReader
  <2>2. PICK k \in 0..MaxBufs : bufs \in [1..k -> Buffers]
    BY <1>4 DEF InitReader
  <2>3. k \in Nat
    BY StreamAssumption
  <2>4. Buffers \subseteq ReaderBufs /\ \A x \in Buffers : x.pos = 0 /\ x.last \in Nat
    BY StreamAssumption DEF Buffers, ReaderBufs
  <2>5. bufs \in Seq(ReaderBufs)
    <3>1. bufs \in [1..k -> ReaderBufs]
      BY <2>2, <2>4
    <3> QED BY <2>3, <3>1
  <2>6. \A i \in DOMAIN bufs : bufs[i].pos = 0 /\ bufs[i].last \in Nat
    BY <2>2, <2>4
  <2>7. ShapeInv
    BY <1>2, <1>2a, <1>2b, <2>1, <2>5 DEF ShapeInv
  <2>8. ReaderInv
    BY <1>1, <2>1, <2>6 DEF ReaderInv, Common
  <2>9. At(bufs, 1) = 0 /\ At(bufs, 2) = 0
    BY <2>6 DEF At
  <2>10. Placed(cells, bufs)
    BY <1>2, <2>6, <2>9 DEF Placed
  <2>11. PlaceInv
    BY <1>1, <2>10 DEF PlaceInv, Common
  <2> QED BY <2>1, <2>7, <2>8, <2>11 DEF StreamsInv
<1> QED BY <1>3, <1>4 DEF Init

\* Only a reader is ever "ready", and only a writer "idle" or "writing".
LEMMA ReadyIsReader ==
    ASSUME StreamsInv, pc = "ready"
    PROVE  class = "reader"
  BY DEF StreamsInv, WriterInv

LEMMA NextStreams == StreamsInv /\ [Next]_vars => StreamsInv'
<1> SUFFICES ASSUME StreamsInv, [Next]_vars PROVE StreamsInv'
  OBVIOUS
<1>1. CASE UNCHANGED vars
  BY <1>1 DEF vars, writerVars, readerVars, StreamsInv, ShapeInv, WriterInv, GivenInv, KeptInv,
     Contents, MarksAtTheEnd, ReaderInv, PlaceInv, AtEnd, Readable, Over
<1>2. ASSUME NEW k \in 0..MaxBytes, Serialize(k) PROVE StreamsInv'
  BY <1>2, SerializeStep
<1>3. CASE PoolNew \/ PoolRest \/ PoolBackUp
  BY <1>3, PoolStep
<1>4. CASE ShmNew \/ ShmRest \/ ShmBackUp
  BY <1>4, ShmStep
<1>5. CASE NextHere \/ NextFurther
  <2>1. pc = "ready"
    BY <1>5 DEF NextHere, NextFurther, LooksFurther
  <2> QED BY <1>5, <2>1, ReadyIsReader, NextReadStep
<1>6. CASE NextFalse \/ NextSpins
  <2>1. pc = "ready"
    BY <1>6 DEF NextFalse, NextSpins, Spins, LooksFurther
  <2> QED BY <1>6, <2>1, ReadyIsReader, StopStep
<1>7. ASSUME NEW count \in 1..chunk, ReaderBackUp(count) PROVE StreamsInv'
  <2>1. pc = "ready"
    BY <1>7 DEF ReaderBackUp
  <2> QED BY <1>7, <2>1, ReadyIsReader, ReaderBackUpStep
<1>8. ASSUME NEW count \in 0..(MaxBufs * MaxSize), SkipHere(count) \/ SkipFalse(count)
      PROVE  StreamsInv'
  <2>1. pc = "ready"
    BY <1>8 DEF SkipHere, SkipFalse
  <2>2. count \in Nat
    OBVIOUS
  <2>3. class = "reader"
    BY <2>1, ReadyIsReader
  <2>4. CASE SkipHere(count)
    BY <2>2, <2>3, <2>4, SkipStep
  <2>5. CASE SkipFalse(count)
    <3>1. \E k \in Nat : SkipFalse(k)
      BY <2>2, <2>5
    <3> QED BY <2>3, <3>1, StopStep
  <2> QED BY <1>8, <2>4, <2>5
<1> QED BY <1>1, <1>2, <1>3, <1>4, <1>5, <1>6, <1>7, <1>8 DEF Next

\* The invariant of the streams: it holds whatever the class, for messages of
\* any size, any number of them, and chains of any length.
THEOREM StreamsInvariant == Spec => []StreamsInv
  BY InitStreams, NextStreams, PTL DEF Spec

-----------------------------------------------------------------------------
(* What the writers promise *)

\* The position of every stream is well formed in every behaviour.
THEOREM StreamsTypeOK == Spec => []TypeOK
<1>1. StreamsInv => TypeOK
  <2> SUFFICES ASSUME StreamsInv PROVE TypeOK
    OBVIOUS
  <2>1. CASE class = "reader"
    <3>1. ReaderInv /\ PlaceInv
      BY <2>1, ReaderFacts
    <3>2. ~astray => \A i \in DOMAIN bufs : 0 <= bufs[i].pos
      BY <3>1 DEF PlaceInv, Placed
    <3> QED BY <2>1, <3>1, <3>2 DEF TypeOK, ReaderInv
  <2>2. CASE class # "reader"
    <3>1. /\ written \in Nat /\ n \in Nat /\ Len(cells) \in Nat /\ n <= written
          /\ totaly = IF pc = "writing" THEN written - n + Len(cells) ELSE written
          /\ extends = Len(bufs) + 1 /\ pc \in {"idle", "writing", "aborted"}
          /\ chain = IF class = "pool" /\ bufs # <<>> THEN Len(bufs) ELSE 1
          /\ Len(bufs) \in Nat /\ DOMAIN bufs = 1..Len(bufs) /\ (bufs = <<>> <=> Len(bufs) = 0)
      BY <2>2, WriterFacts
    <3>2. totaly \in Nat
      BY <3>1
    <3>3. chain \in {1} \union DOMAIN bufs
      BY <3>1
    <3>4. pc # "aborted" => \A i \in DOMAIN bufs : Fits(bufs[i])
      BY <2>2 DEF StreamsInv, WriterInv
    <3> QED BY <2>2, <3>1, <3>2, <3>3, <3>4 DEF TypeOK, Fits
  <2> QED BY <2>1, <2>2
<1> QED BY <1>1, StreamsInvariant, PTL

\* NgxChainBufferWriter holds every message whole and in order and never fails
\* an assert of BackUp, NgxShmChainBufferWriter does while one buffer is enough,
\* and ByteCount of both is the number of bytes written.
THEOREM StreamsWrittenRight == Spec => []WrittenRight
<1>1. StreamsInv => WrittenRight
  <2> SUFFICES ASSUME StreamsInv PROVE WrittenRight
    OBVIOUS
  <2>1. CASE class = "reader"
    <3>1. pc # "idle"
      BY <2>1, ReaderFacts DEF ReaderInv
    <3> QED BY <2>1, <3>1 DEF WrittenRight
  <2>2. CASE class # "reader"
    <3>1. KeptInv /\ WriterInv
      BY <2>2 DEF StreamsInv
    <3>2. pc = "idle" => totaly = written
      BY <3>1 DEF WriterInv
    <3>3. class = "pool" \/ (class = "shm" /\ Len(bufs) <= 1) => AssertHolds /\ Holds
      BY <3>1 DEF KeptInv, AssertHolds, Holds
    <3> QED BY <3>2, <3>3 DEF WrittenRight
  <2> QED BY <2>1, <2>2
<1> QED BY <1>1, StreamsInvariant, PTL

\* Of a shared chain only the last buffer and the last but one are ever marked
\* last_buf, the last one always.
THEOREM StreamsMarks == Spec => []MarksAtTheEnd
<1>1. StreamsInv => MarksAtTheEnd
  BY DEF StreamsInv, MarksAtTheEnd
<1> QED BY <1>1, StreamsInvariant, PTL

-----------------------------------------------------------------------------
(* What the reader promises *)

\* Which bytes have been read.
LEMMA PlacedRange ==
    ASSUME NEW bs \in Seq(ReaderBufs), NEW cs \in Seq(Int \X Int), Placed(cs, bs),
           NEW a \in Nat, NEW b \in Nat, a = At(bs, 1), b = At(bs, 2)
    PROVE  /\ InOrder(cs)
           /\ \A c \in Range(cs) : c \in Int \X Int
           /\ \A c \in Int \X Int : c \in Range(cs) <=>
                 0 <= c[2] /\ ((c[1] = 1 /\ c[2] < a) \/ (c[1] = 2 /\ c[2] < b))
<1>1. Len(cs) = a + b /\ DOMAIN cs = 1..(a + b)
  <2>1. Len(cs) = a + b
    BY DEF Placed
  <2> QED BY <2>1
<1>2. \A j \in 1..(a + b) : /\ j <= a => cs[j] = <<1, j - 1>>
                            /\ ~(j <= a) => cs[j] = <<2, j - a - 1>>
  BY <1>1 DEF Placed
<1>3. InOrder(cs)
  <2> SUFFICES ASSUME NEW j \in 1..(a + b), NEW k \in 1..(a + b), j < k
               PROVE  Before(cs[j], cs[k])
    BY <1>1 DEF InOrder
  <2>1. j \in Int /\ k \in Int
    OBVIOUS
  <2>2. CASE k <= a
    <3>1. j <= a /\ j - 1 < k - 1 /\ j - 1 \in Int /\ k - 1 \in Int
      BY <2>1, <2>2
    <3>2. cs[j] = <<1, j - 1>> /\ cs[k] = <<1, k - 1>>
      BY <1>2, <2>1, <2>2, <3>1
    <3> QED BY <3>1, <3>2 DEF Before
  <2>3. CASE j <= a /\ ~(k <= a)
    <3>1. cs[j] = <<1, j - 1>> /\ cs[k] = <<2, k - a - 1>>
      BY <1>2, <2>1, <2>3
    <3> QED BY <3>1 DEF Before
  <2>4. CASE ~(j <= a)
    <3>1. ~(k <= a) /\ j - a - 1 < k - a - 1 /\ j - a - 1 \in Int /\ k - a - 1 \in Int
      BY SMTT(20), <2>1, <2>4
    <3>2. cs[j] = <<2, j - a - 1>> /\ cs[k] = <<2, k - a - 1>>
      BY <1>2, <2>1, <2>4, <3>1
    <3> QED BY <3>1, <3>2 DEF Before
  <2> QED BY <2>1, <2>2, <2>3, <2>4
<1>4. ASSUME NEW c \in Int \X Int, c \in Range(cs)
      PROVE  0 <= c[2] /\ ((c[1] = 1 /\ c[2] < a) \/ (c[1] = 2 /\ c[2] < b))
  <2>1. PICK j \in 1..(a + b) : c = cs[j]
    BY <1>1, <1>4 DEF Range
  <2>2. CASE j <= a
    <3>1. c = <<1, j - 1>> /\ 0 <= j - 1 /\ j - 1 < a
      BY SMTT(20), <1>2, <2>1, <2>2
    <3> QED BY <3>1
  <2>3. CASE ~(j <= a)
    <3>1. 0 <= j - a - 1 /\ j - a - 1 < b
      BY <2>3
    <3>2. c = <<2, j - a - 1>>
      BY <1>2, <2>1, <2>3
    <3> QED BY <3>1, <3>2
  <2> QED BY <2>2, <2>3
<1>5. ASSUME NEW x \in Int, 0 <= x, x < a PROVE <<1, x>> \in Range(cs)
  <2>1. x + 1 \in 1..(a + b) /\ x + 1 <= a /\ (x + 1) - 1 = x
    BY <1>5
  <2>2. cs[x + 1] = <<1, x>> /\ x + 1 \in DOMAIN cs
    BY <1>1, <1>2, <2>1
  <2> QED BY <2>2 DEF Range
<1>6. ASSUME NEW x \in Int, 0 <= x, x < b PROVE <<2, x>> \in Range(cs)
  <2>1. PICK j \in Int : j = a + x + 1
    OBVIOUS
  <2>2. j \in 1..(a + b) /\ ~(j <= a) /\ j - a - 1 = x
    BY SMTT(20), <1>6, <2>1
  <2>3. cs[j] = <<2, x>> /\ j \in DOMAIN cs
    BY <1>1, <1>2, <2>2
  <2> QED BY <2>3 DEF Range
<1>7. ASSUME NEW c \in Int \X Int, 0 <= c[2],
             (c[1] = 1 /\ c[2] < a) \/ (c[1] = 2 /\ c[2] < b)
      PROVE  c \in Range(cs)
  <2>1. PICK y \in Int, x \in Int : c = <<y, x>>
    OBVIOUS
  <2> QED BY <1>5, <1>6, <1>7, <2>1
<1>8. \A c \in Range(cs) : c \in Int \X Int
  BY DEF Range
<1> QED BY <1>3, <1>4, <1>7, <1>8

LEMMA StreamFacts ==
    ASSUME bufs \in Seq(ReaderBufs)
    PROVE  /\ Stream \in SUBSET (Int \X Int)
           /\ \A c \in Int \X Int : c \in Stream <=>
                 c[1] \in DOMAIN bufs /\ InMemory(c[1]) /\ 0 <= c[2] /\ c[2] < bufs[c[1]].last
<1>1. \A i \in DOMAIN bufs : i \in Int /\ bufs[i] \in ReaderBufs
  OBVIOUS
<1>2. \A i \in DOMAIN bufs : i \in Int /\ bufs[i].last \in Nat
  BY <1>1, ReadFacts
<1>3. Stream \in SUBSET (Int \X Int)
  BY <1>2 DEF Stream
<1>4. ASSUME NEW i \in Int, NEW o \in Int
      PROVE  <<i, o>> \in Stream <=> i \in DOMAIN bufs /\ InMemory(i) /\ 0 <= o /\ o < bufs[i].last
  BY <1>2 DEF Stream
<1>5. ASSUME NEW c \in Int \X Int
      PROVE  c \in Stream <=>
                 c[1] \in DOMAIN bufs /\ InMemory(c[1]) /\ 0 <= c[2] /\ c[2] < bufs[c[1]].last
  <2>1. PICK i \in Int, o \in Int : c = <<i, o>>
    OBVIOUS
  <2> QED BY <1>4, <2>1
<1> QED BY <1>3, <1>5

LEMMA PlacedFirst ==
    ASSUME bufs \in Seq(ReaderBufs), cells \in Seq(Int \X Int), Placed(cells, bufs),
           \A i \in DOMAIN bufs : bufs[i].pos <= bufs[i].last
    PROVE  /\ IsFirst(cells, Stream)
           /\ (chain = 1 /\ AtEnd) => IsAll(cells, Stream)
<1>1. \A i \in DOMAIN bufs : bufs[i].pos \in Int /\ bufs[i].last \in Nat
  <2>1. \A i \in DOMAIN bufs : bufs[i] \in ReaderBufs
    OBVIOUS
  <2> QED BY <2>1, ReadFacts
<1>2. \A i \in DOMAIN bufs : 0 <= bufs[i].pos /\ (bufs[i].pos > 0 => InMemory(i))
  BY DEF Placed, InMemory
<1>3. PICK a \in Nat, b \in Nat : a = At(bufs, 1) /\ b = At(bufs, 2)
  <2>1. At(bufs, 1) \in Nat /\ At(bufs, 2) \in Nat
    BY <1>1, <1>2 DEF At
  <2> QED BY <2>1
<1>4. /\ InOrder(cells)
      /\ \A c \in Range(cells) : c \in Int \X Int
      /\ \A c \in Int \X Int : c \in Range(cells) <=>
            0 <= c[2] /\ ((c[1] = 1 /\ c[2] < a) \/ (c[1] = 2 /\ c[2] < b))
  BY <1>3, PlacedRange
<1>5. /\ Stream \in SUBSET (Int \X Int)
      /\ \A c \in Int \X Int : c \in Stream <=>
            c[1] \in DOMAIN bufs /\ InMemory(c[1]) /\ 0 <= c[2] /\ c[2] < bufs[c[1]].last
  BY StreamFacts
<1>6. /\ a > 0 => 1 \in DOMAIN bufs /\ InMemory(1) /\ a <= bufs[1].last
      /\ b > 0 => 2 \in DOMAIN bufs /\ InMemory(2) /\ b <= bufs[2].last
  BY <1>2, <1>3 DEF At
<1>7. b > 0 => 1 \in DOMAIN bufs /\ a = bufs[1].last
  <2>1. b > 0 => 1 \in DOMAIN bufs
    BY <1>6
  <2>2. b > 0 => bufs[1].pos = bufs[1].last
    BY <1>3 DEF Placed
  <2> QED BY <1>3, <2>1, <2>2 DEF At
<1>8. \A i \in DOMAIN bufs : i \in Nat /\ i >= 1
  OBVIOUS
<1>9. \A c \in Range(cells) : c \in Stream
  <2> SUFFICES ASSUME NEW c \in Range(cells) PROVE c \in Stream
    OBVIOUS
  <2>1. c \in Int \X Int /\ 0 <= c[2] /\ ((c[1] = 1 /\ c[2] < a) \/ (c[1] = 2 /\ c[2] < b))
    BY <1>4
  <2>2. PICK x \in Int, y \in Int : x = c[1] /\ y = c[2]
    BY <2>1
  <2>3. CASE x = 1 /\ y < a
    <3>1. a > 0
      BY <2>1, <2>2, <2>3
    <3>2. 1 \in DOMAIN bufs /\ InMemory(1) /\ y < bufs[1].last
      BY <1>1, <1>6, <2>3, <3>1
    <3> QED BY <1>5, <2>1, <2>2, <2>3, <3>2
  <2>4. CASE x = 2 /\ y < b
    <3>1. b > 0
      BY <2>1, <2>2, <2>4
    <3>2. 2 \in DOMAIN bufs /\ InMemory(2) /\ y < bufs[2].last
      BY <1>1, <1>6, <2>4, <3>1
    <3> QED BY <1>5, <2>1, <2>2, <2>4, <3>2
  <2> QED BY <2>1, <2>2, <2>3, <2>4
<1>10. ASSUME NEW c \in Stream, NEW d \in Range(cells), Before(c, d) PROVE c \in Range(cells)
  <2>1. PICK x \in Int, y \in Int, u \in Int, v \in Int :
           x = c[1] /\ y = c[2] /\ u = d[1] /\ v = d[2]
    BY <1>4, <1>5
  <2>2. x \in DOMAIN bufs /\ 0 <= y /\ y < bufs[x].last /\ x >= 1
    BY <1>5, <1>8, <2>1
  <2>3. 0 <= v /\ ((u = 1 /\ v < a) \/ (u = 2 /\ v < b))
    BY <1>4, <2>1
  <2>4. x < u \/ (x = u /\ y < v)
    BY <1>10, <2>1 DEF Before
  <2>5. (x = 1 /\ y < a) \/ (x = 2 /\ y < b)
    <3>1. CASE u = 1
      BY <2>2, <2>3, <2>4, <3>1
    <3>2. CASE u = 2 /\ x = u
      BY <2>3, <2>4, <3>2
    <3>3. CASE u = 2 /\ x < u
      <4>1. x = 1 /\ b > 0
        BY <2>2, <2>3, <3>3
      <4> QED BY <1>7, <2>2, <4>1
    <3> QED BY <2>3, <2>4, <3>1, <3>2, <3>3
  <2>6. c \in Int \X Int
    BY <1>5
  <2> QED BY <1>4, <2>1, <2>2, <2>5, <2>6
<1>11. IsFirst(cells, Stream)
  BY <1>4, <1>9, <1>10 DEF IsFirst
<1>12. ASSUME chain = 1, AtEnd, NEW c \in Stream PROVE c \in Range(cells)
  <2>1. PICK x \in Int, y \in Int : x = c[1] /\ y = c[2]
    BY <1>5
  <2>2. c \in Int \X Int /\ x \in DOMAIN bufs /\ InMemory(x) /\ 0 <= y /\ y < bufs[x].last
    BY <1>5, <2>1
  <2>3. x \in Nat /\ x >= 1 /\ x <= Len(bufs) /\ DOMAIN bufs = 1..Len(bufs) /\ Len(bufs) \in Nat
    BY <2>2
  <2>4. 1 \in 1..x /\ 1 \in DOMAIN bufs
    BY <2>3
  <2>5. Readable(1)
    BY <2>2, <2>4 DEF Readable, InMemory
  <2>6. Over(1) /\ ~Readable(2)
    <3>1. chain + 1 = 2
      BY <1>12
    <3> QED BY <1>12, <2>5, <3>1 DEF AtEnd
  <2>7. x = 1
    <3>1. CASE x >= 2
      <4>1. 2 \in 1..x /\ 2 \in DOMAIN bufs
        BY <2>3, <3>1
      <4> QED BY <2>2, <2>6, <4>1 DEF Readable, InMemory
    <3> QED BY <2>3, <3>1
  <2>8. a = bufs[1].last
    BY <1>3, <2>4, <2>6 DEF At, Over
  <2>9. y < a
    BY <2>2, <2>7, <2>8
  <2> QED BY <1>4, <2>1, <2>2, <2>7, <2>9
<1>13. (chain = 1 /\ AtEnd) => IsAll(cells, Stream)
  BY <1>4, <1>9, <1>12 DEF IsAll
<1> QED BY <1>11, <1>13

\* NgxChainBufferReader gives the bytes of the chain in order, each once, for any
\* calls of Next, BackUp and Skip as long as BackUp is for the buffer of chain,
\* and when Next returns false it has given all of them.
THEOREM StreamsReadInOrder == Spec => []ReadInOrder
<1>1. StreamsInv => ReadInOrder
  <2> SUFFICES ASSUME StreamsInv, class = "reader", ~astray
               PROVE  IsFirst(cells, Stream) /\ (pc = "end" => IsAll(cells, Stream))
    BY DEF ReadInOrder
  <2>1. /\ Placed(cells, bufs) /\ \A i \in DOMAIN bufs : bufs[i].pos <= bufs[i].last
        /\ pc = "end" => chain = 1 /\ AtEnd
    BY ReaderFacts DEF PlaceInv, ReaderInv
  <2>2. bufs \in Seq(ReaderBufs) /\ cells \in Seq(Int \X Int)
    BY ReaderFacts
  <2>3. IsFirst(cells, Stream) /\ ((chain = 1 /\ AtEnd) => IsAll(cells, Stream))
    BY <2>1, <2>2, PlacedFirst
  <2> QED BY <2>1, <2>3
<1> QED BY <1>1, StreamsInvariant, PTL

\* When Next does not return, the chain has a second buffer, both are over, and
\* the client has been given exactly the bytes of those two.
THEOREM StreamsSpinsAfterTwo == Spec => []SpinsAfterTwo
<1>1. StreamsInv => SpinsAfterTwo
  <2> SUFFICES ASSUME StreamsInv, pc = "spin"
               PROVE  /\ Len(bufs) >= 2 /\ chain = 1
                      /\ Over(1) /\ Over(2)
                      /\ ~astray => cells = Run(1, 0, bufs[1].last) \o Run(2, 0, bufs[2].last)
    BY DEF SpinsAfterTwo
  <2>1. class = "reader"
    BY DEF StreamsInv, WriterInv
  <2>2. Len(bufs) >= 2 /\ chain = 1 /\ Over(1) /\ Over(2)
    BY <2>1, ReaderFacts DEF ReaderInv
  <2>3. 1 \in DOMAIN bufs /\ 2 \in DOMAIN bufs
    BY <2>1, <2>2, ReaderFacts
  <2>4. PICK a \in Nat, b \in Nat : a = bufs[1].last /\ b = bufs[2].last
    BY <2>1, <2>3, ReaderFacts
  <2>5. ASSUME ~astray PROVE cells = Run(1, 0, a) \o Run(2, 0, b)
    <3>1. At(bufs, 1) = a /\ At(bufs, 2) = b
      BY <2>2, <2>3, <2>4 DEF At, Over
    <3>2. PICK cs \in Seq(Int \X Int) : cs = cells
      BY <2>1, ReaderFacts
    <3>3. Placed(cs, bufs)
      BY <2>1, <2>5, <3>2, ReaderFacts DEF PlaceInv
    <3>4. /\ Len(cs) = a + b
          /\ \A j \in 1..(a + b) : cs[j] = IF j <= a THEN <<1, j - 1>> ELSE <<2, j - a - 1>>
      BY <3>1, <3>3 DEF Placed
    <3>5. PICK r : r = Run(1, 0, a)
      OBVIOUS
    <3>6. r \in Seq(Int \X Int) /\ Len(r) = a /\ \A j \in 1..a : r[j] = <<1, 0 + j - 1>>
      <4>1. PICK i \in Int, o \in Int : i = 1 /\ o = 0
        OBVIOUS
      <4>2. r = Run(i, o, a)
        BY <3>5, <4>1
      <4>3. /\ Run(i, o, a) \in Seq(Int \X Int) /\ Len(Run(i, o, a)) = a
            /\ \A j \in 1..a : Run(i, o, a)[j] = <<i, o + j - 1>>
        BY RunFacts
      <4> QED BY <4>1, <4>2, <4>3
    <3>7. PICK ds : ds = r \o Run(2, 0, b)
      OBVIOUS
    <3>8. Joined(ds, r, 2, 0, b)
      BY <3>6, <3>7, JoinFacts
    <3>9. ds \in Seq(Int \X Int) /\ Len(ds) = a + b
      BY <3>6, <3>8 DEF Joined
    <3>10. ASSUME NEW j \in 1..(a + b) PROVE ds[j] = cs[j]
      <4>1. CASE j <= a
        <5>1. j \in 1..a /\ 0 + j - 1 = j - 1
          BY <4>1
        <5>2. ds[j] = r[j]
          BY <3>6, <3>8, <5>1 DEF Joined
        <5> QED BY <3>4, <3>6, <4>1, <5>1, <5>2
      <4>2. CASE ~(j <= a)
        <5>1. j > a /\ 0 + (j - a) - 1 = j - a - 1
          BY <4>2
        <5>2. ds[j] = <<2, 0 + (j - a) - 1>>
          BY <3>6, <3>8, <5>1 DEF Joined
        <5> QED BY <3>4, <4>2, <5>1, <5>2
      <4> QED BY <4>1, <4>2
    <3>11. ds = cs
      BY <3>4, <3>9, <3>10
    <3> QED BY <3>2, <3>5, <3>7, <3>11
  <2> QED BY <2>2, <2>4, <2>5
<1> QED BY <1>1, StreamsInvariant, PTL

=============================================================================
