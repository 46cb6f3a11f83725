------------------------------ MODULE BioPairProofs ------------------------------
(* For any BIOs, sizes and data: the ring of a BIO pair stays inside its buffer, *)
(* peers point back, requests fit, and the pair is a pipe each way.              *)
EXTENDS BioPair, TLAPS

-----------------------------------------------------------------------------
(* The ring *)

\* A struct that satisfies what RingFits and RequestFits say of it.
RingOK(b) ==
    /\ b.peer # NoBio => b.buf # NULL
    /\ b.buf # NULL => /\ b.len <= b.size
                       /\ b.offset < b.size
                       /\ b.len = 0 => b.offset = 0
                       /\ b.peer = NoBio => b.len = 0

RequestOK(b) ==
    b.peer # NoBio => /\ b.request <= b.size - b.len
                      /\ b.len # 0 => b.request = 0

Good(b) == IsStruct(b) /\ RingOK(b) /\ RequestOK(b)

\* The pair uses one field of a struct for a link, and none of the ring's.
SameLink(b, c) == b.peer = c.peer /\ b.init = c.init /\ b.live = c.live

\* Reading n bytes keeps the struct good and leaves the other fields alone.
LEMMA ConsumeGood ==
    ASSUME NEW b, Good(b), b.buf # NULL, NEW n \in Nat, n <= b.len,
           b.request = 0
    PROVE  Good(Consume(b, n)) /\ SameLink(Consume(b, n), b)
<1> DEFINE c == Consume(b, n)
<1>1. b.size \in Nat /\ b.len \in Nat /\ b.offset \in Nat /\ b.len <= b.size /\ b.offset < b.size
  BY DEF Good, IsStruct, RingOK
<1>2. /\ c.live = b.live /\ c.init = b.init /\ c.peer = b.peer /\ c.closed = b.closed
      /\ c.size = b.size /\ c.buf = b.buf /\ c.request = b.request
      /\ c.len = b.len - n
      /\ c.offset = IF b.len = n THEN 0 ELSE Wrap(b.offset + n, b.size)
  BY DEF Consume, Good, IsStruct
<1>3. c.len \in Nat /\ c.len <= c.size /\ c.offset \in Nat /\ c.offset < c.size
      /\ (c.len = 0 => c.offset = 0)
  BY <1>1, <1>2 DEF Wrap
<1>4. IsStruct(c)
  <2>1. c \in [live : BOOLEAN, init : BOOLEAN, peer : Bios \cup {NoBio}, closed : BOOLEAN,
               len : Nat, offset : Nat, size : Nat, buf : {b.buf}, request : Nat]
    BY <1>1, <1>2, <1>3 DEF Good, IsStruct, Consume
  <2> QED BY <1>2, <2>1 DEF Good, IsStruct
<1>5. RingOK(c) /\ RequestOK(c)
  BY <1>2, <1>3, <1>1 DEF Good, RingOK, RequestOK, IsStruct
<1> QED BY <1>2, <1>4, <1>5 DEF Good, SameLink

\* Writing n bytes into free room keeps the struct good.
LEMMA CopyInGood ==
    ASSUME NEW b, Good(b), b.buf # NULL, b.peer # NoBio, b.request = 0,
           NEW d \in Seq(Byte), NEW n \in 1..Len(d), n <= b.size - b.len
    PROVE  Good(CopyIn(b, d, n)) /\ SameLink(CopyIn(b, d, n), b)
<1> DEFINE c == CopyIn(b, d, n)
           w == Wrap(b.offset + b.len, b.size)
           k0 == Chunk(w, n, b.size)
           f == [k \in 0..(b.size - 1) |->
                   IF w <= k /\ k < w + k0 THEN d[k - w + 1]
                   ELSE IF k < n - k0 THEN d[k + k0 + 1]
                   ELSE b.buf[k]]
<1>1. b.size \in Nat /\ b.len \in Nat /\ b.offset \in Nat /\ b.len <= b.size /\ b.offset < b.size
      /\ b.buf \in [0..(b.size - 1) -> Byte] /\ n \in Nat
  BY DEF Good, IsStruct, RingOK, Buffer
<1>2. /\ c.live = b.live /\ c.init = b.init /\ c.peer = b.peer /\ c.closed = b.closed
      /\ c.size = b.size /\ c.buf = f /\ c.request = b.request
      /\ c.len = b.len + n /\ c.offset = b.offset
  BY DEF CopyIn, Good, IsStruct
<1>3. w \in Nat /\ w < b.size /\ k0 \in Nat /\ k0 <= n /\ w + k0 <= b.size
  BY <1>1 DEF Wrap, Chunk
<1>4. f \in Buffer(b.size)
  <2>1. ASSUME NEW k \in 0..(b.size - 1) PROVE f[k] \in Byte
    <3>1. CASE w <= k /\ k < w + k0
      BY <1>1, <1>3, <3>1
    <3>2. CASE ~(w <= k /\ k < w + k0) /\ k < n - k0
      <4>1. k + k0 + 1 \in 1..Len(d)
        BY <1>1, <1>3, <3>2
      <4> QED BY <3>2, <4>1
    <3>3. CASE ~(w <= k /\ k < w + k0) /\ ~(k < n - k0)
      BY <1>1, <3>3
    <3> QED BY <3>1, <3>2, <3>3
  <2> QED BY <2>1 DEF Buffer
<1>5. f # NULL
  <2>1. DOMAIN f = 0..(b.size - 1) /\ 0 \in 0..(b.size - 1)
    BY <1>1
  <2>2. DOMAIN NULL = {}
    BY DEF NULL
  <2> QED BY <2>1, <2>2
<1>6. IsStruct(c)
  <2>1. c \in [live : BOOLEAN, init : BOOLEAN, peer : Bios \cup {NoBio}, closed : BOOLEAN,
               len : Nat, offset : Nat, size : Nat, buf : {f}, request : Nat]
    <3>1. b.len + n \in Nat
      BY <1>1
    <3> QED BY <3>1 DEF Good, IsStruct, CopyIn
  <2> QED BY <1>2, <1>4, <2>1 DEF Good, IsStruct
<1>7. RingOK(c) /\ RequestOK(c)
  BY <1>1, <1>2, <1>5 DEF Good, RingOK, RequestOK, IsStruct
<1> QED BY <1>2, <1>6, <1>7 DEF Good, SameLink

\* What the ring holds is a sequence of bytes.
LEMMA RingIsSeq ==
    ASSUME NEW b, Good(b), b.buf # NULL
    PROVE  Ring(b, b.len) \in Seq(Byte) /\ Len(Ring(b, b.len)) = b.len
<1>1. b.size \in Nat /\ b.len \in Nat /\ b.offset \in Nat /\ b.len <= b.size /\ b.offset < b.size
      /\ b.buf \in [0..(b.size - 1) -> Byte]
  BY DEF Good, IsStruct, RingOK, Buffer
<1>2. ASSUME NEW i \in 1..b.len PROVE b.buf[Wrap(b.offset + i - 1, b.size)] \in Byte
  <2>1. Wrap(b.offset + i - 1, b.size) \in 0..(b.size - 1)
    BY <1>1 DEF Wrap
  <2> QED BY <1>1, <2>1
<1>3. Ring(b, b.len) \in [1..b.len -> Byte]
  BY <1>2 DEF Ring
<1> QED BY <1>1, <1>3

\* What a read copies out is the beginning of what the ring holds, ...
LEMMA CopyOutIsHead ==
    ASSUME NEW b, Good(b), b.buf # NULL, NEW n \in Nat, n <= b.len
    PROVE  CopyOut(b, n) = SubSeq(Ring(b, b.len), 1, n)
<1>1. b.size \in Nat /\ b.len \in Nat /\ b.offset \in Nat /\ b.len <= b.size /\ b.offset < b.size
      /\ n \in Nat
  BY DEF Good, IsStruct, RingOK
<1>2. SubSeq(Ring(b, b.len), 1, n) = [i \in 1..n |-> Ring(b, b.len)[i]]
  BY <1>1 DEF Ring
<1>3. ASSUME NEW i \in 1..n
      PROVE  CopyOut(b, n)[i] = Ring(b, b.len)[i]
  <2>1. i \in 1..b.len
    BY <1>1
  <2>2. Ring(b, b.len)[i] = b.buf[Wrap(b.offset + i - 1, b.size)]
    BY <2>1 DEF Ring
  <2>3. CopyOut(b, n)[i] = IF i <= Chunk(b.offset, n, b.size) THEN b.buf[b.offset + i - 1]
                           ELSE b.buf[i - Chunk(b.offset, n, b.size) - 1]
    BY DEF CopyOut
  <2> QED BY <1>1, <2>2, <2>3 DEF Wrap, Chunk
<1> QED BY <1>2, <1>3 DEF CopyOut

\* ... the ring then holds the rest, ...
LEMMA ConsumeDropsHead ==
    ASSUME NEW b, Good(b), b.buf # NULL, NEW n \in 1..b.len
    PROVE  Ring(Consume(b, n), b.len - n) = SubSeq(Ring(b, b.len), n + 1, b.len)
<1>1. b.size \in Nat /\ b.len \in Nat /\ b.offset \in Nat /\ b.len <= b.size /\ b.offset < b.size
      /\ n \in Nat
  BY DEF Good, IsStruct, RingOK
<1>2. Consume(b, n).offset = (IF b.len = n THEN 0 ELSE Wrap(b.offset + n, b.size))
      /\ Consume(b, n).buf = b.buf /\ Consume(b, n).size = b.size
  BY DEF Consume, Good, IsStruct
<1>3. SubSeq(Ring(b, b.len), n + 1, b.len) = [i \in 1..(b.len - n) |-> Ring(b, b.len)[i + n]]
  BY <1>1, RingIsSeq
<1>4. ASSUME NEW i \in 1..(b.len - n)
      PROVE  Ring(Consume(b, n), b.len - n)[i] = Ring(b, b.len)[i + n]
  <2>1. i + n \in 1..b.len
    BY <1>1
  <2>2. Ring(b, b.len)[i + n] = b.buf[Wrap(b.offset + (i + n) - 1, b.size)]
    BY <2>1 DEF Ring
  <2>3. Ring(Consume(b, n), b.len - n)[i]
          = b.buf[Wrap(Consume(b, n).offset + i - 1, b.size)]
    BY <1>2 DEF Ring
  <2>4. Wrap(Consume(b, n).offset + i - 1, b.size) = Wrap(b.offset + (i + n) - 1, b.size)
    BY <1>1, <1>2 DEF Wrap
  <2> QED BY <2>2, <2>3, <2>4
<1> QED BY <1>3, <1>4 DEF Ring

Lands(o, l, z, n, i) ==
    LET w == Wrap(o + l, z)
        c == Chunk(w, n, z)
        k == Wrap(o + i - 1, z)
    IN \/ w <= k /\ k < w + c /\ k - w + 1 = i - l
       \/ ~(w <= k /\ k < w + c) /\ k < n - c /\ k + c + 1 = i - l

\* Byte i of the ring after a write, if it is new, comes from one of two chunks.
LEMMA WhereWritten ==
    ASSUME NEW o \in Nat, NEW l \in Nat, NEW z \in Nat, NEW n \in Nat, NEW i \in Nat,
           o < z, l + n <= z, l < i, i <= l + n
    PROVE  Lands(o, l, z, n, i)
<1>1. CASE o + l >= z
  BY <1>1 DEF Lands, Wrap, Chunk
<1>2. CASE o + l < z
  <2>1. CASE o + l + n <= z
    BY <1>2, <2>1 DEF Lands, Wrap, Chunk
  <2>2. CASE o + l + n > z
    BY <1>2, <2>2 DEF Lands, Wrap, Chunk
  <2> QED BY <2>1, <2>2
<1> QED BY <1>1, <1>2

\* ... and a write puts the first n bytes of its data behind them.
LEMMA CopyInAppends ==
    ASSUME NEW b, Good(b), b.buf # NULL,
           NEW d \in Seq(Byte), NEW n \in 1..Len(d), n <= b.size - b.len
    PROVE  Ring(CopyIn(b, d, n), b.len + n) = Ring(b, b.len) \o SubSeq(d, 1, n)
<1> DEFINE c == CopyIn(b, d, n)
           w == Wrap(b.offset + b.len, b.size)
           k0 == Chunk(w, n, b.size)
<1>1. b.size \in Nat /\ b.len \in Nat /\ b.offset \in Nat /\ b.len <= b.size /\ b.offset < b.size
      /\ n \in Nat /\ n <= Len(d)
  BY DEF Good, IsStruct, RingOK
<1>2. c.offset = b.offset /\ c.size = b.size
      /\ c.buf = [k \in 0..(b.size - 1) |->
                   IF w <= k /\ k < w + k0 THEN d[k - w + 1]
                   ELSE IF k < n - k0 THEN d[k + k0 + 1]
                   ELSE b.buf[k]]
  BY DEF CopyIn, Good, IsStruct
<1>3. Ring(b, b.len) \in Seq(Byte) /\ Len(Ring(b, b.len)) = b.len
  BY RingIsSeq
<1>4. SubSeq(d, 1, n) \in Seq(Byte) /\ Len(SubSeq(d, 1, n)) = n
      /\ \A i \in 1..n : SubSeq(d, 1, n)[i] = d[i]
  BY <1>1
<1>5. Ring(b, b.len) \o SubSeq(d, 1, n)
        = [i \in 1..(b.len + n) |-> IF i <= b.len THEN Ring(b, b.len)[i] ELSE d[i - b.len]]
  BY <1>1, <1>3, <1>4
<1>6. ASSUME NEW i \in 1..(b.len + n)
      PROVE  Ring(c, b.len + n)[i] = IF i <= b.len THEN Ring(b, b.len)[i] ELSE d[i - b.len]
  <2> DEFINE k == Wrap(b.offset + i - 1, b.size)
  <2>1. Ring(c, b.len + n)[i] = c.buf[k]
    BY <1>2 DEF Ring
  <2>2. k \in 0..(b.size - 1)
    BY <1>1 DEF Wrap
  <2>3. CASE i <= b.len
    <3>1. ~(w <= k /\ k < w + k0) /\ ~(k < n - k0)
      BY <1>1, <2>3 DEF Wrap, Chunk
    <3>2. c.buf[k] = b.buf[k]
      BY <1>2, <2>2, <3>1
    <3>3. Ring(b, b.len)[i] = b.buf[k]
      BY <1>1, <2>3 DEF Ring
    <3> QED BY <2>1, <2>3, <3>2, <3>3
  <2>4. CASE i > b.len
    <3>1. \/ w <= k /\ k < w + k0 /\ k - w + 1 = i - b.len
          \/ ~(w <= k /\ k < w + k0) /\ k < n - k0 /\ k + k0 + 1 = i - b.len
      <4>1. i \in Nat /\ b.len < i /\ i <= b.len + n /\ b.len + n <= b.size
        BY <1>1, <2>4
      <4>2. Lands(b.offset, b.len, b.size, n, i)
        BY <1>1, <4>1, WhereWritten
      <4> QED BY <4>2 DEF Lands
    <3>2. c.buf[k] = d[i - b.len]
      BY <1>2, <2>2, <3>1
    <3> QED BY <1>1, <2>1, <2>4, <3>2
  <2> QED BY <1>1, <2>3, <2>4
<1> QED BY <1>1, <1>2, <1>5, <1>6 DEF Ring

-----------------------------------------------------------------------------
(* The inductive invariant *)

\* A BIO is initialised while it has a peer, which is another live BIO and points back.
LinksOK(f) == \A x \in Bios :
    /\ f[x].init <=> f[x].peer # NoBio
    /\ f[x].peer # NoBio => /\ f[x].live /\ f[x].peer # x
                            /\ f[f[x].peer].live /\ f[f[x].peer].peer = x

BioOK(f) ==
    /\ f = [x \in Bios |-> f[x]]
    /\ \A x \in Bios : Good(f[x])
    /\ LinksOK(f)

LastOK == last \in [op : {"none", "read", "write"}, ret : Int, bytes : Seq(Byte)]

IInv == BioOK(bio) /\ LastOK

\* The invariant says all that the runs check of a state.
LEMMA IInvImplies == IInv => TypeOK /\ PeersPointBack /\ RingFits /\ RequestFits
<1> SUFFICES ASSUME IInv PROVE TypeOK /\ PeersPointBack /\ RingFits /\ RequestFits
  OBVIOUS
<1>1. ASSUME NEW x \in Bios PROVE IsStruct(bio[x]) /\ RingOK(bio[x]) /\ RequestOK(bio[x])
  BY DEF IInv, BioOK, Good
<1>2. TypeOK
  BY <1>1 DEF IInv, BioOK, LastOK, TypeOK
<1>3. PeersPointBack
  <2>1. ASSUME NEW x \in Bios, Joined(x) PROVE bio[x].peer \in Bios
    BY <1>1, <2>1 DEF IsStruct, Joined
  <2> QED BY <2>1 DEF IInv, BioOK, LinksOK, PeersPointBack, Init0, Joined, Live, Peer
<1>4. RingFits
  BY <1>1 DEF RingFits, RingOK, Joined
<1>5. RequestFits
  BY <1>1 DEF RequestFits, RequestOK, Joined, Room
<1> QED BY <1>2, <1>3, <1>4, <1>5

\* A change of one struct that leaves its link alone keeps the invariant.
LEMMA OneStruct ==
    ASSUME NEW f, BioOK(f), NEW x \in Bios, NEW r, Good(r), SameLink(r, f[x])
    PROVE  BioOK([f EXCEPT ![x] = r])
<1> DEFINE g == [f EXCEPT ![x] = r]
<1>1. g = [z \in Bios |-> IF z = x THEN r ELSE f[z]]
  BY DEF BioOK
<1>2. \A z \in Bios : Good(g[z]) /\ SameLink(g[z], f[z])
  BY <1>1 DEF BioOK, SameLink
<1>3. \A z \in Bios : f[z].peer \in Bios \cup {NoBio}
  BY DEF BioOK, Good, IsStruct
<1>4. LinksOK(g)
  <2> SUFFICES ASSUME NEW z \in Bios
               PROVE /\ g[z].init <=> g[z].peer # NoBio
                     /\ g[z].peer # NoBio => /\ g[z].live /\ g[z].peer # z
                                             /\ g[g[z].peer].live /\ g[g[z].peer].peer = z
    BY DEF LinksOK
  <2>1. g[z].init = f[z].init /\ g[z].peer = f[z].peer /\ g[z].live = f[z].live
    BY <1>2 DEF SameLink
  <2>2. (f[z].init <=> f[z].peer # NoBio) /\
        (f[z].peer # NoBio => /\ f[z].live /\ f[z].peer # z
                              /\ f[f[z].peer].live /\ f[f[z].peer].peer = z)
    BY DEF BioOK, LinksOK
  <2>3. CASE f[z].peer = NoBio
    BY <2>1, <2>2, <2>3
  <2>4. CASE f[z].peer \in Bios
    <3>1. g[f[z].peer].live = f[f[z].peer].live /\ g[f[z].peer].peer = f[f[z].peer].peer
      BY <1>2, <2>4 DEF SameLink
    <3> QED BY <2>1, <2>2, <3>1, <2>4, BioPairAssumption
  <2> QED BY <1>3, <2>3, <2>4
<1> QED BY <1>1, <1>2, <1>4 DEF BioOK

\* The fields that calls of BIO_ctrl and the two ends of a call set.
LEMMA SetRequest ==
    ASSUME NEW b, Good(b), NEW q \in Nat, q <= b.size - b.len, b.len # 0 => q = 0
    PROVE  /\ Good([b EXCEPT !.request = q])
           /\ SameLink([b EXCEPT !.request = q], b)
           /\ [b EXCEPT !.request = q].request = q
           /\ [b EXCEPT !.request = q].buf = b.buf
           /\ [b EXCEPT !.request = q].len = b.len
           /\ [b EXCEPT !.request = q].size = b.size
           /\ [b EXCEPT !.request = q].offset = b.offset
           /\ [b EXCEPT !.request = q].closed = b.closed
<1> DEFINE c == [b EXCEPT !.request = q]
<1>1. /\ c.live = b.live /\ c.init = b.init /\ c.peer = b.peer /\ c.closed = b.closed
      /\ c.size = b.size /\ c.buf = b.buf /\ c.request = q
      /\ c.len = b.len /\ c.offset = b.offset
  BY DEF Good, IsStruct
<1>2. c \in [live : BOOLEAN, init : BOOLEAN, peer : Bios \cup {NoBio}, closed : BOOLEAN,
             len : Nat, offset : Nat, size : Nat, buf : {b.buf}, request : Nat]
  BY DEF Good, IsStruct
<1>3. IsStruct(c)
  BY <1>1, <1>2 DEF Good, IsStruct
<1>4. RingOK(c) /\ RequestOK(c)
  BY <1>1 DEF Good, RingOK, RequestOK
<1> QED BY <1>1, <1>3, <1>4 DEF Good, SameLink

LEMMA SetClosed ==
    ASSUME NEW b, Good(b)
    PROVE  /\ Good([b EXCEPT !.closed = TRUE]) /\ SameLink([b EXCEPT !.closed = TRUE], b)
<1> DEFINE c == [b EXCEPT !.closed = TRUE]
<1>1. /\ c.live = b.live /\ c.init = b.init /\ c.peer = b.peer
      /\ c.size = b.size /\ c.buf = b.buf /\ c.request = b.request
      /\ c.len = b.len /\ c.offset = b.offset
  BY DEF Good, IsStruct
<1>2. c \in [live : BOOLEAN, init : BOOLEAN, peer : Bios \cup {NoBio}, closed : BOOLEAN,
             len : Nat, offset : Nat, size : Nat, buf : {b.buf}, request : Nat]
  BY DEF Good, IsStruct
<1>3. IsStruct(c) /\ RingOK(c) /\ RequestOK(c)
  BY <1>1, <1>2 DEF Good, IsStruct, RingOK, RequestOK
<1> QED BY <1>1, <1>3 DEF Good, SameLink

LEMMA SetEmpty ==
    ASSUME NEW b, Good(b), b.buf # NULL
    PROVE  /\ Good([b EXCEPT !.len = 0, !.offset = 0])
           /\ SameLink([b EXCEPT !.len = 0, !.offset = 0], b)
<1> DEFINE c == [b EXCEPT !.len = 0, !.offset = 0]
<1>1. /\ c.live = b.live /\ c.init = b.init /\ c.peer = b.peer
      /\ c.size = b.size /\ c.buf = b.buf /\ c.request = b.request
      /\ c.len = 0 /\ c.offset = 0
  BY DEF Good, IsStruct
<1>2. c \in [live : BOOLEAN, init : BOOLEAN, peer : Bios \cup {NoBio}, closed : BOOLEAN,
             len : Nat, offset : Nat, size : Nat, buf : {b.buf}, request : Nat]
  BY DEF Good, IsStruct
<1>3. IsStruct(c)
  BY <1>1, <1>2 DEF Good, IsStruct
<1>4. b.len \in Nat /\ b.size \in Nat /\ b.request \in Nat /\ b.offset \in Nat /\ b.offset < b.size
  BY DEF Good, IsStruct, RingOK
<1>5. RingOK(c) /\ RequestOK(c)
  BY <1>1, <1>4 DEF Good, RingOK, RequestOK
<1> QED BY <1>1, <1>3, <1>5 DEF Good, SameLink

LEMMA SetSize ==
    ASSUME NEW b, Good(b), b.peer = NoBio, NEW n \in Nat \ {0}, NEW f,
           (f = b.buf /\ n = b.size) \/ f = NULL
    PROVE  /\ Good([b EXCEPT !.size = n, !.buf = f])
           /\ SameLink([b EXCEPT !.size = n, !.buf = f], b)
<1> DEFINE c == [b EXCEPT !.size = n, !.buf = f]
<1>1. /\ c.live = b.live /\ c.init = b.init /\ c.peer = NoBio
      /\ c.size = n /\ c.buf = f /\ c.request = b.request
      /\ c.len = b.len /\ c.offset = b.offset
  BY DEF Good, IsStruct
<1>2. c \in [live : BOOLEAN, init : BOOLEAN, peer : Bios \cup {NoBio}, closed : BOOLEAN,
             len : Nat, offset : Nat, size : Nat, buf : {f}, request : Nat]
  BY DEF Good, IsStruct
<1>3. IsStruct(c)
  BY <1>1, <1>2 DEF Good, IsStruct
<1>4. RingOK(c) /\ RequestOK(c)
  BY <1>1 DEF Good, RingOK, RequestOK
<1> QED BY <1>1, <1>3, <1>4 DEF Good, SameLink

\* Facts about NULL, which is no buffer of a positive size.
LEMMA BufferIsNotNull ==
    ASSUME NEW n \in Nat \ {0}, NEW f \in Buffer(n)
    PROVE  f # NULL
<1>1. 0 \in DOMAIN f
  BY DEF Buffer
<1> QED BY <1>1 DEF NULL

\* Pairing: a struct that gets a buffer if it has none, and a peer.
LEMMA LinkGood ==
    ASSUME NEW b, Good(b), b.live, b.peer = NoBio, NEW y \in Bios, NEW f \in Buffer(b.size)
    PROVE  /\ Good(WithBuf(b, f)) /\ SameLink(WithBuf(b, f), b)
           /\ Good(Linked(WithBuf(b, f), y))
           /\ Linked(WithBuf(b, f), y).peer = y
           /\ Linked(WithBuf(b, f), y).init = TRUE
           /\ Linked(WithBuf(b, f), y).live = b.live
           /\ Linked(WithBuf(b, f), y).len = 0
           /\ Linked(WithBuf(b, f), y).closed = FALSE
<1> DEFINE c == WithBuf(b, f)
           e == Linked(c, y)
<1>1. b.size \in Nat \ {0} /\ f # NULL
  BY BufferIsNotNull DEF Good, IsStruct
<1>2. /\ c.live = b.live /\ c.init = b.init /\ c.peer = b.peer /\ c.closed = b.closed
      /\ c.size = b.size /\ c.request = b.request
      /\ c.buf = (IF b.buf # NULL THEN b.buf ELSE f)
      /\ c.len = (IF b.buf # NULL THEN b.len ELSE 0)
      /\ c.offset = (IF b.buf # NULL THEN b.offset ELSE 0)
  BY DEF WithBuf, Good, IsStruct
<1>3. IsStruct(c)
  <2>1. CASE b.buf # NULL
    BY <2>1 DEF WithBuf, Good
  <2>2. CASE b.buf = NULL
    <3>1. c \in [live : BOOLEAN, init : BOOLEAN, peer : Bios \cup {NoBio}, closed : BOOLEAN,
                 len : Nat, offset : Nat, size : Nat, buf : {f}, request : Nat]
      BY <2>2 DEF WithBuf, Good, IsStruct
    <3> QED BY <1>2, <2>2, <3>1 DEF Good, IsStruct
  <2> QED BY <2>1, <2>2
<1>4. c.buf # NULL /\ c.len = 0 /\ c.offset = 0 /\ c.size > 0
  BY <1>1, <1>2 DEF Good, RingOK
<1>5. RingOK(c) /\ RequestOK(c)
  BY <1>1, <1>2, <1>4 DEF RingOK, RequestOK
<1>6. /\ e.live = b.live /\ e.init = TRUE /\ e.peer = y /\ e.closed = FALSE
      /\ e.size = c.size /\ e.request = 0 /\ e.buf = c.buf /\ e.len = 0 /\ e.offset = 0
  BY <1>2, <1>3, <1>4 DEF Linked, IsStruct
<1>7. e \in [live : BOOLEAN, init : BOOLEAN, peer : Bios \cup {NoBio}, closed : BOOLEAN,
             len : Nat, offset : Nat, size : Nat, buf : {c.buf}, request : Nat]
  BY <1>3 DEF Linked, IsStruct
<1>8. IsStruct(e)
  BY <1>1, <1>2, <1>3, <1>4, <1>6, <1>7 DEF IsStruct
<1>9. RingOK(e) /\ RequestOK(e)
  BY <1>1, <1>2, <1>4, <1>6 DEF RingOK, RequestOK
<1> QED BY <1>2, <1>3, <1>5, <1>6, <1>8, <1>9 DEF Good, SameLink

\* Parting: the struct keeps its buffer, and no bytes in it.
LEMMA UnlinkGood ==
    ASSUME NEW b, Good(b), b.peer # NoBio
    PROVE  /\ Good(Unlinked(b)) /\ Unlinked(b).peer = NoBio /\ Unlinked(b).init = FALSE
           /\ Unlinked(b).live = b.live
<1> DEFINE c == Unlinked(b)
<1>1. /\ c.live = b.live /\ c.init = FALSE /\ c.peer = NoBio /\ c.closed = b.closed
      /\ c.size = b.size /\ c.request = b.request /\ c.buf = b.buf
      /\ c.len = 0 /\ c.offset = 0
  BY DEF Unlinked, Good, IsStruct
<1>2. c \in [live : BOOLEAN, init : BOOLEAN, peer : Bios \cup {NoBio}, closed : BOOLEAN,
             len : Nat, offset : Nat, size : Nat, buf : {b.buf}, request : Nat]
  BY DEF Unlinked, Good, IsStruct
<1>3. IsStruct(c)
  BY <1>1, <1>2 DEF Good, IsStruct
<1>4. RingOK(c) /\ RequestOK(c)
  BY <1>1 DEF Good, RingOK, RequestOK, IsStruct
<1> QED BY <1>1, <1>3, <1>4 DEF Good

LEMMA DeadGood == Good(Dead)
<1>1. NULL = <<>> /\ Dead.buf = NULL /\ Dead.peer = NoBio /\ ~Dead.live
  BY DEF NULL, Dead
<1>2. Dead \in [live : BOOLEAN, init : BOOLEAN, peer : Bios \cup {NoBio}, closed : BOOLEAN,
                len : Nat, offset : Nat, size : Nat, buf : {Dead.buf}, request : Nat]
  BY DEF Dead
<1>3. IsStruct(Dead)
  BY <1>1, <1>2 DEF IsStruct
<1> QED BY <1>1, <1>3 DEF Good, RingOK, RequestOK

\* Pairing keeps the invariant.
LEMMA MakePairOK ==
    ASSUME BioOK(bio), NEW x \in Bios, NEW y \in Bios, MakePair(x, y)
    PROVE  BioOK(bio')
<1>1. PICK f \in Buffer(bio[x].size), g \in Buffer(bio[y].size) :
        bio' = [z \in Bios |-> IF z = x THEN Linked(WithBuf(bio[x], f), y)
                          ELSE IF z = y THEN Linked(WithBuf(bio[y], g), x)
                          ELSE bio[z]]
  BY DEF MakePair
<1>2. x # y /\ bio[x].live /\ bio[y].live /\ bio[x].peer = NoBio /\ bio[y].peer = NoBio
  BY DEF MakePair, Live
<1>3. /\ Good(bio'[x]) /\ bio'[x].peer = y /\ bio'[x].init /\ bio'[x].live
      /\ Good(bio'[y]) /\ bio'[y].peer = x /\ bio'[y].init /\ bio'[y].live
  <2>1. Good(bio[x]) /\ Good(bio[y])
    BY DEF BioOK
  <2>2. bio'[x] = Linked(WithBuf(bio[x], f), y) /\ bio'[y] = Linked(WithBuf(bio[y], g), x)
    BY <1>1, <1>2
  <2>3. Good(bio'[x]) /\ bio'[x].peer = y /\ bio'[x].init = TRUE /\ bio'[x].live = bio[x].live
    <3> DEFINE b == bio[x]
    <3>1. b.live /\ b.peer = NoBio /\ Good(b) /\ f \in Buffer(b.size)
      BY <1>2, <2>1
    <3> HIDE DEF b
    <3>2. LET e == Linked(WithBuf(b, f), y)
          IN Good(e) /\ e.peer = y /\ e.init = TRUE /\ e.live = b.live
      BY <3>1, LinkGood
    <3> QED BY <2>2, <3>2 DEF b
  <2>4. Good(bio'[y]) /\ bio'[y].peer = x /\ bio'[y].init = TRUE /\ bio'[y].live = bio[y].live
    <3> DEFINE b == bio[y]
    <3>1. b.live /\ b.peer = NoBio /\ Good(b) /\ g \in Buffer(b.size)
      BY <1>2, <2>1
    <3> HIDE DEF b
    <3>2. LET e == Linked(WithBuf(b, g), x)
          IN Good(e) /\ e.peer = x /\ e.init = TRUE /\ e.live = b.live
      BY <3>1, LinkGood
    <3> QED BY <2>2, <3>2 DEF b
  <2> QED BY <1>2, <2>3, <2>4
<1>4. ASSUME NEW z \in Bios, z # x, z # y
      PROVE /\ bio'[z] = bio[z] /\ Good(bio[z])
            /\ bio[z].peer # NoBio => bio[z].peer \in Bios \ {x, y}
  <2>1. bio'[z] = bio[z] /\ Good(bio[z]) /\ bio[z].peer \in Bios \cup {NoBio}
    BY <1>1, <1>4 DEF BioOK, Good, IsStruct
  <2>2. bio[z].peer # NoBio => bio[bio[z].peer].peer = z
    BY DEF BioOK, LinksOK
  <2> QED BY <1>2, <2>1, <2>2, BioPairAssumption
<1>5. LinksOK(bio')
  <2> SUFFICES ASSUME NEW z \in Bios
               PROVE /\ bio'[z].init <=> bio'[z].peer # NoBio
                     /\ bio'[z].peer # NoBio => /\ bio'[z].live /\ bio'[z].peer # z
                                   /\ bio'[bio'[z].peer].live /\ bio'[bio'[z].peer].peer = z
    BY DEF LinksOK
  <2>1. CASE z = x \/ z = y
    BY <1>2, <1>3, <2>1, BioPairAssumption
  <2>2. CASE z # x /\ z # y
    <3>1. bio'[z] = bio[z] /\ (bio[z].peer # NoBio => bio[z].peer \in Bios \ {x, y})
      BY <1>4, <2>2
    <3>2. bio[z].peer # NoBio => bio'[bio[z].peer] = bio[bio[z].peer]
      BY <1>4, <3>1
    <3> QED BY <3>1, <3>2 DEF BioOK, LinksOK
  <2> QED BY <2>1, <2>2
<1> QED BY <1>1, <1>3, <1>4, <1>5 DEF BioOK

\* Parting keeps it, ...
LEMMA PartedOK ==
    ASSUME BioOK(bio), NEW x \in Bios, Live(x)
    PROVE  BioOK(Parted(x)) /\ Parted(x)[x].peer = NoBio
<1> DEFINE g == Parted(x)
           p == bio[x].peer
<1>1. CASE p = NoBio
  <2>1. g = bio
    BY <1>1 DEF Parted, BioOK
  <2> QED BY <1>1, <2>1
<1>2. CASE p # NoBio
  <2>1. p \in Bios /\ p # x /\ bio[p].peer = x /\ bio[p].live
    BY <1>2 DEF BioOK, LinksOK, Good, IsStruct
  <2>2. g = [z \in Bios |-> IF z \in {x, p} THEN Unlinked(bio[z]) ELSE bio[z]]
    BY <1>2 DEF Parted
  <2>3. ASSUME NEW z \in Bios, z \in {x, p}
        PROVE  Good(g[z]) /\ g[z].peer = NoBio /\ g[z].init = FALSE
    <3>1. bio[z].peer # NoBio /\ Good(bio[z])
      BY <1>2, <2>1, <2>3, BioPairAssumption DEF BioOK
    <3> QED BY <2>2, <2>3, <3>1, UnlinkGood
  <2>4. ASSUME NEW z \in Bios, z \notin {x, p}
        PROVE  /\ g[z] = bio[z] /\ Good(bio[z])
               /\ bio[z].peer # NoBio => bio[z].peer \in Bios \ {x, p}
    <3>1. bio[z].peer # NoBio => bio[bio[z].peer].peer = z /\ bio[z].peer \in Bios
      BY DEF BioOK, LinksOK, Good, IsStruct
    <3> QED BY <2>1, <2>2, <2>4, <3>1 DEF BioOK
  <2>5. LinksOK(g)
    <3> SUFFICES ASSUME NEW z \in Bios
                 PROVE /\ g[z].init <=> g[z].peer # NoBio
                       /\ g[z].peer # NoBio => /\ g[z].live /\ g[z].peer # z
                                     /\ g[g[z].peer].live /\ g[g[z].peer].peer = z
      BY DEF LinksOK
    <3>1. CASE z \in {x, p}
      BY <2>3, <3>1
    <3>2. CASE z \notin {x, p}
      <4>1. g[z] = bio[z] /\ (bio[z].peer # NoBio => bio[z].peer \in Bios \ {x, p})
        BY <2>4, <3>2
      <4>2. bio[z].peer # NoBio => g[bio[z].peer] = bio[bio[z].peer]
        BY <2>4, <4>1
      <4>3. /\ bio[z].init <=> bio[z].peer # NoBio
            /\ bio[z].peer # NoBio => /\ bio[z].live /\ bio[z].peer # z
                                      /\ bio[bio[z].peer].live /\ bio[bio[z].peer].peer = z
        BY DEF BioOK, LinksOK
      <4> HIDE DEF g
      <4> QED BY <4>1, <4>2, <4>3
    <3> QED BY <3>1, <3>2
  <2> QED BY <2>2, <2>3, <2>4, <2>5 DEF BioOK
<1> QED BY <1>1, <1>2

\* ... and so does replacing a struct without peer by another without peer.
LEMMA Unpaired ==
    ASSUME NEW f, BioOK(f), NEW x \in Bios, f[x].peer = NoBio,
           NEW r, Good(r), r.peer = NoBio, r.init = FALSE
    PROVE  BioOK([f EXCEPT ![x] = r])
<1> DEFINE g == [f EXCEPT ![x] = r]
<1>1. g = [z \in Bios |-> IF z = x THEN r ELSE f[z]]
  BY DEF BioOK
<1>2. ASSUME NEW z \in Bios, z # x
      PROVE  /\ g[z] = f[z]
             /\ f[z].peer # NoBio => f[z].peer \in Bios \ {x} /\ g[f[z].peer] = f[f[z].peer]
  <2>1. f[z].peer \in Bios \cup {NoBio}
    BY DEF BioOK, Good, IsStruct
  <2>2. f[z].peer # NoBio => f[f[z].peer].peer = z
    BY DEF BioOK, LinksOK
  <2> QED BY <1>1, <1>2, <2>1, <2>2, BioPairAssumption
<1>3. LinksOK(g)
  <2> SUFFICES ASSUME NEW z \in Bios
               PROVE /\ g[z].init <=> g[z].peer # NoBio
                     /\ g[z].peer # NoBio => /\ g[z].live /\ g[z].peer # z
                                   /\ g[g[z].peer].live /\ g[g[z].peer].peer = z
    BY DEF LinksOK
  <2>1. CASE z = x
    BY <1>1, <2>1
  <2>2. CASE z # x
    BY <1>2, <2>2 DEF BioOK, LinksOK
  <2> QED BY <2>1, <2>2
<1> QED BY <1>1, <1>3 DEF BioOK

-----------------------------------------------------------------------------
(* Each call keeps the invariant and is a step of the pipe *)

PeerMap == [x \in Bios |-> bio[x].peer]
ShutMap == [x \in Bios |-> Joined(x) /\ bio[x].closed]
PipeMap == [x \in Bios |-> IF Joined(x) THEN Ring(bio[x], bio[x].len) ELSE <<>>]

\* What the pipe sees of a change of one struct that leaves its link alone.
LEMMA OneMap ==
    ASSUME BioOK(bio), NEW x \in Bios, NEW r, Good(r), SameLink(r, bio[x]),
           bio' = [bio EXCEPT ![x] = r]
    PROVE  /\ BioOK(bio')
           /\ PeerMap' = PeerMap
           /\ ShutMap' = [ShutMap EXCEPT ![x] = Joined(x) /\ r.closed]
           /\ PipeMap' = [PipeMap EXCEPT ![x] = IF Joined(x) THEN Ring(r, r.len) ELSE <<>>]
<1>1. BioOK(bio')
  BY OneStruct
<1>2. \A z \in Bios : bio'[z] = IF z = x THEN r ELSE bio[z]
  BY DEF BioOK
<1>3. \A z \in Bios : bio'[z].peer = bio[z].peer
  BY <1>2 DEF SameLink
<1>4. PeerMap' = PeerMap
  BY <1>3 DEF PeerMap
<1>5. ShutMap' = [ShutMap EXCEPT ![x] = Joined(x) /\ r.closed]
  BY <1>2, <1>3 DEF ShutMap, Joined
<1>6. PipeMap' = [PipeMap EXCEPT ![x] = IF Joined(x) THEN Ring(r, r.len) ELSE <<>>]
  <2>1. PipeMap' = [z \in Bios |-> IF bio'[z].peer # NoBio THEN Ring(bio'[z], bio'[z].len)
                                   ELSE <<>>]
    BY DEF PipeMap, Joined
  <2>2. ASSUME NEW z \in Bios, z # x PROVE PipeMap'[z] = PipeMap[z]
    BY <1>2, <1>3, <2>1, <2>2 DEF PipeMap, Joined
  <2>3. PipeMap'[x] = IF Joined(x) THEN Ring(r, r.len) ELSE <<>>
    BY <1>2, <1>3, <2>1 DEF Joined
  <2> QED BY <2>1, <2>2, <2>3 DEF PipeMap
<1> QED BY <1>1, <1>4, <1>5, <1>6

\* A change that the pipe does not see.
LEMMA Unseen ==
    ASSUME BioOK(bio), NEW x \in Bios, NEW r, Good(r), SameLink(r, bio[x]),
           bio' = [bio EXCEPT ![x] = r],
           Joined(x) => r.closed = bio[x].closed /\ Ring(r, r.len) = Ring(bio[x], bio[x].len)
    PROVE  BioOK(bio') /\ PeerMap' = PeerMap /\ ShutMap' = ShutMap /\ PipeMap' = PipeMap
<1>1. /\ BioOK(bio')
      /\ PeerMap' = PeerMap
      /\ ShutMap' = [ShutMap EXCEPT ![x] = Joined(x) /\ r.closed]
      /\ PipeMap' = [PipeMap EXCEPT ![x] = IF Joined(x) THEN Ring(r, r.len) ELSE <<>>]
  BY OneMap
<1>2. (Joined(x) /\ r.closed) = ShutMap[x]
  BY DEF ShutMap
<1>3. ShutMap' = ShutMap
  BY <1>1, <1>2 DEF ShutMap
<1>4. (IF Joined(x) THEN Ring(r, r.len) ELSE <<>>) = PipeMap[x]
  BY DEF PipeMap
<1>5. PipeMap' = PipeMap
  BY <1>1, <1>4 DEF PipeMap
<1> QED BY <1>1, <1>3, <1>5

LEMMA ReadMaps ==
    ASSUME BioOK(bio), LastOK, NEW x \in Bios, Init0(x), NEW n \in Nat, ReadInto(x, n)
    PROVE  BioOK(bio') /\ LastOK' /\ (Pipe!Read(x) \/ Pipe!Silent)
<1> DEFINE p == bio[x].peer
           b == [bio[p] EXCEPT !.request = 0]
           r == [bio EXCEPT ![p].request = 0]
           m == Smaller(n, bio[p].len)
<1>1. p \in Bios /\ Joined(x) /\ Joined(p) /\ p # NoBio
  <2>1. p \in Bios \cup {NoBio}
    BY DEF BioOK, Good, IsStruct
  <2>2. p # NoBio /\ bio[p].peer = x
    BY DEF BioOK, LinksOK, Init0
  <2> QED BY <2>1, <2>2, BioPairAssumption DEF Joined
<1>2. Good(bio[p]) /\ bio[p].buf # NULL /\ bio[p].len \in Nat /\ bio[p].size \in Nat
      /\ bio[p].len <= bio[p].size
  BY <1>1 DEF BioOK, Good, IsStruct, RingOK, Joined
<1>3. /\ Good(b) /\ SameLink(b, bio[p]) /\ b.buf = bio[p].buf /\ b.len = bio[p].len
      /\ b.size = bio[p].size /\ b.offset = bio[p].offset /\ b.request = 0
      /\ b.closed = bio[p].closed
  BY <1>2, SetRequest
<1>4. r = [bio EXCEPT ![p] = b] /\ r[p] = b
  BY <1>1 DEF BioOK
<1>5. Ring(b, b.len) = Ring(bio[p], bio[p].len)
  BY <1>3 DEF Ring
<1>6. PipeMap[p] = Ring(bio[p], bio[p].len) /\ PipeMap[p] \in Seq(Byte) /\ Len(PipeMap[p]) = bio[p].len
  BY <1>1, <1>2, RingIsSeq DEF PipeMap
<1>7. PeerMap[x] = p /\ ShutMap[p] = bio[p].closed
  BY <1>1, <1>2 DEF PeerMap, ShutMap, Good, IsStruct
<1>8. CASE n = 0
  <2>1. bio' = [bio EXCEPT ![p] = b] /\ last' = NoAnswer
    BY <1>4, <1>8 DEF ReadInto
  <2>2. BioOK(bio') /\ PeerMap' = PeerMap /\ ShutMap' = ShutMap /\ PipeMap' = PipeMap
    BY <1>1, <1>3, <1>5, <2>1, Unseen
  <2>3. Pipe!Silent
    BY <2>1, <2>2 DEF Pipe!Silent, PeerMap, ShutMap, PipeMap, NoAnswer, Pipe!NoAnswer, Answer, Pipe!Answer
  <2>4. LastOK'
    BY <2>1 DEF LastOK, NoAnswer, Answer
  <2> QED BY <2>2, <2>3, <2>4
<1>9. CASE n # 0 /\ bio[p].len # 0
  <2> DEFINE c == Consume(b, m)
  <2>1. m \in 1..bio[p].len /\ m \in Nat /\ m <= b.len
    BY <1>2, <1>3, <1>9 DEF Smaller
  <2>2. bio' = [bio EXCEPT ![p] = c]
    <3>1. bio' = [r EXCEPT ![p] = Consume(@, m)]
      BY <1>9 DEF ReadInto
    <3> QED BY <1>1, <1>4, <3>1
  <2>3. last' = Answer("read", m, CopyOut(bio[p], m))
    BY <1>9 DEF ReadInto
  <2>4. Good(c) /\ SameLink(c, b)
    BY <1>2, <1>3, <2>1, ConsumeGood
  <2>5. SameLink(c, bio[p])
    BY <1>3, <2>4 DEF SameLink
  <2>6. /\ BioOK(bio')
        /\ PeerMap' = PeerMap
        /\ ShutMap' = [ShutMap EXCEPT ![p] = Joined(p) /\ c.closed]
        /\ PipeMap' = [PipeMap EXCEPT ![p] = IF Joined(p) THEN Ring(c, c.len) ELSE <<>>]
    BY <1>1, <2>2, <2>4, <2>5, OneMap
  <2>7. c.closed = bio[p].closed /\ c.len = b.len - m
    BY <1>3 DEF Consume, Good, IsStruct
  <2>8. ShutMap' = ShutMap
    BY <1>1, <1>2, <2>6, <2>7 DEF ShutMap, Good, IsStruct
  <2>9. Ring(c, c.len) = SubSeq(PipeMap[p], m + 1, Len(PipeMap[p]))
    BY <1>2, <1>3, <1>5, <1>6, <2>1, <2>7, ConsumeDropsHead
  <2>10. CopyOut(bio[p], m) = SubSeq(PipeMap[p], 1, m)
    BY <1>2, <1>6, <2>1, CopyOutIsHead
  <2>11. PipeMap' = [PipeMap EXCEPT ![p] = Pipe!Drop(PipeMap[p], m)]
    BY <1>1, <2>6, <2>9 DEF Pipe!Drop
  <2>12. PipeMap[p] # <<>>
    BY <1>6, <1>9
  <2>13. Pipe!Read(x)
    <3>1. Pipe!Take(x)
      BY <1>1, <1>6, <1>7, <2>1, <2>3, <2>10, <2>11
      DEF Pipe!Take, Answer, Pipe!Answer, PeerMap, PipeMap
    <3> QED BY <1>1, <1>7, <2>6, <2>8, <2>12, <3>1
        DEF Pipe!Read, Pipe!Joined, PeerMap, ShutMap, PipeMap
  <2>14. LastOK'
    <3>1. SubSeq(PipeMap[p], 1, m) \in Seq(Byte)
      BY <1>6, <2>1
    <3>2. m \in Int
      BY <2>1
    <3> QED BY <2>3, <2>10, <3>1, <3>2 DEF LastOK, Answer
  <2> QED BY <2>6, <2>13, <2>14
<1>10. CASE n # 0 /\ bio[p].len = 0
  <2>1. PipeMap[p] = <<>>
    BY <1>6, <1>10
  <2>2. CASE bio[p].closed
    <3>1. bio' = [bio EXCEPT ![p] = b] /\ last' = Answer("read", 0, <<>>)
      BY <1>4, <1>10, <2>2 DEF ReadInto
    <3>2. BioOK(bio') /\ PeerMap' = PeerMap /\ ShutMap' = ShutMap /\ PipeMap' = PipeMap
      BY <1>1, <1>3, <1>5, <3>1, Unseen
    <3>3. Pipe!Read(x)
      BY <1>1, <1>7, <2>1, <2>2, <3>1, <3>2
      DEF Pipe!Read, Pipe!Joined, PeerMap, ShutMap, PipeMap, Answer, Pipe!Answer
    <3>4. LastOK'
      BY <3>1 DEF LastOK, Answer
    <3> QED BY <3>2, <3>3, <3>4
  <2>3. CASE ~bio[p].closed
    <3> DEFINE q == Smaller(n, bio[p].size)
               c == [b EXCEPT !.request = q]
    <3>1. q \in Nat /\ q <= b.size - b.len
      BY <1>2, <1>3, <1>10 DEF Smaller
    <3>2. bio' = [bio EXCEPT ![p] = c] /\ last' = Answer("read", Retry, <<>>)
      <4>1. bio' = [r EXCEPT ![p].request = q]
        BY <1>10, <2>3 DEF ReadInto
      <4> QED BY <1>1, <1>4, <1>10, <2>3, <4>1 DEF ReadInto
    <3>3. Good(c) /\ SameLink(c, b) /\ c.buf = b.buf /\ c.len = b.len /\ c.size = b.size
          /\ c.offset = b.offset /\ c.closed = b.closed
      BY <1>3, <1>10, <3>1, SetRequest
    <3>4. SameLink(c, bio[p]) /\ Ring(c, c.len) = Ring(bio[p], bio[p].len)
      BY <1>3, <3>3 DEF SameLink, Ring
    <3>5. BioOK(bio') /\ PeerMap' = PeerMap /\ ShutMap' = ShutMap /\ PipeMap' = PipeMap
      BY <1>1, <1>3, <3>2, <3>3, <3>4, Unseen
    <3>6. Pipe!Read(x)
      BY <1>1, <1>7, <2>1, <2>3, <3>2, <3>5
      DEF Pipe!Read, Pipe!Joined, PeerMap, ShutMap, PipeMap, Answer, Pipe!Answer, Retry, Pipe!Retry
    <3>7. LastOK'
      BY <3>2 DEF LastOK, Answer, Retry
    <3> QED BY <3>5, <3>6, <3>7
  <2> QED BY <2>2, <2>3
<1> QED BY <1>8, <1>9, <1>10

LEMMA WriteMaps ==
    ASSUME BioOK(bio), LastOK, NEW x \in Bios, Init0(x), NEW d \in Data,
           NEW room \in Nat, room <= Room(bio[x]), Room(bio[x]) # 0 => room # 0,
           WriteFrom(x, d, room)
    PROVE  BioOK(bio') /\ LastOK' /\ (Pipe!Write(x) \/ Pipe!Silent)
<1> DEFINE b == [bio[x] EXCEPT !.request = 0]
           m == Smaller(Len(d), room)
<1>1. Joined(x) /\ Good(bio[x])
  BY DEF BioOK, LinksOK, Init0, Joined
<1>2. bio[x].buf # NULL /\ bio[x].len \in Nat /\ bio[x].size \in Nat /\ bio[x].len <= bio[x].size
  BY <1>1 DEF Good, IsStruct, RingOK, Joined
<1>3. /\ Good(b) /\ SameLink(b, bio[x]) /\ b.buf = bio[x].buf /\ b.len = bio[x].len
      /\ b.size = bio[x].size /\ b.offset = bio[x].offset /\ b.request = 0
      /\ b.closed = bio[x].closed
  BY <1>1, <1>2, SetRequest
<1>4. Ring(b, b.len) = Ring(bio[x], bio[x].len)
  BY <1>3 DEF Ring
<1>5. CASE b.closed \/ b.len = b.size
  <2>1. bio' = [bio EXCEPT ![x] = b] /\ last' = NoAnswer
    BY <1>5 DEF WriteFrom
  <2>2. BioOK(bio') /\ PeerMap' = PeerMap /\ ShutMap' = ShutMap /\ PipeMap' = PipeMap
    BY <1>3, <1>4, <2>1, Unseen
  <2>3. Pipe!Silent
    BY <2>1, <2>2 DEF Pipe!Silent, PeerMap, ShutMap, PipeMap, NoAnswer, Pipe!NoAnswer, Answer, Pipe!Answer
  <2>4. LastOK'
    BY <2>1 DEF LastOK, NoAnswer, Answer
  <2> QED BY <2>2, <2>3, <2>4
<1>6. CASE ~(b.closed \/ b.len = b.size)
  <2> DEFINE c == CopyIn(b, d, m)
  <2>1. d \in Seq(Byte) /\ Len(d) \in Nat \ {0}
    <3>1. d \in Seq(Byte) /\ d # <<>>
      BY BioPairAssumption
    <3> QED BY <3>1
  <2>2. m \in 1..Len(d) /\ m \in Nat /\ m <= b.size - b.len
    BY <1>2, <1>3, <1>6, <2>1 DEF Smaller, Room
  <2>3. bio' = [bio EXCEPT ![x] = c] /\ last' = Answer("write", m, d)
    BY <1>6 DEF WriteFrom
  <2>4. Good(c) /\ SameLink(c, b)
    <3>1. b.peer # NoBio
      BY <1>1, <1>3 DEF SameLink, Joined
    <3> QED BY <1>2, <1>3, <2>1, <2>2, <3>1, CopyInGood
  <2>5. SameLink(c, bio[x])
    BY <1>3, <2>4 DEF SameLink
  <2>6. /\ BioOK(bio')
        /\ PeerMap' = PeerMap
        /\ ShutMap' = [ShutMap EXCEPT ![x] = Joined(x) /\ c.closed]
        /\ PipeMap' = [PipeMap EXCEPT ![x] = IF Joined(x) THEN Ring(c, c.len) ELSE <<>>]
    BY <2>3, <2>4, <2>5, OneMap
  <2>7. c.closed = bio[x].closed /\ c.len = b.len + m
    BY <1>3 DEF CopyIn, Good, IsStruct
  <2>8. ShutMap' = ShutMap /\ ~ShutMap[x]
    BY <1>1, <1>3, <1>6, <2>6, <2>7 DEF ShutMap, Good, IsStruct
  <2>9. Ring(c, c.len) = PipeMap[x] \o SubSeq(d, 1, m)
    <3>1. Ring(c, c.len) = Ring(b, b.len) \o SubSeq(d, 1, m)
      BY <1>2, <1>3, <2>1, <2>2, <2>7, CopyInAppends
    <3>2. PipeMap[x] = Ring(b, b.len)
      BY <1>1, <1>4 DEF PipeMap
    <3> QED BY <3>1, <3>2
  <2>10. Pipe!Write(x)
    BY <1>1, <2>2, <2>3, <2>6, <2>8, <2>9
    DEF Pipe!Write, Pipe!Joined, Joined, PeerMap, ShutMap, PipeMap, Answer, Pipe!Answer
  <2>11. LastOK'
    BY <2>1, <2>2, <2>3 DEF LastOK, Answer
  <2> QED BY <2>6, <2>10, <2>11
<1> QED BY <1>5, <1>6

\* Every step keeps the invariant and is a step of the pipe, or none.
LEMMA StepOK ==
    ASSUME IInv, Next
    PROVE  IInv' /\ (Pipe!Next \/ UNCHANGED Pipe!vars)
<1> USE DEF IInv
<1> DEFINE Quiet == PeerMap' = PeerMap /\ ShutMap' = ShutMap /\ PipeMap' = PipeMap
<1>q. ASSUME BioOK(bio'), Quiet, last' = NoAnswer
      PROVE  IInv' /\ (Pipe!Next \/ UNCHANGED Pipe!vars)
  <2>1. LastOK'
    BY <1>q DEF LastOK, NoAnswer, Answer
  <2>2. Pipe!Silent
    BY <1>q DEF Pipe!Silent, PeerMap, ShutMap, PipeMap, NoAnswer, Pipe!NoAnswer, Answer, Pipe!Answer
  <2> QED BY <1>q, <2>1, <2>2 DEF Pipe!Next
<1>1. ASSUME NEW x \in Bios, New(x) PROVE IInv' /\ (Pipe!Next \/ UNCHANGED Pipe!vars)
  <2>1. PICK j \in Junk, c \in BOOLEAN :
          bio' = [bio EXCEPT ![x] = [Dead EXCEPT !.live = TRUE, !.size = DefaultSize,
                 !.closed = c, !.len = j, !.offset = j, !.request = j]]
    BY <1>1 DEF New
  <2> DEFINE r == [Dead EXCEPT !.live = TRUE, !.size = DefaultSize,
                 !.closed = c, !.len = j, !.offset = j, !.request = j]
  <2>2. ~bio[x].live /\ last' = NoAnswer
    BY <1>1 DEF New, Live
  <2>3. bio[x].peer = NoBio
    BY <2>2 DEF BioOK, LinksOK
  <2>4. r.live = TRUE /\ r.init = FALSE /\ r.peer = NoBio /\ r.buf = NULL /\ r.size = DefaultSize
    BY DEF Dead
  <2>5. IsStruct(r)
    <3>1. j \in Nat /\ DefaultSize \in Nat /\ DefaultSize > 0
      BY BioPairAssumption
    <3>2. r \in [live : BOOLEAN, init : BOOLEAN, peer : Bios \cup {NoBio}, closed : BOOLEAN,
                 len : Nat, offset : Nat, size : Nat, buf : {r.buf}, request : Nat]
      BY <3>1 DEF Dead
    <3> QED BY <2>4, <3>1, <3>2 DEF IsStruct
  <2>6. Good(r)
    BY <2>4, <2>5 DEF Good, RingOK, RequestOK
  <2>7. BioOK(bio')
    BY <2>1, <2>3, <2>4, <2>6, Unpaired
  <2>8. Quiet
    <3>1. \A z \in Bios : bio'[z] = bio[z] \/ (bio'[z].peer = NoBio /\ bio[z].peer = NoBio)
      BY <2>1, <2>3, <2>4 DEF BioOK
    <3>2. PeerMap' = PeerMap
      BY <3>1 DEF PeerMap
    <3>3. ShutMap' = ShutMap /\ PipeMap' = PipeMap
      BY <3>1 DEF ShutMap, PipeMap, Joined
    <3> QED BY <3>2, <3>3
  <2> QED BY <1>q, <2>2, <2>7, <2>8
<1>2. ASSUME NEW x \in Bios, NEW n \in Sizes, SetWriteBufSize(x, n)
      PROVE IInv' /\ (Pipe!Next \/ UNCHANGED Pipe!vars)
  <2> DEFINE f == IF n = bio[x].size THEN bio[x].buf ELSE NULL
             r == [bio[x] EXCEPT !.size = n, !.buf = f]
  <2>1. bio[x].peer = NoBio /\ n \in Nat \ {0} /\ last' = NoAnswer /\ Good(bio[x])
    BY <1>2, BioPairAssumption DEF SetWriteBufSize, BioOK
  <2>2. bio' = [bio EXCEPT ![x] = r]
    BY <1>2 DEF SetWriteBufSize, BioOK
  <2>3. Good(r) /\ SameLink(r, bio[x])
    BY <2>1, SetSize
  <2>4. BioOK(bio') /\ Quiet
    BY <2>1, <2>2, <2>3, Unseen DEF Joined
  <2> QED BY <1>q, <2>1, <2>4
<1>3. ASSUME NEW x \in Bios, NEW other \in Bios, Dup(x, other)
      PROVE IInv' /\ (Pipe!Next \/ UNCHANGED Pipe!vars)
  <2> DEFINE r == [bio[other] EXCEPT !.size = bio[x].size, !.buf = NULL]
  <2>1. /\ bio[other].peer = NoBio /\ bio[x].size \in Nat \ {0} /\ last' = NoAnswer
        /\ Good(bio[other]) /\ bio[other].buf = NULL
    BY <1>3 DEF Dup, BioOK, Good, IsStruct, Live
  <2>2. bio' = [bio EXCEPT ![other] = r]
    <3>1. r = [bio[other] EXCEPT !.size = bio[x].size]
      BY <2>1 DEF Good, IsStruct
    <3> QED BY <1>3, <3>1 DEF Dup
  <2>3. Good(r) /\ SameLink(r, bio[other])
    BY <2>1, SetSize
  <2>4. BioOK(bio') /\ Quiet
    BY <2>1, <2>2, <2>3, Unseen DEF Joined
  <2> QED BY <1>q, <2>1, <2>4
<1>4. ASSUME NEW x \in Bios, NEW y \in Bios, MakePairFails(x, y)
      PROVE IInv' /\ (Pipe!Next \/ UNCHANGED Pipe!vars)
  <2>1. PICK f \in Buffer(bio[x].size) : bio' = [bio EXCEPT ![x] = WithBuf(bio[x], f)]
    BY <1>4 DEF MakePairFails
  <2>2. bio[x].live /\ bio[x].peer = NoBio /\ Good(bio[x]) /\ last' = NoAnswer
    BY <1>4 DEF MakePairFails, BioOK, Live
  <2>3. Good(WithBuf(bio[x], f)) /\ SameLink(WithBuf(bio[x], f), bio[x])
    BY <2>2, LinkGood
  <2>4. BioOK(bio') /\ Quiet
    BY <2>1, <2>2, <2>3, Unseen DEF Joined
  <2> QED BY <1>q, <2>2, <2>4
<1>5. ASSUME NEW x \in Bios, NEW y \in Bios, MakePair(x, y)
      PROVE IInv' /\ (Pipe!Next \/ UNCHANGED Pipe!vars)
  <2>1. BioOK(bio')
    BY <1>5, MakePairOK
  <2>2. x # y /\ bio[x].peer = NoBio /\ bio[y].peer = NoBio /\ last' = NoAnswer
        /\ bio[x].live /\ bio[y].live
    BY <1>5 DEF MakePair, Live
  <2>3. PICK f \in Buffer(bio[x].size), g \in Buffer(bio[y].size) :
          bio' = [z \in Bios |-> IF z = x THEN Linked(WithBuf(bio[x], f), y)
                            ELSE IF z = y THEN Linked(WithBuf(bio[y], g), x)
                            ELSE bio[z]]
    BY <1>5 DEF MakePair
  <2>4. /\ bio'[x].peer = y /\ bio'[x].len = 0 /\ bio'[x].closed = FALSE
        /\ bio'[y].peer = x /\ bio'[y].len = 0 /\ bio'[y].closed = FALSE
    <3>1. Good(bio[x]) /\ Good(bio[y])
      BY DEF BioOK
    <3>2. bio'[x] = Linked(WithBuf(bio[x], f), y) /\ bio'[y] = Linked(WithBuf(bio[y], g), x)
      BY <2>2, <2>3
    <3> DEFINE b == bio[x]
               c == bio[y]
    <3>3. Good(b) /\ b.live /\ b.peer = NoBio /\ f \in Buffer(b.size)
          /\ Good(c) /\ c.live /\ c.peer = NoBio /\ g \in Buffer(c.size)
      BY <2>2, <3>1
    <3> HIDE DEF b, c
    <3>4. LET e == Linked(WithBuf(b, f), y) IN e.peer = y /\ e.len = 0 /\ e.closed = FALSE
      BY <3>3, LinkGood
    <3>5. LET e == Linked(WithBuf(c, g), x) IN e.peer = x /\ e.len = 0 /\ e.closed = FALSE
      BY <3>3, LinkGood
    <3> QED BY <3>2, <3>4, <3>5 DEF b, c
  <2>5. \A z \in Bios : z # x /\ z # y => bio'[z] = bio[z]
    BY <2>3
  <2>6. \A r : Ring(r, 0) = <<>>
    BY DEF Ring
  <2>7. PeerMap' = [PeerMap EXCEPT ![x] = y, ![y] = x]
    BY <2>2, <2>4, <2>5 DEF PeerMap
  <2>8. ShutMap' = [ShutMap EXCEPT ![x] = FALSE, ![y] = FALSE]
    BY <2>2, <2>4, <2>5 DEF ShutMap, Joined
  <2>9. PipeMap' = [PipeMap EXCEPT ![x] = <<>>, ![y] = <<>>]
    <3>1. PipeMap' = [z \in Bios |-> IF bio'[z].peer # NoBio THEN Ring(bio'[z], bio'[z].len)
                                     ELSE <<>>]
      BY DEF PipeMap, Joined
    <3>2. PipeMap'[x] = <<>> /\ PipeMap'[y] = <<>>
      BY <2>4, <2>6, <3>1
    <3>3. \A z \in Bios : z # x /\ z # y => PipeMap'[z] = PipeMap[z]
      BY <2>5, <3>1 DEF PipeMap, Joined
    <3> QED BY <3>1, <3>2, <3>3 DEF PipeMap
  <2>10. Pipe!Join(x, y)
    BY <2>2, <2>7, <2>8, <2>9 DEF Pipe!Join, Pipe!Fresh, Pipe!Joined, PeerMap, ShutMap, PipeMap,
       NoAnswer, Answer, Pipe!NoAnswer, Pipe!Answer
  <2>11. LastOK'
    BY <2>2 DEF LastOK, NoAnswer, Answer
  <2> QED BY <2>1, <2>10, <2>11 DEF Pipe!Next
<1>6. ASSUME NEW x \in Bios, Live(x), last' = NoAnswer,
             \/ bio' = Parted(x)
             \/ bio' = [Parted(x) EXCEPT ![x] = Dead]
      PROVE IInv' /\ (Pipe!Next \/ UNCHANGED Pipe!vars)
  <2> DEFINE p == bio[x].peer
  <2>1. BioOK(Parted(x)) /\ Parted(x)[x].peer = NoBio
    BY <1>6, PartedOK
  <2>2. Dead.peer = NoBio /\ Dead.init = FALSE
    BY DEF Dead
  <2>3. BioOK(bio')
    <3>1. CASE bio' = Parted(x)
      BY <2>1, <3>1
    <3>2. CASE bio' = [Parted(x) EXCEPT ![x] = Dead]
      BY <2>1, <2>2, <3>2, DeadGood, Unpaired
    <3> QED BY <1>6, <3>1, <3>2
  <2>4. \A z \in Bios : bio'[z] = (IF z = x /\ bio' # Parted(x) THEN Dead ELSE Parted(x)[z])
    BY <1>6, <2>1 DEF BioOK
  <2>5. p \in Bios \cup {NoBio}
    BY DEF BioOK, Good, IsStruct
  <2>6. bio'[x].peer = NoBio /\ (p # NoBio => bio'[p].peer = NoBio)
    <3>1. bio'[x].peer = NoBio
      BY <2>1, <2>2, <2>4
    <3>2. ASSUME p # NoBio PROVE bio'[p].peer = NoBio
      <4>1. p \in Bios /\ Good(bio[p]) /\ bio[p].peer # NoBio
        BY <2>5, <3>2, BioPairAssumption DEF BioOK, LinksOK
      <4>2. Parted(x)[p] = Unlinked(bio[p])
        BY <1>6, <3>2, <4>1 DEF Parted
      <4> QED BY <2>2, <2>4, <4>1, <4>2, UnlinkGood
    <3> QED BY <3>1, <3>2
  <2>7. \A z \in Bios : z # x /\ z # p => bio'[z] = bio[z]
    BY <2>4 DEF Parted
  <2>8. CASE p = NoBio
    <3>1. \A z \in Bios : bio'[z] = bio[z] \/ (bio'[z].peer = NoBio /\ bio[z].peer = NoBio)
      BY <2>6, <2>7, <2>8, BioPairAssumption
    <3>2. PeerMap' = PeerMap
      BY <3>1 DEF PeerMap
    <3>3. ShutMap' = ShutMap /\ PipeMap' = PipeMap
      BY <3>1 DEF ShutMap, PipeMap, Joined
    <3> QED BY <1>6, <1>q, <2>3, <3>2, <3>3
  <2>9. CASE p # NoBio
    <3>1. p \in Bios /\ PeerMap[x] = p
      BY <2>5, <2>9 DEF PeerMap
    <3>2. PeerMap' = [PeerMap EXCEPT ![x] = NoBio, ![p] = NoBio]
      BY <2>6, <2>7, <2>9, <3>1 DEF PeerMap
    <3>3. ShutMap' = [ShutMap EXCEPT ![x] = FALSE, ![p] = FALSE]
      BY <2>6, <2>7, <2>9, <3>1 DEF ShutMap, Joined
    <3>4. PipeMap' = [PipeMap EXCEPT ![x] = <<>>, ![p] = <<>>]
      BY <2>6, <2>7, <2>9, <3>1 DEF PipeMap, Joined
    <3>5. Pipe!Part(x)
      BY <1>6, <2>9, <3>1, <3>2, <3>3, <3>4
      DEF Pipe!Part, Pipe!Fresh, Pipe!Joined, PeerMap, ShutMap, PipeMap,
          NoAnswer, Answer, Pipe!NoAnswer, Pipe!Answer
    <3>6. LastOK'
      BY <1>6 DEF LastOK, NoAnswer, Answer
    <3> QED BY <2>3, <3>5, <3>6 DEF Pipe!Next
  <2> QED BY <2>8, <2>9
<1>7. ASSUME NEW x \in Bios, NEW n \in Nat, Init0(x), ReadInto(x, n)
      PROVE IInv' /\ (Pipe!Next \/ UNCHANGED Pipe!vars)
  BY <1>7, ReadMaps DEF Pipe!Next
<1>8. ASSUME NEW x \in Bios, NEW n \in Asks, NRead(x, n)
      PROVE IInv' /\ (Pipe!Next \/ UNCHANGED Pipe!vars)
  <2> DEFINE p == bio[x].peer
             there == Chunk(bio[p].offset, bio[p].len, bio[p].size)
  <2>1. p \in Bios
    <3>1. p # NoBio /\ p \in Bios \cup {NoBio}
      BY <1>8 DEF NRead, BioOK, LinksOK, Good, IsStruct, Init0
    <3> QED BY <3>1
  <2>2. Good(bio[p]) /\ bio[p].buf # NULL
    <3>1. bio[p].peer # NoBio
      BY <1>8, <2>1, BioPairAssumption DEF NRead, BioOK, LinksOK, Init0
    <3> QED BY <2>1, <3>1 DEF BioOK, Good, RingOK
  <2>3. there \in Nat /\ n \in Nat
    BY <2>2, BioPairAssumption DEF Chunk, Good, IsStruct, RingOK
  <2>4. Smaller(n, there) \in Nat
    BY <2>3 DEF Smaller
  <2>5. ReadInto(x, 1) \/ ReadInto(x, Smaller(n, there))
    BY <1>8 DEF NRead
  <2> QED BY <1>7, <1>8, <2>4, <2>5 DEF NRead
<1>9. ASSUME NEW x \in Bios, NEW d \in Data, Write(x, d) \/ NWrite(x, d)
      PROVE IInv' /\ (Pipe!Next \/ UNCHANGED Pipe!vars)
  <2> DEFINE b == bio[x]
             w == Wrap(b.offset + b.len, b.size)
             c == Chunk(w, Room(b), b.size)
  <2>1. Init0(x) /\ b.peer # NoBio /\ Good(b)
    BY <1>9 DEF Write, NWrite, BioOK, LinksOK, Init0
  <2>2. b.len \in Nat /\ b.offset \in Nat /\ b.size \in Nat /\ b.len <= b.size /\ b.offset < b.size
    BY <2>1 DEF Good, IsStruct, RingOK
  <2>3. c \in Nat /\ c <= Room(b) /\ (Room(b) # 0 => c # 0)
    BY <2>2 DEF Wrap, Chunk, Room
  <2>4. Room(b) \in Nat
    BY <2>2 DEF Room
  <2>5. WriteFrom(x, d, Room(b)) \/ WriteFrom(x, d, c)
    BY <1>9 DEF Write, NWrite
  <2>6. CASE WriteFrom(x, d, Room(b))
    BY <2>1, <2>2, <2>4, <2>6, WriteMaps DEF Pipe!Next, Room
  <2>7. CASE WriteFrom(x, d, c)
    BY <2>1, <2>3, <2>7, WriteMaps DEF Pipe!Next
  <2> QED BY <2>5, <2>6, <2>7
<1>10. ASSUME NEW x \in Bios, ShutdownWr(x)
       PROVE IInv' /\ (Pipe!Next \/ UNCHANGED Pipe!vars)
  <2> DEFINE r == [bio[x] EXCEPT !.closed = TRUE]
  <2>1. Good(bio[x]) /\ Good(r) /\ SameLink(r, bio[x])
    BY SetClosed DEF BioOK
  <2>2. bio' = [bio EXCEPT ![x] = r] /\ last' = NoAnswer
    BY <1>10 DEF ShutdownWr
  <2>3. r.closed = TRUE /\ r.buf = bio[x].buf /\ r.len = bio[x].len /\ r.size = bio[x].size
        /\ r.offset = bio[x].offset
    BY <2>1 DEF Good, IsStruct
  <2>4. Ring(r, r.len) = Ring(bio[x], bio[x].len)
    BY <2>3 DEF Ring
  <2>5. /\ BioOK(bio')
        /\ PeerMap' = PeerMap
        /\ ShutMap' = [ShutMap EXCEPT ![x] = Joined(x) /\ r.closed]
        /\ PipeMap' = [PipeMap EXCEPT ![x] = IF Joined(x) THEN Ring(r, r.len) ELSE <<>>]
    BY <2>1, <2>2, OneMap
  <2>6. PipeMap' = PipeMap
    BY <2>4, <2>5 DEF PipeMap
  <2>7. CASE ~Joined(x)
    <3>1. ShutMap' = ShutMap
      BY <2>5, <2>7 DEF ShutMap
    <3> QED BY <1>q, <2>2, <2>5, <2>6, <3>1
  <2>8. CASE Joined(x)
    <3>1. ShutMap' = [ShutMap EXCEPT ![x] = TRUE]
      BY <2>3, <2>5, <2>8
    <3>2. Pipe!Shut(x)
      BY <2>2, <2>5, <2>6, <2>8, <3>1
      DEF Pipe!Shut, Pipe!Joined, Joined, PeerMap, ShutMap, PipeMap,
          NoAnswer, Answer, Pipe!NoAnswer, Pipe!Answer
    <3>3. LastOK'
      BY <2>2 DEF LastOK, NoAnswer, Answer
    <3> QED BY <2>5, <3>2, <3>3 DEF Pipe!Next
  <2> QED BY <2>7, <2>8
<1>11. ASSUME NEW x \in Bios, Reset(x)
       PROVE IInv' /\ (Pipe!Next \/ UNCHANGED Pipe!vars)
  <2> DEFINE r == [bio[x] EXCEPT !.len = 0, !.offset = 0]
  <2>1. last' = NoAnswer /\ Good(bio[x])
    BY <1>11 DEF Reset, BioOK
  <2>2. CASE bio[x].buf = NULL
    <3>1. bio' = bio
      BY <1>11, <2>2 DEF Reset
    <3>2. Quiet /\ BioOK(bio')
      BY <3>1 DEF PeerMap, ShutMap, PipeMap, Joined
    <3> QED BY <1>q, <2>1, <3>2
  <2>3. CASE bio[x].buf # NULL
    <3>1. bio' = [bio EXCEPT ![x] = r]
      BY <1>11, <2>3 DEF Reset, BioOK
    <3>2. Good(r) /\ SameLink(r, bio[x])
      BY <2>1, <2>3, SetEmpty
    <3>3. r.closed = bio[x].closed /\ r.len = 0
      BY <2>1 DEF Good, IsStruct
    <3>4. /\ BioOK(bio')
          /\ PeerMap' = PeerMap
          /\ ShutMap' = [ShutMap EXCEPT ![x] = Joined(x) /\ r.closed]
          /\ PipeMap' = [PipeMap EXCEPT ![x] = IF Joined(x) THEN Ring(r, r.len) ELSE <<>>]
      BY <3>1, <3>2, OneMap
    <3>5. ShutMap' = ShutMap
      <4>1. (Joined(x) /\ r.closed) = ShutMap[x]
        BY <3>3 DEF ShutMap
      <4> QED BY <3>4, <4>1 DEF ShutMap
    <3>6. PipeMap' = [PipeMap EXCEPT ![x] = <<>>]
      BY <3>3, <3>4 DEF Ring
    <3>7. Pipe!Discard(x)
      BY <2>1, <3>4, <3>5, <3>6
      DEF Pipe!Discard, PeerMap, ShutMap, PipeMap, NoAnswer, Answer, Pipe!NoAnswer, Pipe!Answer
    <3>8. LastOK'
      BY <2>1 DEF LastOK, NoAnswer, Answer
    <3> QED BY <3>4, <3>7, <3>8 DEF Pipe!Next
  <2> QED BY <2>2, <2>3
<1>12. ASSUME NEW x \in Bios, ResetReadRequest(x)
       PROVE IInv' /\ (Pipe!Next \/ UNCHANGED Pipe!vars)
  <2> DEFINE r == [bio[x] EXCEPT !.request = 0]
  <2>1. bio' = [bio EXCEPT ![x] = r] /\ last' = NoAnswer /\ Good(bio[x])
    BY <1>12 DEF ResetReadRequest, BioOK
  <2>2. Good(r) /\ SameLink(r, bio[x]) /\ r.closed = bio[x].closed
        /\ r.buf = bio[x].buf /\ r.len = bio[x].len /\ r.size = bio[x].size /\ r.offset = bio[x].offset
    <3>1. CASE bio[x].peer # NoBio
      <4>1. bio[x].len <= bio[x].size /\ bio[x].len \in Nat /\ bio[x].size \in Nat
        BY <2>1, <3>1 DEF Good, RingOK, IsStruct
      <4> QED BY <2>1, <4>1, SetRequest
    <3>2. CASE bio[x].peer = NoBio
      <4>1. r \in [live : BOOLEAN, init : BOOLEAN, peer : Bios \cup {NoBio}, closed : BOOLEAN,
                   len : Nat, offset : Nat, size : Nat, buf : {bio[x].buf}, request : Nat]
        BY <2>1 DEF Good, IsStruct
      <4>2. /\ r.live = bio[x].live /\ r.init = bio[x].init /\ r.peer = bio[x].peer
            /\ r.closed = bio[x].closed /\ r.size = bio[x].size /\ r.buf = bio[x].buf
            /\ r.len = bio[x].len /\ r.offset = bio[x].offset
        BY <2>1 DEF Good, IsStruct
      <4>3. IsStruct(r) /\ RingOK(r) /\ RequestOK(r)
        BY <2>1, <3>2, <4>1, <4>2 DEF Good, IsStruct, RingOK, RequestOK
      <4> QED BY <4>2, <4>3 DEF Good, SameLink
    <3> QED BY <3>1, <3>2
  <2>3. Ring(r, r.len) = Ring(bio[x], bio[x].len)
    BY <2>2 DEF Ring
  <2>4. BioOK(bio') /\ Quiet
    BY <2>1, <2>2, <2>3, Unseen
  <2> QED BY <1>q, <2>1, <2>4
<1>13. ASSUME NEW x \in Bios, ReadUninit(x)
       PROVE IInv' /\ (Pipe!Next \/ UNCHANGED Pipe!vars)
  <2>1. bio' = bio /\ last' = Answer("read", Uninit, <<>>) /\ ~Init0(x)
    BY <1>13 DEF ReadUninit
  <2>2. bio[x].peer = NoBio
    BY <2>1 DEF BioOK, LinksOK, Init0
  <2>3. Quiet /\ BioOK(bio')
    BY <2>1 DEF PeerMap, ShutMap, PipeMap, Joined
  <2>4. Pipe!ReadUninit(x)
    BY <2>1, <2>2, <2>3
    DEF Pipe!ReadUninit, Pipe!Joined, PeerMap, ShutMap, PipeMap, Answer, Pipe!Answer, Uninit, Pipe!Uninit
  <2>5. LastOK'
    BY <2>1 DEF LastOK, Answer, Uninit
  <2> QED BY <2>3, <2>4, <2>5 DEF Pipe!Next
<1>14. \A n \in Asks : n \in Nat
  BY BioPairAssumption
<1> QED
  BY <1>1, <1>2, <1>3, <1>4, <1>5, <1>6, <1>7, <1>8, <1>9, <1>10, <1>11, <1>12, <1>13, <1>14
  DEF Next, Read, DestroyPair, Free

-----------------------------------------------------------------------------
(* The theorems *)

LEMMA InitOK == Init => IInv /\ Pipe!Init
<1> SUFFICES ASSUME Init PROVE IInv /\ Pipe!Init
  OBVIOUS
<1>1. Dead.peer = NoBio /\ Dead.init = FALSE
  BY DEF Dead
<1>2. BioOK(bio)
  BY <1>1, DeadGood DEF Init, BioOK, LinksOK
<1>3. LastOK
  BY DEF Init, LastOK, NoAnswer, Answer
<1>4. Pipe!Init
  BY <1>1 DEF Init, Pipe!Init, Joined, NoAnswer, Answer, Pipe!NoAnswer, Pipe!Answer
<1> QED BY <1>2, <1>3, <1>4 DEF IInv

LEMMA Unchanged == ASSUME IInv, UNCHANGED vars PROVE IInv' /\ UNCHANGED Pipe!vars
<1>1. IInv'
  BY DEF IInv, vars, LastOK
<1> QED BY <1>1 DEF vars, Pipe!vars, Joined

\* The strengthening holds in every state.
LEMMA Inductive == Spec => []IInv
<1>1. Init => IInv
  BY InitOK
<1>2. IInv /\ [Next]_vars => IInv'
  BY StepOK, Unchanged
<1> QED BY <1>1, <1>2, PTL DEF Spec

\* The fields keep their types whatever is called in whatever order.
THEOREM TypeCorrect == Spec => []TypeOK
BY Inductive, IInvImplies, PTL

\* Peers always point back to each other, both alive (bio_make_pair, bio_destroy_pair).
THEOREM PeersAlwaysPointBack == Spec => []PeersPointBack
BY Inductive, IInvImplies, PTL

\* The ring stays inside its buffer and nothing is left in it without a peer.
THEOREM RingAlwaysFits == Spec => []RingFits
BY Inductive, IInvImplies, PTL

\* A read request is never more than one write can satisfy.
THEOREM RequestAlwaysFits == Spec => []RequestFits
BY Inductive, IInvImplies, PTL

\* A BIO pair is a pipe each way, for every buffer size and every sequence of calls.
THEOREM PairImplementsPipe == Spec => PairIsPipe
<1>1. Init => Pipe!Init
  BY InitOK
<1>2. IInv /\ [Next]_vars => [Pipe!Next]_Pipe!vars
  BY StepOK, Unchanged
<1> QED BY <1>1, <1>2, Inductive, PTL DEF Spec, PairIsPipe, Pipe!Spec

================================================================================
