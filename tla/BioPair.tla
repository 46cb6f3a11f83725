--------------------------------- MODULE BioPair ---------------------------------
(* BIO pairs, crypto/bio/bss_bio.c: two BIOs, each with a ring buffer that the *)
(* other reads.  One action per call of the API; a call runs to its end (the   *)
(* pair has no lock and both ends belong to one thread).                       *)
EXTENDS Integers, Sequences

CONSTANTS Bios,        \* BIOs of type BIO_s_bio that a program may create
          NoBio,       \* NULL
          Byte,
          Data,        \* what a writer may hand over
          DefaultSize, \* 17 * 1024 in the code
          Sizes,       \* arguments of BIO_set_write_buf_size
          Asks,        \* how many bytes a reader may ask for
          Junk         \* what an uninitialised field may hold

ASSUME BioPairAssumption ==
    /\ NoBio \notin Bios
    /\ Data \subseteq Seq(Byte) /\ <<>> \notin Data
    /\ Byte # {}
    /\ DefaultSize \in Nat \ {0} /\ Sizes \subseteq Nat /\ Asks \subseteq Nat
    /\ Junk \subseteq Nat /\ Junk # {}

VARIABLES bio,    \* the BIO and its struct bio_bio_st
          last    \* the last read or write, with its answer

vars == <<bio, last>>

NULL == <<>>    \* buf when nothing is allocated
Retry == -1     \* with the retry flags set
Broken == -1    \* BIO_R_BROKEN_PIPE, no retry flag
Uninit == -2

Answer(op, ret, bytes) == [op |-> op, ret |-> ret, bytes |-> bytes]
NoAnswer == Answer("none", 0, <<>>)

Smaller(a, b) == IF a < b THEN a ELSE b
Live(x) == bio[x].live
Init0(x) == bio[x].init
Peer(x) == bio[bio[x].peer]
Buffer(size) == [0..(size - 1) -> Byte]

-----------------------------------------------------------------------------
(* The ring buffer *)

\* A write offset beyond the end wraps once.
Wrap(at, size) == IF at >= size THEN at - size ELSE at

\* How many of `rest` bytes are copied before the ring wraps.
Chunk(at, rest, size) == IF at + rest <= size THEN rest ELSE size - at

\* The bytes of b from its offset on: what its peer would read.
Ring(b, n) == [i \in 1..n |-> b.buf[Wrap(b.offset + i - 1, b.size)]]

\* What two memcpys out of the ring copy: up to its end, then from its start.
CopyOut(b, n) == LET c == Chunk(b.offset, n, b.size) IN
    [i \in 1..n |-> IF i <= c THEN b.buf[b.offset + i - 1] ELSE b.buf[i - c - 1]]

\* The offset moves on, wraps at the end, and is 0 in an empty buffer.
Consume(b, n) == [b EXCEPT
    !.len = b.len - n,
    !.offset = IF b.len = n THEN 0 ELSE Wrap(b.offset + n, b.size)]

BugCopyIn(b, d, n) == [b EXCEPT !.len = b.len + n,
    !.buf = [k \in 0..(b.size - 1) |->
               IF b.len <= k /\ k < b.len + n THEN d[k - b.len + 1] ELSE b.buf[k]]]

\* n bytes of d are copied in behind those that are there.
CopyIn(b, d, n) ==
    LET w == Wrap(b.offset + b.len, b.size)
        c == Chunk(w, n, b.size)
    IN [b EXCEPT
        !.len = b.len + n,
        !.buf = [k \in 0..(b.size - 1) |->
                   IF w <= k /\ k < w + c THEN d[k - w + 1]
                   ELSE IF k < n - c THEN d[k + c + 1]
                   ELSE b.buf[k]]]

-----------------------------------------------------------------------------
(* Creation, pairing and destruction *)

Dead == [live |-> FALSE, init |-> FALSE, peer |-> NoBio, closed |-> FALSE,
         len |-> 0, offset |-> 0, size |-> 0, buf |-> NULL, request |-> 0]

Init ==
    /\ bio = [x \in Bios |-> Dead]
    /\ last = NoAnswer

\* BIO_new: closed, len, offset and request hold what the memory held.
New(x) == \E j \in Junk, c \in BOOLEAN :
    /\ ~Live(x)
    /\ bio' = [bio EXCEPT ![x] = [Dead EXCEPT !.live = TRUE, !.size = DefaultSize,
                 !.closed = c, !.len = j, !.offset = j, !.request = j]]
    /\ last' = NoAnswer

BugSetWriteBufSize(x, n) ==
    /\ Live(x) /\ n > 0
    /\ bio' = [bio EXCEPT ![x].size = n]
    /\ last' = NoAnswer

\* BIO_set_write_buf_size: another size frees the buffer.
SetWriteBufSize(x, n) ==
    /\ Live(x) /\ bio[x].peer = NoBio /\ n > 0
    /\ bio' = [bio EXCEPT ![x].size = n,
                          ![x].buf = IF n = bio[x].size THEN @ ELSE NULL]
    /\ last' = NoAnswer

\* A buffer is allocated only where none was kept from an earlier pair.
WithBuf(b, f) == IF b.buf # NULL THEN b
                 ELSE [b EXCEPT !.buf = f, !.len = 0, !.offset = 0]

Linked(b, y) == [b EXCEPT !.peer = y, !.closed = FALSE, !.request = 0, !.init = TRUE]
\* bio_make_pair, of two different BIOs.
MakePair(x, y) ==
    /\ x # y /\ Live(x) /\ Live(y) /\ bio[x].peer = NoBio /\ bio[y].peer = NoBio
    /\ \E f \in Buffer(bio[x].size), g \in Buffer(bio[y].size) :
         bio' = [z \in Bios |-> IF z = x THEN Linked(WithBuf(bio[x], f), y)
                           ELSE IF z = y THEN Linked(WithBuf(bio[y], g), x)
                           ELSE bio[z]]
    /\ last' = NoAnswer

\* The second malloc fails: the first BIO keeps its buffer and no peer.
MakePairFails(x, y) ==
    /\ x # y /\ Live(x) /\ Live(y) /\ bio[x].peer = NoBio /\ bio[y].peer = NoBio
    /\ bio[y].buf = NULL
    /\ \E f \in Buffer(bio[x].size) : bio' = [bio EXCEPT ![x] = WithBuf(bio[x], f)]
    /\ last' = NoAnswer

BugUnlinked(b) == [b EXCEPT !.peer = NoBio, !.init = FALSE]

Unlinked(b) == [b EXCEPT !.peer = NoBio, !.init = FALSE, !.len = 0, !.offset = 0]
BugParted(x) == [bio EXCEPT ![x] = Unlinked(@)]

Parted(x) == [z \in Bios |-> IF Live(x) /\ bio[x].peer # NoBio /\ z \in {x, bio[x].peer}
                             THEN Unlinked(bio[z]) ELSE bio[z]]
DestroyPair(x) == Live(x) /\ bio' = Parted(x) /\ last' = NoAnswer

Free(x) ==
    /\ Live(x)
    /\ bio' = [Parted(x) EXCEPT ![x] = Dead]
    /\ last' = NoAnswer

-----------------------------------------------------------------------------
(* Reading *)

\* BIO_read of n bytes: p is the BIO whose buffer is read.
ReadInto(x, n) ==
    LET p == bio[x].peer
        r == [bio EXCEPT ![p].request = 0]
        m == Smaller(n, bio[p].len)
    IN IF n = 0 THEN bio' = r /\ last' = NoAnswer
       ELSE IF bio[p].len # 0
            THEN /\ bio' = [r EXCEPT ![p] = Consume(@, m)]
                 /\ last' = Answer("read", m, CopyOut(bio[p], m))
       ELSE IF bio[p].closed
            THEN bio' = r /\ last' = Answer("read", 0, <<>>)
       ELSE /\ bio' = [r EXCEPT ![p].request = Smaller(n, bio[p].size)]
            /\ last' = Answer("read", Retry, <<>>)

Read(x, n) == Live(x) /\ Init0(x) /\ ReadInto(x, n)

\* BIO_nread: no wrap, so that one call may give less than there is; without
\* data the call becomes a read of one byte.
NRead(x, n) ==
    LET p == bio[x].peer
        there == Chunk(bio[p].offset, bio[p].len, bio[p].size)
    IN /\ Live(x) /\ Init0(x)
       /\ IF bio[p].len = 0 THEN ReadInto(x, 1) ELSE ReadInto(x, Smaller(n, there))

ReadUninit(x) ==
    /\ Live(x) /\ ~Init0(x)
    /\ last' = Answer("read", Uninit, <<>>)
    /\ UNCHANGED bio

-----------------------------------------------------------------------------
(* Writing *)

\* d is offered, of which the buffer takes `room` bytes at most.
WriteFrom(x, d, room) ==
    LET b == [bio[x] EXCEPT !.request = 0]
        m == Smaller(Len(d), room)
    IN IF b.closed \/ b.len = b.size
       THEN bio' = [bio EXCEPT ![x] = b] /\ last' = NoAnswer
       ELSE /\ bio' = [bio EXCEPT ![x] = CopyIn(b, d, m)]
            /\ last' = Answer("write", m, d)

Room(b) == b.size - b.len

Write(x, d) == Live(x) /\ Init0(x) /\ WriteFrom(x, d, Room(bio[x]))

\* BIO_nwrite, with the caller filling the region before the next call.
NWrite(x, d) ==
    LET w == Wrap(bio[x].offset + bio[x].len, bio[x].size) IN
    /\ Live(x) /\ Init0(x)
    /\ WriteFrom(x, d, Chunk(w, Room(bio[x]), bio[x].size))

-----------------------------------------------------------------------------
(* BIO_ctrl *)

ShutdownWr(x) ==
    /\ Live(x)
    /\ bio' = [bio EXCEPT ![x].closed = TRUE]
    /\ last' = NoAnswer

Reset(x) ==
    /\ Live(x)
    /\ bio' = IF bio[x].buf = NULL THEN bio
              ELSE [bio EXCEPT ![x].len = 0, ![x].offset = 0]
    /\ last' = NoAnswer

ResetReadRequest(x) ==
    /\ Live(x)
    /\ bio' = [bio EXCEPT ![x].request = 0]
    /\ last' = NoAnswer

\* BIO_CTRL_DUP: other is fresh and takes over the size.
Dup(x, other) ==
    /\ Live(x) /\ Live(other) /\ bio[other].buf = NULL /\ bio[other].peer = NoBio
    /\ bio' = [bio EXCEPT ![other].size = bio[x].size]
    /\ last' = NoAnswer

Next ==
    \/ \E x \in Bios :
         \/ New(x) \/ DestroyPair(x) \/ Free(x)
         \/ ReadUninit(x) \/ ShutdownWr(x) \/ Reset(x) \/ ResetReadRequest(x)
         \/ \E n \in Sizes : SetWriteBufSize(x, n)
         \/ \E n \in Asks : Read(x, n) \/ NRead(x, n)
         \/ \E d \in Data : Write(x, d) \/ NWrite(x, d)
    \/ \E x, y \in Bios : MakePair(x, y) \/ MakePairFails(x, y) \/ Dup(x, y)

Spec == Init /\ [][Next]_vars

-----------------------------------------------------------------------------
(* Properties *)

Joined(x) == bio[x].peer # NoBio

\* A struct whose buffer has as many bytes as its size says.
IsStruct(b) ==
    /\ b \in [live : BOOLEAN, init : BOOLEAN, peer : Bios \cup {NoBio}, closed : BOOLEAN,
              len : Nat, offset : Nat, size : Nat, buf : {b.buf}, request : Nat]
    /\ b.buf = NULL \/ b.buf \in Buffer(b.size)
    /\ b.live => b.size > 0

\* The fields have their types.
TypeOK ==
    /\ bio = [x \in Bios |-> bio[x]]
    /\ \A x \in Bios : IsStruct(bio[x])
    /\ last \in [op : {"none", "read", "write"}, ret : Int, bytes : Seq(Byte)]

\* A BIO is initialised exactly while it has a peer, and the peer is a live BIO
\* that points back, whatever was paired, parted and freed before
\* (bio_destroy_pair resets both sides, bio_make_pair refuses a BIO in use).
PeersPointBack == \A x \in Bios :
    /\ Init0(x) <=> Joined(x)
    /\ Joined(x) => /\ Live(x) /\ Live(bio[x].peer)
                    /\ Peer(x).peer = x

\* The ring never holds more than the buffer, reads and writes start inside it,
\* an empty ring starts at 0, and a BIO without peer keeps no bytes for the next
\* one (the comments of struct bio_bio_st).
RingFits == \A x \in Bios :
    /\ Joined(x) => bio[x].buf # NULL
    /\ bio[x].buf # NULL => /\ bio[x].len <= bio[x].size
                            /\ bio[x].offset < bio[x].size
                            /\ bio[x].len = 0 => bio[x].offset = 0
                            /\ ~Joined(x) => bio[x].len = 0

\* A read request is open only while the ring is empty and is never more than
\* one write can satisfy; every write and every read that finds data clears it.
RequestFits == \A x \in Bios :
    Joined(x) => /\ bio[x].request <= Room(bio[x])
                 /\ bio[x].len # 0 => bio[x].request = 0

\* A pair is a pipe each way: bytes come out in the order, and with the values,
\* they went in, across every wrap of the ring, by copying or not; no retry
\* while there are bytes, no end before they are read, none kept for a new peer.
Pipe == INSTANCE BytePipe WITH
    peer <- [x \in Bios |-> bio[x].peer],
    shut <- [x \in Bios |-> Joined(x) /\ bio[x].closed],
    pipe <- [x \in Bios |-> IF Joined(x) THEN Ring(bio[x], bio[x].len) ELSE <<>>]
PairIsPipe == Pipe!Spec

================================================================================
