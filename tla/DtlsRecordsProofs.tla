---------------------------- MODULE DtlsRecordsProofs ----------------------------
(* Theorems about DtlsRecords: record numbers are fresh, a record goes up once, *)
(* no data of an epoch goes up before its Finished, and no record kept in time  *)
(* is lost, for every window, queue length, number of epochs and records.       *)
EXTENDS DtlsRecords, FiniteSetTheorems, TLAPS

-----------------------------------------------------------------------------
(* The replay window *)

Marked(b, s) == ~ReplayCheck(b, s)

\* The bitmap says of s that it was received, or that it is too old.
LEMMA MarkedMeans ==
    ASSUME NEW b \in Bitmap, NEW s \in Nat
    PROVE  Marked(b, s) <=> s <= b.max /\ (b.max - s >= Width \/ b.max - s \in b.map)
<1> USE RecordsAssumption DEF Bitmap
<1>1. b.max \in Nat /\ b.map \subseteq 0..(Width - 1)
    OBVIOUS
<1>2. CASE s > b.max
    <2>1. Cmp(s, b.max) > 0
        BY <1>1, <1>2 DEF Cmp
    <2> QED BY <1>1, <1>2, <2>1 DEF Marked, ReplayCheck
<1>3. CASE s <= b.max /\ b.max - s <= Saturation
    <2>1. Cmp(s, b.max) = s - b.max /\ -(s - b.max) = b.max - s
        BY <1>1, <1>3 DEF Cmp
    <2> QED BY <1>1, <1>3, <2>1 DEF Marked, ReplayCheck
<1>4. CASE s <= b.max /\ b.max - s > Saturation
    <2>1. Cmp(s, b.max) = -Saturation
        BY <1>1, <1>4 DEF Cmp
    <2> QED BY <1>1, <1>4, <2>1 DEF Marked, ReplayCheck
<1> QED BY <1>1, <1>2, <1>3, <1>4

\* An update marks its number and forgets none.
LEMMA UpdateMarks ==
    ASSUME NEW b \in Bitmap, NEW s \in Nat
    PROVE  /\ BitmapUpdate(b, s) \in Bitmap
           /\ Marked(BitmapUpdate(b, s), s)
           /\ \A t \in Nat : Marked(b, t) => Marked(BitmapUpdate(b, s), t)
<1> USE RecordsAssumption
<1>1. b.max \in Nat /\ b.map \subseteq 0..(Width - 1)
    BY DEF Bitmap
<1>2. CASE s > b.max
    <2> DEFINE m == {k \in 0..(Width - 1) : k = 0 \/ k - Cmp(s, b.max) \in b.map}
    <2>1. Cmp(s, b.max) > 0 /\ Cmp(s, b.max) \in Int
        BY <1>1, <1>2 DEF Cmp
    <2>2. BitmapUpdate(b, s) = [map |-> m, max |-> s]
        BY <2>1 DEF BitmapUpdate
    <2>3. m \subseteq 0..(Width - 1) /\ 0 \in m
        BY <2>1
    <2>4. BitmapUpdate(b, s) \in Bitmap
        BY <2>2, <2>3 DEF Bitmap
    <2>5. ASSUME NEW t \in Nat, Marked(b, t)
          PROVE  Marked(BitmapUpdate(b, s), t)
        <3>1. t <= b.max /\ (b.max - t >= Width \/ b.max - t \in b.map)
            BY <2>5, MarkedMeans
        <3>2. CASE s - t >= Width
            BY <3>1, <3>2, <2>2, <2>4, <1>1, <1>2, MarkedMeans
        <3>3. CASE s - t < Width
            <4>1. s - b.max < Width /\ Cmp(s, b.max) = s - b.max
                BY <3>1, <3>3, <1>1, <1>2 DEF Cmp
            <4>2. (s - t) - (s - b.max) = b.max - t /\ s - t \in 0..(Width - 1)
                BY <3>1, <3>3, <1>1, <1>2
            <4>3. b.max - t \in b.map
                BY <3>1, <3>3, <1>1, <1>2
            <4>4. s - t \in m
                BY <4>1, <4>2, <4>3
            <4> QED BY <4>4, <3>1, <2>2, <2>4, <1>1, <1>2, MarkedMeans
        <3> QED BY <3>2, <3>3, <1>1, <1>2
    <2>6. Marked(BitmapUpdate(b, s), s)
        <3>1. s - s = 0 /\ s <= s
            OBVIOUS
        <3> QED BY <3>1, <2>2, <2>3, <2>4, MarkedMeans
    <2> QED BY <2>4, <2>5, <2>6
<1>3. CASE s <= b.max
    <2> DEFINE d == b.max - s
               m == IF -Cmp(s, b.max) < Width THEN b.map \cup {-Cmp(s, b.max)} ELSE b.map
    <2>1. Cmp(s, b.max) <= 0 /\ Cmp(s, b.max) \in Int
        BY <1>1, <1>3 DEF Cmp
    <2>2. BitmapUpdate(b, s) = [b EXCEPT !.map = m]
        BY <2>1 DEF BitmapUpdate
    <2>3. m \subseteq 0..(Width - 1) /\ b.map \subseteq m
        BY <2>1, <1>1
    <2>4. BitmapUpdate(b, s) \in Bitmap /\ BitmapUpdate(b, s).max = b.max
          /\ BitmapUpdate(b, s).map = m
        BY <2>2, <2>3 DEF Bitmap
    <2>5. d >= Width \/ d \in m
        <3>1. CASE d >= Width
            BY <3>1
        <3>2. CASE d < Width
            <4>1. -Cmp(s, b.max) = d
                BY <3>2, <1>1, <1>3 DEF Cmp
            <4> QED BY <4>1, <3>2
        <3> QED BY <3>1, <3>2, <1>1
    <2>6. Marked(BitmapUpdate(b, s), s)
        BY <2>4, <2>5, <1>3, MarkedMeans
    <2>7. ASSUME NEW t \in Nat, Marked(b, t)
          PROVE  Marked(BitmapUpdate(b, s), t)
        <3>1. t <= b.max /\ (b.max - t >= Width \/ b.max - t \in b.map)
            BY <2>7, MarkedMeans
        <3> QED BY <3>1, <2>3, <2>4, MarkedMeans
    <2> QED BY <2>4, <2>6, <2>7
<1> QED BY <1>1, <1>2, <1>3

-----------------------------------------------------------------------------
(* The inductive invariant *)

\* What the numbers on the wire say of the writer; the ChangeCipherSpec is the
\* last new record of its epoch, and retransmitted only after it.
Writing ==
    /\ w \in [epoch : Nat, seq : Nat, last : Nat, flight : SUBSET [epoch : Nat, type : Types],
              phase : {"idle", "started", "keyed", "changed"}]
    /\ wire \subseteq Record
    /\ w.epoch <= MaxEpoch /\ (w.phase \in {"started", "keyed"} => w.epoch < MaxEpoch)
    /\ NumbersFresh
    /\ \A x, y \in wire : Number(x) = Number(y) => x = y
    /\ \A x \in wire : x.type = "ccs" => x.epoch < w.epoch
    /\ \A x \in wire : x.type = "data" => x.epoch > 0
    /\ \A m \in w.flight : m.type \in Handshake \cup {"ccs"}
    /\ \A m \in w.flight : m.type = "ccs" => m.epoch < w.epoch
    /\ w.phase = "keyed" => w.flight = {}

ReaderType(q) == q \in
    [epoch : Nat, bitmap : Bitmap, next : Bitmap,
     unprocessed : SUBSET Arrived, unprocessedEpoch : Nat,
     processed : SUBSET Arrived, data : SUBSET Arrived,
     init : BOOLEAN, ccsOk : BOOLEAN, ccs : BOOLEAN]

\* The two ends are at most one epoch apart, and the writer changes its keys only
\* in a handshake that the reader is in.
Paced(q) ==
    /\ w.epoch \in {q.epoch, q.epoch + 1}
    /\ w.phase = "keyed" => w.epoch = q.epoch
    /\ w.phase = "keyed" \/ w.epoch = q.epoch + 1 => q.init /\ ~q.ccs
    /\ ~q.init => ~q.ccs

Held(q) == q.unprocessed \cup q.processed \cup q.data

\* What each queue holds.
Queued(q) ==
    /\ \A x \in q.unprocessed : x.type \in Handshake \cup {"alert"} /\ x.epoch <= q.epoch + 1
    /\ \A x \in q.processed : x.type \in Handshake \cup {"alert"} /\ x.epoch = q.epoch
    /\ \A x \in q.data : x.type \in {"data", "alert"} /\ x.epoch <= q.epoch

\* A record is in one place.
InOnePlace(q, u) ==
    /\ u \subseteq wire
    /\ \A x \in Held(q) : Original(x) \in wire \ u
    /\ \A x, y \in Held(q) : Original(x) = Original(y) => x = y
    /\ q.unprocessed \cap q.processed = {} /\ q.unprocessed \cap q.data = {}
    /\ q.processed \cap q.data = {}

\* Whatever was received of the two epochs is marked.
KnownMarked(q, u) ==
    /\ \A x \in u : x.epoch <= q.epoch
    /\ \A x \in u : x.epoch = q.epoch => Marked(q.bitmap, x.seq)
    /\ \A x \in Held(q) : x.epoch = q.epoch => Marked(q.bitmap, x.seq)
    /\ \A x \in Held(q) : x.epoch = q.epoch + 1 => Marked(q.next, x.seq)

FinishedOf(e, u) == \E f \in u : f.type = "finished" /\ f.epoch = e

\* Each epoch the reader left, and the one it is in, began with a Finished.
Begun(q, u) ==
    /\ \A e \in Nat : 0 < e /\ e < q.epoch => FinishedOf(e, u)
    /\ q.epoch > 0 /\ ~q.ccs => FinishedOf(q.epoch, u)
    /\ \A x \in u : x.type = "data" => FinishedOf(x.epoch, u)

Reading(q, u) ==
    /\ ReaderType(q) /\ Paced(q) /\ Queued(q)
    /\ InOnePlace(q, u) /\ KnownMarked(q, u) /\ Begun(q, u)

IInv == Writing /\ Reading(r, up) /\ twice = FALSE /\ refused \in BOOLEAN

-----------------------------------------------------------------------------
(* The writer's steps *)

\* A number that is fresh is new on the wire.
LEMMA InitOK == Init => IInv
<1> SUFFICES ASSUME Init PROVE IInv
    OBVIOUS
<1> USE RecordsAssumption
<1>1. NoBitmap \in Bitmap
    BY DEF NoBitmap, Bitmap
<1>2. Writing
    BY DEF Init, Writing, NumbersFresh
<1>3. ReaderType(r)
    BY <1>1 DEF Init, ReaderType
<1>4. Paced(r) /\ Queued(r)
    BY DEF Init, Paced, Queued
<1>5. InOnePlace(r, up) /\ KnownMarked(r, up) /\ Begun(r, up)
    BY DEF Init, InOnePlace, KnownMarked, Begun, Held
<1> QED BY <1>2, <1>3, <1>4, <1>5 DEF IInv, Reading, Init

\* The reader's part of the invariant survives a longer wire, where the ends
\* stay in step.
LEMMA ReaderKept ==
    ASSUME IInv, wire \subseteq wire', UNCHANGED <<r, up, twice, refused>>, Paced(r)',
           Writing'
    PROVE  IInv'
<1>1. ReaderType(r)' /\ Queued(r)'
    BY DEF IInv, Reading, ReaderType, Queued
<1>2. InOnePlace(r, up)'
    BY DEF IInv, Reading, InOnePlace, Held
<1>3. KnownMarked(r, up)'
    BY DEF IInv, Reading, KnownMarked, Held, Marked, ReplayCheck
<1>4. Begun(r, up)'
    BY DEF IInv, Reading, Begun, FinishedOf
<1> QED BY <1>1, <1>2, <1>3, <1>4 DEF IInv, Reading

\* A record of the current epoch.
LEMMA WriteOK ==
    ASSUME IInv, NEW t \in Types, NEW kept \in BOOLEAN,
           NEW phase \in {"idle", "started", "keyed", "changed"},
           Write(t, kept, phase), t # "ccs", t = "data" => w.epoch > 0,
           kept => t \in Handshake,
           phase \in {"started", "keyed"} => w.epoch < MaxEpoch,
           phase = "keyed" => w.phase = "keyed" /\ ~kept
    PROVE  IInv'
<1> DEFINE x == [epoch |-> w.epoch, seq |-> w.seq, type |-> t]
<1>1. /\ wire' = wire \cup {x} /\ w.seq < MaxSeq
      /\ w' = [w EXCEPT !.seq = @ + 1, !.phase = phase,
                        !.flight = IF kept THEN @ \cup {[epoch |-> w.epoch, type |-> t]} ELSE @]
      /\ UNCHANGED <<r, up, twice, refused>>
    BY DEF Write, Put
<1>2. Writing
    BY DEF IInv
<1>3. x \in Record
    BY <1>1, <1>2, RecordsAssumption DEF Writing, Record
<1>4. /\ w'.epoch = w.epoch /\ w'.seq = w.seq + 1 /\ w'.last = w.last /\ w'.phase = phase
      /\ w'.flight \subseteq w.flight \cup {[epoch |-> w.epoch, type |-> t]}
      /\ ~kept => w'.flight = w.flight
      /\ kept \/ w'.flight = w.flight
    BY <1>1, <1>2 DEF Writing
<1>5. w' \in [epoch : Nat, seq : Nat, last : Nat, flight : SUBSET [epoch : Nat, type : Types],
              phase : {"idle", "started", "keyed", "changed"}]
    <2> DEFINE fl == IF kept THEN w.flight \cup {[epoch |-> w.epoch, type |-> t]} ELSE w.flight
    <2>1. fl \subseteq [epoch : Nat, type : Types]
        BY <1>2 DEF Writing
    <2>2. w' = [w EXCEPT !.seq = w.seq + 1, !.phase = phase, !.flight = fl]
        BY <1>1
    <2>3. w.epoch \in Nat /\ w.seq + 1 \in Nat /\ w.last \in Nat
        BY <1>2 DEF Writing
    <2> HIDE DEF fl
    <2>4. w' = [epoch |-> w.epoch, seq |-> w.seq + 1, last |-> w.last, flight |-> fl, phase |-> phase]
        BY <1>2, <2>2 DEF Writing
    <2> QED BY <2>1, <2>3, <2>4
<1>6. NumbersFresh'
    <2>1. \A y \in wire' : y \in wire \/ y = x
        BY <1>1
    <2> QED BY <2>1, <1>2, <1>3, <1>4, <1>1, RecordsAssumption DEF Writing, NumbersFresh, Record
<1>7. \A y \in wire : Number(y) # Number(x)
    BY <1>2 DEF Writing, NumbersFresh, Number, Record
<1>8. Writing'
    <2>1. \A y, z \in wire' : Number(y) = Number(z) => y = z
        BY <1>1, <1>2, <1>7 DEF Writing
    <2>2. \A y \in wire' : y.type = "ccs" => y.epoch < w'.epoch
        BY <1>1, <1>2, <1>4 DEF Writing
    <2>3. \A y \in wire' : y.type = "data" => y.epoch > 0
        BY <1>1, <1>2, <1>4 DEF Writing
    <2>4. \A m \in w'.flight : m.type \in Handshake \cup {"ccs"}
                               /\ (m.type = "ccs" => m.epoch < w'.epoch)
        BY <1>2, <1>4 DEF Writing, Handshake
    <2>5. w'.phase = "keyed" => w'.flight = {}
        BY <1>2, <1>4 DEF Writing
    <2>6. wire' \subseteq Record
        BY <1>1, <1>2, <1>3 DEF Writing
    <2> QED BY <1>2, <1>4, <1>5, <1>6, <2>1, <2>2, <2>3, <2>4, <2>5, <2>6 DEF Writing
<1>9. Paced(r)'
    BY <1>1, <1>4 DEF IInv, Reading, Paced
<1> QED BY <1>1, <1>8, <1>9, ReaderKept

LEMMA WritePayloadOK == ASSUME IInv, NEW t \in Payload, WritePayload(t) PROVE IInv'
<1>1. t \in {"data", "alert"} /\ t \in Types
    BY RecordsAssumption DEF Types
<1>2. w.phase \in {"idle", "started", "keyed", "changed"}
      /\ (w.phase \in {"started", "keyed"} => w.epoch < MaxEpoch)
    BY DEF IInv, Writing
<1>3. Write(t, FALSE, w.phase) /\ (t = "data" => w.epoch > 0)
    BY DEF WritePayload
<1> QED BY <1>1, <1>2, <1>3, WriteOK

LEMMA StartHandshakeOK == ASSUME IInv, StartHandshake PROVE IInv'
<1>1. "hello" \in Types /\ "hello" \in Handshake
    BY DEF Types, Handshake
<1>2. Write("hello", TRUE, "started") /\ w.epoch < MaxEpoch
    BY DEF StartHandshake
<1> QED BY <1>1, <1>2, WriteOK

LEMMA WriteFinishedOK == ASSUME IInv, WriteFinished PROVE IInv'
<1>1. "finished" \in Types /\ "finished" \in Handshake
    BY DEF Types, Handshake
<1>2. Write("finished", TRUE, "idle")
    BY DEF WriteFinished
<1> QED BY <1>1, <1>2, WriteOK

LEMMA AnsweredOK == ASSUME IInv, Answered PROVE IInv'
<1>1. /\ w.phase = "started" /\ r.init /\ ~r.ccs /\ r.epoch = w.epoch
      /\ w' = [w EXCEPT !.phase = "keyed", !.flight = {}]
      /\ UNCHANGED <<wire, r, up, twice, refused>>
    BY DEF Answered
<1>2. Writing
    BY DEF IInv
<1>3. /\ w' = [epoch |-> w.epoch, seq |-> w.seq, last |-> w.last, flight |-> {}, phase |-> "keyed"]
      /\ w.epoch \in Nat /\ w.seq \in Nat /\ w.last \in Nat
    BY <1>1, <1>2 DEF Writing
<1>4. Writing'
    <2>1. w' \in [epoch : Nat, seq : Nat, last : Nat, flight : SUBSET [epoch : Nat, type : Types],
                  phase : {"idle", "started", "keyed", "changed"}]
        <3>1. {} \in SUBSET [epoch : Nat, type : Types]
            OBVIOUS
        <3> QED BY <1>3, <3>1
    <2>2. NumbersFresh'
        BY <1>1, <1>2, <1>3 DEF Writing, NumbersFresh
    <2> QED BY <1>1, <1>2, <1>3, <2>1, <2>2 DEF Writing
<1>5. Paced(r)'
    BY <1>1, <1>3 DEF IInv, Reading, Paced, ReaderType
<1> QED BY <1>1, <1>4, <1>5, ReaderKept

\* The step to the next epoch: the numbers of the old one go on in w.last.
LEMMA WriteCcsOK == ASSUME IInv, WriteCcs PROVE IInv'
<1> DEFINE x == [epoch |-> w.epoch, seq |-> w.seq, type |-> "ccs"]
           m == [epoch |-> w.epoch, type |-> "ccs"]
<1>1. /\ w.phase = "keyed" /\ w.seq < MaxSeq /\ wire' = wire \cup {x}
      /\ w' = [epoch |-> w.epoch + 1, seq |-> 0, last |-> w.seq + 1, phase |-> "changed",
               flight |-> w.flight \cup {m}]
      /\ UNCHANGED <<r, up, twice, refused>>
    BY DEF WriteCcs, Put
<1>2. Writing
    BY DEF IInv
<1>3. w.epoch \in Nat /\ w.seq \in Nat /\ w.epoch < MaxEpoch /\ w.flight = {}
    BY <1>1, <1>2 DEF Writing
<1>4. x \in Record /\ m \in [epoch : Nat, type : Types]
    BY <1>1, <1>3, RecordsAssumption DEF Record, Types
<1>5. /\ w'.epoch = w.epoch + 1 /\ w'.seq = 0 /\ w'.last = w.seq + 1
      /\ w'.phase = "changed" /\ w'.flight = {m}
    BY <1>1, <1>3
<1>6. \A y \in wire' : y \in wire \/ y = x
    BY <1>1
<1>7. w' \in [epoch : Nat, seq : Nat, last : Nat, flight : SUBSET [epoch : Nat, type : Types],
              phase : {"idle", "started", "keyed", "changed"}]
    <2>1. {m} \in SUBSET [epoch : Nat, type : Types] /\ w.epoch + 1 \in Nat /\ w.seq + 1 \in Nat
        BY <1>3, <1>4
    <2>2. w' = [epoch |-> w.epoch + 1, seq |-> 0, last |-> w.seq + 1, flight |-> {m},
                phase |-> "changed"]
        BY <1>1, <1>3
    <2> HIDE DEF m
    <2> QED BY <2>1, <2>2
<1>8. NumbersFresh'
    <2>1. \A y \in wire : y.epoch \in Nat /\ y.seq \in Nat /\ y.epoch <= w.epoch
                         /\ (y.epoch = w.epoch => y.seq < w.seq)
        BY <1>2 DEF Writing, Record, NumbersFresh
    <2>2. x.epoch = w.epoch /\ x.seq = w.seq /\ m.epoch = w.epoch
        OBVIOUS
    <2> HIDE DEF x, m
    <2>3. \A y \in wire' : y.epoch <= w.epoch /\ y.epoch \in Nat
                          /\ (y.epoch = w.epoch => y.seq < w.seq + 1)
        BY <2>1, <2>2, <1>3, <1>6
    <2>4. \A k \in w'.flight : k.epoch = w.epoch
        BY <2>2, <1>5
    <2> QED BY <2>3, <2>4, <1>3, <1>5 DEF NumbersFresh
<1>9. Writing'
    <2>1. \A y, z \in wire' : Number(y) = Number(z) => y = z
        <3>1. \A y \in wire : Number(y) # Number(x)
            BY <1>2 DEF Writing, NumbersFresh, Number, Record
        <3> QED BY <3>1, <1>2, <1>6 DEF Writing
    <2>2. wire' \subseteq Record
        BY <1>1, <1>2, <1>4 DEF Writing
    <2>3. \A y \in wire' : y.type = "ccs" => y.epoch < w'.epoch
        BY <1>2, <1>3, <1>5, <1>6 DEF Writing, Record
    <2>4. \A y \in wire' : y.type = "data" => y.epoch > 0
        BY <1>2, <1>6 DEF Writing
    <2> QED BY <1>3, <1>5, <1>7, <1>8, <2>1, <2>2, <2>3, <2>4, RecordsAssumption DEF Writing
<1>10. Paced(r)'
    BY <1>1, <1>3, <1>5 DEF IInv, Reading, Paced, ReaderType
<1> QED BY <1>1, <1>9, <1>10, ReaderKept

LEMMA RetransmitOK == ASSUME IInv, NEW m \in w.flight, Retransmit(m) PROVE IInv'
<1>1. Writing
    BY DEF IInv
<1>2. /\ w.epoch \in Nat /\ w.seq \in Nat /\ w.last \in Nat /\ w.epoch <= MaxEpoch
      /\ m.epoch \in Nat /\ m.type \in Types /\ m.epoch \in {w.epoch, w.epoch - 1}
      /\ m.type \in Handshake \cup {"ccs"} /\ (m.type = "ccs" => m.epoch < w.epoch)
    BY <1>1 DEF Writing, NumbersFresh
<1>3. PICK s \in Nat : /\ s < MaxSeq /\ wire' = wire \cup {[epoch |-> m.epoch, seq |-> s, type |-> m.type]}
                       /\ \/ s = w.last /\ m.epoch = w.epoch - 1 /\ w' = [w EXCEPT !.last = @ + 1]
                          \/ s = w.seq /\ m.epoch = w.epoch /\ w' = [w EXCEPT !.seq = @ + 1]
    BY <1>2 DEF Retransmit, Put
<1> DEFINE x == [epoch |-> m.epoch, seq |-> s, type |-> m.type]
<1>4. x \in Record
    BY <1>2, <1>3, RecordsAssumption DEF Record
<1>5. \A y \in wire' : y \in wire \/ y = x
    BY <1>3
<1>6. /\ w'.epoch = w.epoch /\ w'.flight = w.flight /\ w'.phase = w.phase
      /\ \/ s = w.last /\ m.epoch = w.epoch - 1 /\ w'.last = w.last + 1 /\ w'.seq = w.seq
         \/ s = w.seq /\ m.epoch = w.epoch /\ w'.seq = w.seq + 1 /\ w'.last = w.last
    BY <1>1, <1>3 DEF Writing
<1>7. w' \in [epoch : Nat, seq : Nat, last : Nat, flight : SUBSET [epoch : Nat, type : Types],
              phase : {"idle", "started", "keyed", "changed"}]
    <2>1. PICK s1, l1 \in Nat :
              w' = [epoch |-> w.epoch, seq |-> s1, last |-> l1, flight |-> w.flight, phase |-> w.phase]
        BY <1>1, <1>2, <1>3 DEF Writing
    <2>2. w.flight \in SUBSET [epoch : Nat, type : Types]
          /\ w.phase \in {"idle", "started", "keyed", "changed"}
        BY <1>1 DEF Writing
    <2> QED BY <1>2, <2>1, <2>2
<1>8. \A y \in wire : Number(y) # Number(x)
    BY <1>1, <1>2, <1>3 DEF Writing, NumbersFresh, Number, Record
<1>9. NumbersFresh'
    <2>1. \A y \in wire : y.epoch \in Nat /\ y.seq \in Nat
        BY <1>1 DEF Writing, Record
    <2> QED BY <2>1, <1>1, <1>2, <1>5, <1>6 DEF Writing, NumbersFresh
<1>10. Writing'
    <2>1. \A y, z \in wire' : Number(y) = Number(z) => y = z
        BY <1>1, <1>5, <1>8 DEF Writing
    <2>2. wire' \subseteq Record
        BY <1>1, <1>4, <1>5 DEF Writing
    <2>3. \A y \in wire' : y.type = "ccs" => y.epoch < w'.epoch
        BY <1>1, <1>2, <1>5, <1>6 DEF Writing
    <2>4. \A y \in wire' : y.type = "data" => y.epoch > 0
        BY <1>1, <1>2, <1>5 DEF Writing, Handshake
    <2> QED BY <1>1, <1>6, <1>7, <1>9, <2>1, <2>2, <2>3, <2>4 DEF Writing
<1>11. UNCHANGED <<r, up, twice, refused>>
    BY DEF Retransmit
<1>12. Paced(r)'
    BY <1>6, <1>11 DEF IInv, Reading, Paced
<1> QED BY <1>3, <1>10, <1>11, <1>12, ReaderKept

-----------------------------------------------------------------------------
(* The reader's steps *)

\* A step to a reader of which the invariant holds keeps it.
LEMMA ReaderStep ==
    ASSUME Writing, UNCHANGED <<wire, w>>, NEW q, NEW u, r' = q, up' = u,
           Reading(q, u), twice' = FALSE, refused' \in BOOLEAN
    PROVE  IInv'
<1>1. Writing'
    BY DEF Writing, NumbersFresh
<1>2. ReaderType(r)' /\ Paced(r)' /\ Queued(r)'
    BY DEF Reading, ReaderType, Paced, Queued
<1>3. InOnePlace(r, up)' /\ KnownMarked(r, up)'
    BY DEF Reading, InOnePlace, KnownMarked, Held, Marked, ReplayCheck
<1>4. Begun(r, up)'
    BY DEF Reading, Begun, FinishedOf
<1> QED BY <1>1, <1>2, <1>3, <1>4 DEF IInv, Reading

\* A record is taken out of its queue.
Loose(q, u, x) ==
    /\ Reading(q, u) /\ x \in Arrived /\ Original(x) \in wire \ u
    /\ \A y \in Held(q) : Original(y) # Original(x)
    /\ x.epoch <= q.epoch /\ (x.epoch = q.epoch => Marked(q.bitmap, x.seq))
    /\ x.type \in Handshake \cup {"ccs"} => x.epoch = q.epoch
    /\ x.type = "ccs" => q.processed = {}

\* The record goes up, and nothing else changes.
LEMMA HandedUp ==
    ASSUME Writing, NEW q, NEW u, NEW x, Loose(q, u, x), x.type = "data" => ~q.ccs
    PROVE  Reading(q, u \cup {Original(x)})
<1> DEFINE o == Original(x)
           v == u \cup {o}
<1>1. /\ ReaderType(q) /\ Paced(q) /\ Queued(q) /\ InOnePlace(q, u) /\ KnownMarked(q, u)
      /\ Begun(q, u) /\ o \in wire \ u
    BY DEF Loose, Reading
<1>2. o.epoch = x.epoch /\ o.seq = x.seq /\ o.type = x.type
    BY DEF Original
<1>3. \A y \in v : y \in u \/ y = o
    OBVIOUS
<1>4. InOnePlace(q, v)
    BY <1>1 DEF InOnePlace, Loose
<1>5. KnownMarked(q, v)
    BY <1>1, <1>2, <1>3 DEF KnownMarked, Loose
<1>6. Begun(q, v)
    <2>1. \A e : FinishedOf(e, u) => FinishedOf(e, v)
        BY DEF FinishedOf
    <2>2. ASSUME o.type = "data" PROVE FinishedOf(o.epoch, u)
        <3>1. o.epoch \in Nat /\ o.epoch > 0 /\ o.epoch <= q.epoch /\ q.epoch \in Nat /\ ~q.ccs
            BY <2>2, <1>1, <1>2 DEF Writing, Record, Loose, ReaderType
        <3> QED BY <3>1, <1>1 DEF Begun
    <2> QED BY <2>1, <2>2, <1>1, <1>3 DEF Begun
<1> QED BY <1>1, <1>4, <1>5, <1>6 DEF Reading

\* A ChangeCipherSpec that can be decoded is the writer's last word of the epoch.
LEMMA CcsEndsEpoch ==
    ASSUME Writing, NEW q, NEW u, NEW x, Loose(q, u, x), x.type = "ccs"
    PROVE  w.epoch = q.epoch + 1 /\ q.init /\ ~q.ccs /\ w.phase # "keyed"
<1>1. x.epoch = q.epoch /\ Original(x) \in wire /\ Paced(q) /\ ReaderType(q)
    BY DEF Loose, Reading
<1>2. Original(x).type = "ccs" /\ Original(x).epoch = x.epoch
    BY DEF Original
<1>3. q.epoch < w.epoch /\ q.epoch \in Nat /\ w.epoch \in Nat
    BY <1>1, <1>2 DEF Writing, ReaderType
<1> QED BY <1>1, <1>3 DEF Paced

\* Between ChangeCipherSpec and Finished a record is kept in the data queue.
LEMMA KeepData ==
    ASSUME Writing, NEW q, NEW u, NEW x, Loose(q, u, x), q.ccs, x.type \notin Handshake
    PROVE  Reading([q EXCEPT !.data = Buffered(@, x)], u)
<1>1. /\ ReaderType(q) /\ Paced(q) /\ Queued(q) /\ InOnePlace(q, u) /\ KnownMarked(q, u)
      /\ Begun(q, u)
    BY DEF Loose, Reading
<1>2. x.type \in {"data", "alert"} /\ x \in Arrived
    BY CcsEndsEpoch DEF Loose, Arrived, Types
<1> DEFINE d == Buffered(q.data, x)
<1>3. d \in SUBSET Arrived /\ d \subseteq q.data \cup {x}
    BY <1>1, <1>2 DEF Buffered, ReaderType
<1> HIDE DEF d
<1>4. PICK p : p = [q EXCEPT !.data = d]
    OBVIOUS
<1>5. /\ ReaderType(p) /\ p.epoch = q.epoch /\ p.bitmap = q.bitmap /\ p.next = q.next
      /\ p.unprocessed = q.unprocessed /\ p.processed = q.processed /\ p.data = d
      /\ p.init = q.init /\ p.ccs = q.ccs
    BY <1>1, <1>3, <1>4 DEF ReaderType
<1>6. Paced(p) /\ Begun(p, u)
    BY <1>1, <1>5 DEF Paced, Begun
<1>7. Queued(p)
    BY <1>1, <1>2, <1>3, <1>5 DEF Queued, Loose
<1>8. \A y \in Held(p) : y \in Held(q) \/ y = x
    BY <1>3, <1>5 DEF Held
<1>9. InOnePlace(p, u)
    <2>1. x \notin Held(q)
        BY DEF Loose
    <2>2. p.unprocessed = q.unprocessed /\ p.processed = q.processed /\ p.data \subseteq q.data \cup {x}
        BY <1>3, <1>5
    <2>3. p.unprocessed \cap p.processed = {} /\ p.unprocessed \cap p.data = {}
          /\ p.processed \cap p.data = {}
        BY <2>1, <2>2, <1>1 DEF InOnePlace, Held
    <2> QED BY <2>3, <1>1, <1>8 DEF InOnePlace, Loose
<1>10. KnownMarked(p, u)
    <2>1. x.epoch # q.epoch + 1
        BY <1>1, <1>2 DEF Loose, ReaderType, Arrived
    <2> QED BY <2>1, <1>1, <1>5, <1>8 DEF KnownMarked, Loose
<1>11. p = [q EXCEPT !.data = Buffered(@, x)]
    BY <1>4 DEF d
<1> QED BY <1>5, <1>6, <1>7, <1>9, <1>10, <1>11 DEF Reading

\* With the ChangeCipherSpec the reader enters the next epoch, and the records it
\* has received of that epoch stay marked.
LEMMA EpochBegins ==
    ASSUME Writing, NEW q, NEW u, NEW x, Loose(q, u, x), x.type = "ccs"
    PROVE  Reading([NextEpoch(q) EXCEPT !.ccsOk = FALSE, !.ccs = TRUE], u \cup {Original(x)})
<1> DEFINE v == u \cup {Original(x)}
<1>1. w.epoch = q.epoch + 1 /\ q.init /\ ~q.ccs /\ w.phase # "keyed"
    BY CcsEndsEpoch
<1>2. Reading(q, v)
    BY <1>1, HandedUp
<1> HIDE DEF v
<1>3. /\ ReaderType(q) /\ Queued(q) /\ InOnePlace(q, v) /\ KnownMarked(q, v) /\ Begun(q, v)
      /\ q.processed = {}
    BY <1>2 DEF Loose, Reading
<1>4. PICK p : p = [NextEpoch(q) EXCEPT !.ccsOk = FALSE, !.ccs = TRUE]
    OBVIOUS
<1>5. NoBitmap \in Bitmap
    BY RecordsAssumption DEF NoBitmap, Bitmap
<1>6. PICK q1 : q1 = NextEpoch(q)
    OBVIOUS
<1>7. /\ ReaderType(q1) /\ q1.epoch = q.epoch + 1 /\ q1.bitmap = q.next
      /\ q1.unprocessed = q.unprocessed /\ q1.processed = q.processed /\ q1.data = q.data
      /\ q1.init = q.init
    <2>1. q.next \in Bitmap /\ q.epoch + 1 \in Nat
        BY <1>3 DEF ReaderType
    <2>2. q1 = [q EXCEPT !.epoch = q.epoch + 1, !.bitmap = q.next, !.next = NoBitmap]
        BY <1>6 DEF NextEpoch
    <2> QED BY <2>1, <2>2, <1>3, <1>5 DEF ReaderType
<1>8. /\ ReaderType(p) /\ p.epoch = q.epoch + 1 /\ p.bitmap = q.next
      /\ p.unprocessed = q.unprocessed /\ p.processed = q.processed /\ p.data = q.data
      /\ p.init = q.init /\ p.ccs = TRUE
    BY <1>4, <1>6, <1>7 DEF ReaderType
<1>9. q.epoch \in Nat /\ w.epoch \in Nat
    BY <1>3 DEF ReaderType, Writing
<1>10. Paced(p)
    BY <1>1, <1>8, <1>9 DEF Paced
<1>11. Held(p) = Held(q) /\ (\A y \in Held(q) : y \in Arrived)
    BY <1>3, <1>8 DEF Held, ReaderType
<1>12. \A y \in Arrived : y.epoch \in Nat
    BY DEF Arrived
<1>13. Queued(p)
    <2>1. \A y \in q.unprocessed : y.type \in Handshake \cup {"alert"} /\ y.epoch <= q.epoch + 1
                                   /\ y.epoch \in Nat
        BY <1>3, <1>12 DEF Queued, ReaderType
    <2>2. \A y \in q.data : y.type \in {"data", "alert"} /\ y.epoch <= q.epoch /\ y.epoch \in Nat
        BY <1>3, <1>12 DEF Queued, ReaderType
    <2> QED BY <2>1, <2>2, <1>3, <1>8, <1>9 DEF Queued
<1>14. InOnePlace(p, v)
    BY <1>3, <1>8, <1>11 DEF InOnePlace
<1>15. KnownMarked(p, v)
    <2>1. \A y \in v : y.epoch \in Nat /\ y.epoch <= q.epoch
        BY <1>3 DEF KnownMarked, InOnePlace, Writing, Record
    <2>2. \A y \in Held(q) : y.epoch \in Nat /\ y.epoch <= q.epoch + 1
        BY <1>3, <1>9, <1>12 DEF Queued, Held, ReaderType
    <2>3. \A y \in Held(p) : y.epoch = p.epoch => Marked(p.bitmap, y.seq)
        BY <1>3, <1>8, <1>11 DEF KnownMarked
    <2> QED BY <2>1, <2>2, <2>3, <1>8, <1>9, <1>11 DEF KnownMarked
<1>16. Begun(p, v)
    BY <1>1, <1>3, <1>8, <1>9 DEF Begun
<1> QED BY <1>4, <1>8, <1>10, <1>13, <1>14, <1>15, <1>16 DEF Reading, v

\* A new handshake changes neither epoch nor queues.
LEMMA HandshakeBegins ==
    ASSUME NEW q, NEW u, Reading(q, u), ~q.init
    PROVE  Reading(NewHandshake(q), u)
<1>1. /\ ReaderType(q) /\ Paced(q) /\ Queued(q) /\ InOnePlace(q, u) /\ KnownMarked(q, u)
      /\ Begun(q, u)
    BY DEF Reading
<1>2. PICK p : p = NewHandshake(q)
    OBVIOUS
<1>3. /\ ReaderType(p) /\ p.epoch = q.epoch /\ p.bitmap = q.bitmap /\ p.next = q.next
      /\ p.unprocessed = q.unprocessed /\ p.processed = q.processed /\ p.data = q.data
      /\ p.init = TRUE /\ p.ccs = FALSE
    BY <1>1, <1>2 DEF ReaderType, NewHandshake
<1>4. ~q.ccs
    BY <1>1 DEF Paced
<1>5. Held(p) = Held(q)
    BY <1>3 DEF Held
<1> QED BY <1>1, <1>2, <1>3, <1>4, <1>5
        DEF Reading, Paced, Queued, InOnePlace, KnownMarked, Begun

\* With the Finished of the epoch the handshake is over.
LEMMA HandshakeEnds ==
    ASSUME Writing, NEW q, NEW u, NEW x, Loose(q, u, x), x.type = "finished", q.ccs
    PROVE  Reading([q EXCEPT !.ccs = FALSE, !.init = FALSE], u \cup {Original(x)})
<1> DEFINE v == u \cup {Original(x)}
<1>1. Reading(q, v)
    BY HandedUp
<1>2. FinishedOf(q.epoch, v)
    <2>1. x.epoch = q.epoch
        BY DEF Loose, Handshake
    <2>2. Original(x) \in v /\ Original(x).type = "finished" /\ Original(x).epoch = x.epoch
        BY DEF Original
    <2> HIDE DEF v
    <2> QED BY <2>1, <2>2 DEF FinishedOf
<1> HIDE DEF v
<1>3. /\ ReaderType(q) /\ Paced(q) /\ Queued(q) /\ InOnePlace(q, v) /\ KnownMarked(q, v)
      /\ Begun(q, v)
    BY <1>1 DEF Reading
<1>4. PICK p : p = [q EXCEPT !.ccs = FALSE, !.init = FALSE]
    OBVIOUS
<1>5. /\ ReaderType(p) /\ p.epoch = q.epoch /\ p.bitmap = q.bitmap /\ p.next = q.next
      /\ p.unprocessed = q.unprocessed /\ p.processed = q.processed /\ p.data = q.data
      /\ p.init = FALSE /\ p.ccs = FALSE
    BY <1>3, <1>4 DEF ReaderType
<1>6. Held(p) = Held(q)
    BY <1>5 DEF Held
<1>7. Paced(p)
    BY <1>3, <1>5 DEF Paced
<1> QED BY <1>2, <1>3, <1>4, <1>5, <1>6, <1>7
        DEF Reading, Queued, InOnePlace, KnownMarked, Begun, v

\* Whatever becomes of the record, the invariant holds, and no more than the
\* record goes up.
LEMMA DispatchOK ==
    ASSUME Writing, twice = FALSE, refused \in BOOLEAN, NEW q, NEW x, Loose(q, up, x), Dispatch(q, x)
    PROVE  IInv' /\ UNCHANGED wire /\ (up' = up \/ up' = up \cup {Original(x)})
<1> DEFINE v == up \cup {Original(x)}
<1>1. Reading(q, up) /\ Original(x) \notin up
    BY DEF Loose
<1>2. ASSUME NEW p, HandUp(p, x), Reading(p, v)
      PROVE  IInv' /\ UNCHANGED wire /\ up' = v
    <2>1. r' = p /\ up' = v /\ twice' = FALSE /\ refused' = refused /\ UNCHANGED <<wire, w>>
        BY <1>1, <1>2 DEF HandUp
    <2> HIDE DEF v
    <2> QED BY <2>1, <1>2, ReaderStep
<1>3. ASSUME NEW p, NEW b \in BOOLEAN, Stays(p, b), Reading(p, up)
      PROVE  IInv' /\ UNCHANGED wire /\ up' = up
    <2>1. r' = p /\ up' = up /\ twice' = FALSE /\ refused' \in BOOLEAN /\ UNCHANGED <<wire, w>>
        BY <1>3 DEF Stays
    <2> QED BY <2>1, <1>3, ReaderStep
<1>4. CASE q.ccs /\ x.type \notin Handshake
             /\ Stays([q EXCEPT !.data = Buffered(@, x)], Refuses(q.data, x))
    <2>1. Refuses(q.data, x) \in BOOLEAN
        BY DEF Refuses, Duplicate, Full
    <2> QED BY <2>1, <1>3, <1>4, KeepData
<1>5. CASE ~q.ccs /\ x.type \in {"data", "alert"} /\ HandUp(q, x)
    BY <1>2, <1>5, HandedUp
<1>6. CASE ~q.ccs /\ x.type = "ccs" /\ q.ccsOk
             /\ HandUp([NextEpoch(q) EXCEPT !.ccsOk = FALSE, !.ccs = TRUE], x)
    BY <1>2, <1>6, EpochBegins
<1>7. CASE ~q.ccs /\ x.type = "ccs" /\ Stays(q, FALSE)
    BY <1>1, <1>3, <1>7
<1>8. CASE x.type = "hello" /\ HandUp(IF q.init THEN q ELSE NewHandshake(q), x)
    <2>1. Reading(q, v)
        BY <1>8, HandedUp
    <2>2. CASE q.init
        BY <2>1, <2>2, <1>2, <1>8
    <2>3. CASE ~q.init
        BY <2>1, <2>3, <1>2, <1>8, HandshakeBegins
    <2> QED BY <2>2, <2>3
<1>9. CASE x.type = "finished"
             /\ HandUp(IF q.ccs THEN [q EXCEPT !.ccs = FALSE, !.init = FALSE] ELSE q, x)
    <2>1. CASE q.ccs
        BY <2>1, <1>2, <1>9, HandshakeEnds
    <2>2. CASE ~q.ccs
        BY <2>2, <1>2, <1>9, HandedUp
    <2> QED BY <2>1, <2>2
<1> QED BY <1>4, <1>5, <1>6, <1>7, <1>8, <1>9 DEF Dispatch

\* Some of the records kept of the next epoch move to the processed ones, some
\* stay, and the others are forgotten.
LEMMA ProcessBufferedMoves ==
    ASSUME NEW q, ReaderType(q), NEW p, p = ProcessBuffered(q)
    PROVE  /\ ReaderType(p) /\ p.epoch = q.epoch /\ p.bitmap = q.bitmap /\ p.next = q.next
           /\ p.data = q.data /\ p.init = q.init /\ p.ccs = q.ccs
           /\ p.unprocessed \subseteq q.unprocessed
           /\ \A x \in p.processed : x \in q.processed
                  \/ (x \in q.unprocessed /\ x.epoch = q.epoch /\ x \notin p.unprocessed)
<1> DEFINE stops == {x \in q.unprocessed : ~Decodes(q, x) \/ Duplicate(q.processed, x)}
           moved == {x \in q.unprocessed : \A y \in stops : x.seq < y.seq}
           room == Limit - Cardinality(q.processed)
           fits == {x \in moved : Cardinality({y \in moved : y.seq < x.seq}) < room}
           rest == {x \in q.unprocessed : \E y \in stops : y.seq < x.seq}
           e == IF stops = {} THEN q.epoch + 1 ELSE q.unprocessedEpoch
           both == q.processed \cup fits
<1>1. CASE q.unprocessed # {} /\ q.unprocessedEpoch # q.epoch
    <2>1. p = q
        BY <1>1, Zenon DEF ProcessBuffered
    <2> QED BY <2>1
<1>2. CASE ~(q.unprocessed # {} /\ q.unprocessedEpoch # q.epoch)
    <2>1. p = [q EXCEPT !.processed = both, !.unprocessed = rest, !.unprocessedEpoch = e]
        BY <1>2 DEF ProcessBuffered
    <2>2. q.unprocessed \subseteq Arrived /\ q.processed \subseteq Arrived
        BY DEF ReaderType
    <2>3. ASSUME NEW x \in fits PROVE x \in q.unprocessed /\ x.epoch = q.epoch /\ x \notin rest
        <3>1. x \in q.unprocessed /\ \A y \in stops : x.seq < y.seq
            OBVIOUS
        <3>2. \A y \in q.unprocessed : y.seq \in Nat
            BY <2>2 DEF Arrived
        <3>3. x \notin stops
            BY <3>1, <3>2
        <3>4. x.epoch = q.epoch
            BY <3>1, <3>3 DEF Decodes
        <3>5. x \notin rest
            BY <3>1, <3>2
        <3> QED BY <3>1, <3>4, <3>5
    <2>4. rest \subseteq q.unprocessed /\ rest \in SUBSET Arrived
        BY <2>2
    <2>5. both \in SUBSET Arrived
        BY <2>2, <2>3
    <2>6. e \in Nat
        BY DEF ReaderType
    <2> HIDE DEF fits
    <2>7. \A x \in both : x \in q.processed
              \/ (x \in q.unprocessed /\ x.epoch = q.epoch /\ x \notin rest)
        <3> HIDE DEF rest
        <3> QED BY <2>3
    <2> HIDE DEF rest, both, e
    <2>8. /\ ReaderType(p) /\ p.epoch = q.epoch /\ p.bitmap = q.bitmap /\ p.next = q.next
          /\ p.data = q.data /\ p.init = q.init /\ p.ccs = q.ccs
          /\ p.unprocessed = rest /\ p.processed = both
        BY <2>1, <2>4, <2>5, <2>6 DEF ReaderType
    <2> QED BY <2>4, <2>7, <2>8
<1> QED BY <1>1, <1>2

LEMMA ProcessBufferedOK ==
    ASSUME NEW q, NEW u, Reading(q, u), NEW p, p = ProcessBuffered(q)
    PROVE  Reading(p, u)
<1>1. /\ ReaderType(q) /\ Paced(q) /\ Queued(q) /\ InOnePlace(q, u) /\ KnownMarked(q, u)
      /\ Begun(q, u)
    BY DEF Reading
<1>2. /\ ReaderType(p) /\ p.epoch = q.epoch /\ p.bitmap = q.bitmap /\ p.next = q.next
      /\ p.data = q.data /\ p.init = q.init /\ p.ccs = q.ccs
      /\ p.unprocessed \subseteq q.unprocessed
      /\ \A x \in p.processed : x \in q.processed
             \/ (x \in q.unprocessed /\ x.epoch = q.epoch /\ x \notin p.unprocessed)
    BY <1>1, ProcessBufferedMoves
<1>3. Held(p) \subseteq Held(q)
    BY <1>2 DEF Held
<1>4. Queued(p)
    <2>1. \A x \in p.processed : x.type \in Handshake \cup {"alert"} /\ x.epoch = p.epoch
        BY <1>1, <1>2 DEF Queued
    <2> QED BY <2>1, <1>1, <1>2 DEF Queued
<1>5. InOnePlace(p, u)
    <2>1. p.unprocessed \cap p.processed = {}
        BY <1>1, <1>2 DEF InOnePlace
    <2>2. p.processed \cap p.data = {} /\ p.unprocessed \cap p.data = {}
        BY <1>1, <1>2 DEF InOnePlace
    <2> QED BY <2>1, <2>2, <1>1, <1>3 DEF InOnePlace
<1>6. KnownMarked(p, u)
    BY <1>1, <1>2, <1>3 DEF KnownMarked
<1> QED BY <1>1, <1>2, <1>4, <1>5, <1>6 DEF Reading, Paced, Begun

\* A record that is taken out of the queue of processed records, or of data.
LEMMA TakeProcessed ==
    ASSUME Writing, NEW q, NEW u, Reading(q, u), NEW x \in q.processed
    PROVE  Loose([q EXCEPT !.processed = @ \ {x}], u, x)
<1>1. /\ ReaderType(q) /\ Paced(q) /\ Queued(q) /\ InOnePlace(q, u) /\ KnownMarked(q, u)
      /\ Begun(q, u)
    BY DEF Reading
<1>2. PICK p : p = [q EXCEPT !.processed = @ \ {x}]
    OBVIOUS
<1>3. q.processed \ {x} \in SUBSET Arrived /\ x \in Arrived
    BY <1>1 DEF ReaderType
<1>4. /\ ReaderType(p) /\ p.epoch = q.epoch /\ p.bitmap = q.bitmap /\ p.next = q.next
      /\ p.unprocessed = q.unprocessed /\ p.processed = q.processed \ {x} /\ p.data = q.data
      /\ p.init = q.init /\ p.ccs = q.ccs
    BY <1>1, <1>2, <1>3 DEF ReaderType
<1>5. x \in Held(q) /\ Held(p) = Held(q) \ {x}
    BY <1>1, <1>4 DEF Held, InOnePlace
<1>6. Reading(p, u)
    <2>1. InOnePlace(p, u)
        BY <1>1, <1>4, <1>5 DEF InOnePlace
    <2> QED BY <2>1, <1>1, <1>4, <1>5 DEF Reading, Paced, Queued, KnownMarked, Begun
<1>7. x.type \in Handshake \cup {"alert"} /\ x.epoch = q.epoch /\ Marked(q.bitmap, x.seq)
    BY <1>1, <1>5 DEF Queued, KnownMarked
<1>8. Original(x) \in wire \ u /\ \A y \in Held(p) : Original(y) # Original(x)
    BY <1>1, <1>5 DEF InOnePlace
<1>9. x.epoch <= q.epoch /\ x.type # "ccs"
    BY <1>1, <1>7 DEF ReaderType, Handshake
<1> QED BY <1>2, <1>3, <1>4, <1>6, <1>7, <1>8, <1>9 DEF Loose

LEMMA TakeData ==
    ASSUME Writing, NEW q, NEW u, Reading(q, u), NEW x \in q.data
    PROVE  Loose([q EXCEPT !.data = @ \ {x}], u, x)
<1>1. /\ ReaderType(q) /\ Paced(q) /\ Queued(q) /\ InOnePlace(q, u) /\ KnownMarked(q, u)
      /\ Begun(q, u)
    BY DEF Reading
<1>2. PICK p : p = [q EXCEPT !.data = @ \ {x}]
    OBVIOUS
<1>3. q.data \ {x} \in SUBSET Arrived /\ x \in Arrived
    BY <1>1 DEF ReaderType
<1>4. /\ ReaderType(p) /\ p.epoch = q.epoch /\ p.bitmap = q.bitmap /\ p.next = q.next
      /\ p.unprocessed = q.unprocessed /\ p.processed = q.processed /\ p.data = q.data \ {x}
      /\ p.init = q.init /\ p.ccs = q.ccs
    BY <1>1, <1>2, <1>3 DEF ReaderType
<1>5. x \in Held(q) /\ Held(p) = Held(q) \ {x}
    BY <1>1, <1>4 DEF Held, InOnePlace
<1>6. Reading(p, u)
    <2>1. InOnePlace(p, u)
        BY <1>1, <1>4, <1>5 DEF InOnePlace
    <2> QED BY <2>1, <1>1, <1>4, <1>5 DEF Reading, Paced, Queued, KnownMarked, Begun
<1>7. x.type \in {"data", "alert"} /\ x.epoch <= q.epoch
      /\ (x.epoch = q.epoch => Marked(q.bitmap, x.seq))
    BY <1>1, <1>5 DEF Queued, KnownMarked
<1>8. Original(x) \in wire \ u /\ \A y \in Held(p) : Original(y) # Original(x)
    BY <1>1, <1>5 DEF InOnePlace
<1>9. x.type \notin Handshake \cup {"ccs"}
    BY <1>7 DEF Handshake
<1> QED BY <1>2, <1>3, <1>4, <1>6, <1>7, <1>8, <1>9 DEF Loose

\* The record just read is decoded, and marked.
LEMMA Decoded ==
    ASSUME Writing, NEW q, NEW u, Reading(q, u), NEW x \in Arrived, Original(x) \in wire,
           Decodes(q, x), ReplayCheck(q.bitmap, x.seq), q.processed = {}
    PROVE  Loose([q EXCEPT !.bitmap = BitmapUpdate(@, x.seq)], u, x)
<1> DEFINE b == BitmapUpdate(q.bitmap, x.seq)
<1>1. /\ ReaderType(q) /\ Paced(q) /\ Queued(q) /\ InOnePlace(q, u) /\ KnownMarked(q, u)
      /\ Begun(q, u) /\ x.epoch = q.epoch /\ q.epoch \in Nat
    BY DEF Reading, Decodes, ReaderType
<1>2. q.bitmap \in Bitmap /\ x.seq \in Nat /\ \A y \in Held(q) \cup u : y.seq \in Nat
    <2>1. \A y \in Held(q) : y \in Arrived
        BY <1>1 DEF Held, ReaderType
    <2>2. \A y \in u : y \in Record
        BY <1>1 DEF InOnePlace, Writing
    <2> QED BY <2>1, <2>2, <1>1 DEF ReaderType, Arrived, Record
<1>3. b \in Bitmap /\ Marked(b, x.seq) /\ \A t \in Nat : Marked(q.bitmap, t) => Marked(b, t)
    BY <1>2, UpdateMarks
<1> HIDE DEF b
<1>4. PICK p : p = [q EXCEPT !.bitmap = b]
    OBVIOUS
<1>5. /\ ReaderType(p) /\ p.epoch = q.epoch /\ p.bitmap = b /\ p.next = q.next
      /\ p.unprocessed = q.unprocessed /\ p.processed = q.processed /\ p.data = q.data
      /\ p.init = q.init /\ p.ccs = q.ccs
    BY <1>1, <1>3, <1>4 DEF ReaderType
<1>6. Held(p) = Held(q)
    BY <1>5 DEF Held
<1>7. Reading(p, u)
    <2>1. KnownMarked(p, u)
        BY <1>1, <1>2, <1>3, <1>5, <1>6 DEF KnownMarked
    <2> QED BY <2>1, <1>1, <1>5, <1>6 DEF Reading, Paced, Queued, InOnePlace, Begun
<1>8. ~Marked(q.bitmap, x.seq)
    BY DEF Marked
<1>9. Original(x).epoch = x.epoch /\ Original(x).seq = x.seq
    BY DEF Original
<1>10. Original(x) \notin u
    BY <1>1, <1>8, <1>9 DEF KnownMarked
<1>11. \A y \in Held(p) : Original(y) # Original(x)
    <2>1. ASSUME NEW y \in Held(q), Original(y) = Original(x) PROVE FALSE
        <3>1. y.epoch = x.epoch /\ y.seq = x.seq
            BY <2>1 DEF Original
        <3> QED BY <3>1, <1>1, <1>8 DEF KnownMarked
    <2> QED BY <2>1, <1>6
<1>12. p = [q EXCEPT !.bitmap = BitmapUpdate(@, x.seq)]
    BY <1>4 DEF b
<1> QED BY <1>1, <1>3, <1>5, <1>7, <1>10, <1>11, <1>12 DEF Loose

\* A handshake record or an alert of the next epoch is marked and kept, or lost
\* where the queue is full.
LEMMA KeepNext ==
    ASSUME Writing, NEW q, NEW u, Reading(q, u), NEW x \in Arrived, Original(x) \in wire,
           IsNext(q, x), ReplayCheck(q.next, x.seq)
    PROVE  Reading([q EXCEPT !.unprocessed = Buffered(@, x),
                             !.next = BitmapUpdate(@, x.seq)], u)
<1> DEFINE b == BitmapUpdate(q.next, x.seq)
           d == Buffered(q.unprocessed, x)
<1>1. /\ ReaderType(q) /\ Paced(q) /\ Queued(q) /\ InOnePlace(q, u) /\ KnownMarked(q, u)
      /\ Begun(q, u) /\ x.epoch = q.epoch + 1 /\ x.type \in Handshake \cup {"alert"}
      /\ q.epoch \in Nat
    BY DEF Reading, IsNext, ReaderType
<1>2. q.next \in Bitmap /\ x.seq \in Nat /\ \A y \in Held(q) : y.seq \in Nat
    <2>1. \A y \in Held(q) : y \in Arrived
        BY <1>1 DEF Held, ReaderType
    <2> QED BY <2>1, <1>1 DEF ReaderType, Arrived
<1>3. b \in Bitmap /\ Marked(b, x.seq) /\ \A t \in Nat : Marked(q.next, t) => Marked(b, t)
    BY <1>2, UpdateMarks
<1>4. d \in SUBSET Arrived /\ d \subseteq q.unprocessed \cup {x}
    BY <1>1 DEF Buffered, ReaderType
<1> HIDE DEF b, d
<1>5. PICK p : p = [q EXCEPT !.unprocessed = d, !.next = b]
    OBVIOUS
<1>6. /\ ReaderType(p) /\ p.epoch = q.epoch /\ p.bitmap = q.bitmap /\ p.next = b
      /\ p.unprocessed = d /\ p.processed = q.processed /\ p.data = q.data
      /\ p.init = q.init /\ p.ccs = q.ccs
    BY <1>1, <1>3, <1>4, <1>5 DEF ReaderType
<1>7. ~Marked(q.next, x.seq)
    BY DEF Marked
<1>8. \A y \in Held(q) : Original(y) # Original(x)
    <2>1. ASSUME NEW y \in Held(q), Original(y) = Original(x) PROVE FALSE
        <3>1. y.epoch = x.epoch /\ y.seq = x.seq
            BY <2>1 DEF Original
        <3> QED BY <3>1, <1>1, <1>7 DEF KnownMarked
    <2> QED BY <2>1
<1>9. \A y \in Held(p) : y \in Held(q) \/ y = x
    BY <1>4, <1>6 DEF Held
<1>10. x \notin Held(q) /\ Original(x) \notin u
    <2>1. Original(x).epoch = x.epoch
        BY DEF Original
    <2>2. \A y \in u : y.epoch <= q.epoch
        BY <1>1 DEF KnownMarked
    <2> QED BY <1>1, <1>8, <2>1, <2>2
<1>11. InOnePlace(p, u)
    <2>1. p.unprocessed \cap p.processed = {} /\ p.unprocessed \cap p.data = {}
          /\ p.processed \cap p.data = {}
        BY <1>1, <1>4, <1>6, <1>10 DEF InOnePlace, Held
    <2> QED BY <2>1, <1>1, <1>8, <1>9, <1>10 DEF InOnePlace
<1>12. Queued(p)
    BY <1>1, <1>4, <1>6 DEF Queued
<1>13. KnownMarked(p, u)
    BY <1>1, <1>2, <1>3, <1>6, <1>9 DEF KnownMarked
<1>14. p = [q EXCEPT !.unprocessed = Buffered(@, x), !.next = BitmapUpdate(@, x.seq)]
    BY <1>5 DEF b, d
<1> QED BY <1>1, <1>6, <1>11, <1>12, <1>13, <1>14 DEF Reading, Paced, Begun

\* What a step may do to the records that were sent and handed up.
Sends == up' = up /\ \E x \in Record : wire' \in {wire, wire \cup {x}}
Delivers == UNCHANGED wire /\ (up' = up \/ \E x \in wire \ up : up' = up \cup {x})

LEMMA StaysOK ==
    ASSUME Writing, twice = FALSE, refused \in BOOLEAN, NEW q, NEW b \in BOOLEAN, Reading(q, up),
           Stays(q, b)
    PROVE  IInv' /\ Delivers
<1>1. r' = q /\ up' = up /\ twice' = FALSE /\ refused' \in BOOLEAN /\ UNCHANGED <<wire, w>>
    BY DEF Stays
<1> QED BY <1>1, ReaderStep DEF Delivers

LEMMA ReadKeptOK == ASSUME IInv, ReadKept PROVE IInv' /\ Delivers
<1>1. PICK x \in r.data : Dispatch([r EXCEPT !.data = @ \ {x}], x)
    BY DEF ReadKept, Firsts
<1>2. PICK q : q = [r EXCEPT !.data = @ \ {x}]
    OBVIOUS
<1>3. Loose(q, up, x) /\ Dispatch(q, x) /\ Original(x) \in wire \ up
    BY <1>1, <1>2, TakeData DEF IInv, Loose
<1> QED BY <1>3, DispatchOK DEF IInv, Delivers

LEMMA ReadProcessedOK == ASSUME IInv, ReadProcessed PROVE IInv' /\ Delivers
<1>1. PICK q : q = ProcessBuffered(r)
    OBVIOUS
<1>2. PICK x \in q.processed : Dispatch([q EXCEPT !.processed = @ \ {x}], x)
    BY <1>1 DEF ReadProcessed, Firsts
<1>3. PICK p : p = [q EXCEPT !.processed = @ \ {x}]
    OBVIOUS
<1>4. Reading(q, up)
    BY <1>1, ProcessBufferedOK DEF IInv
<1>5. Loose(p, up, x) /\ Dispatch(p, x) /\ Original(x) \in wire \ up
    BY <1>2, <1>3, <1>4, TakeProcessed DEF IInv, Loose
<1> QED BY <1>5, DispatchOK DEF IInv, Delivers

LEMMA ReadWireOK ==
    ASSUME IInv, NEW y \in wire, NEW good \in BOOLEAN, ReadWire(Copy(y, good))
    PROVE  IInv' /\ Delivers
<1>1. PICK q : q = ProcessBuffered(r)
    OBVIOUS
<1>2. PICK x : x = Copy(y, good)
    OBVIOUS
<1>3. Reading(q, up) /\ Writing /\ twice = FALSE /\ refused \in BOOLEAN
    BY <1>1, ProcessBufferedOK DEF IInv
<1>4. x \in Arrived /\ Original(x) = y
    <2>1. y \in Record
        BY <1>3 DEF Writing
    <2> QED BY <1>2, <2>1 DEF Copy, Arrived, Record, Original
<1>5. q.processed = {} /\ ReadWire(x)
    BY <1>1, <1>2 DEF ReadWire, MayReadWire
<1>6. CASE Stays(q, TRUE) \/ Stays(q, FALSE)
    BY <1>3, <1>6, StaysOK
<1>7. CASE IsNext(q, x) /\ ReplayCheck(q.next, x.seq)
           /\ Stays([q EXCEPT !.unprocessed = Buffered(@, x),
                              !.next = BitmapUpdate(@, x.seq)], FALSE)
    <2>1. Reading([q EXCEPT !.unprocessed = Buffered(@, x), !.next = BitmapUpdate(@, x.seq)], up)
        BY <1>3, <1>4, <1>7, KeepNext
    <2> QED BY <2>1, <1>3, <1>7, StaysOK
<1>8. CASE Decodes(q, x) /\ ReplayCheck(q.bitmap, x.seq)
           /\ Dispatch([q EXCEPT !.bitmap = BitmapUpdate(@, x.seq)], x)
    <2>1. PICK p : p = [q EXCEPT !.bitmap = BitmapUpdate(@, x.seq)]
        OBVIOUS
    <2>2. Loose(p, up, x) /\ Dispatch(p, x)
        BY <1>3, <1>4, <1>5, <1>8, <2>1, Decoded
    <2>3. Original(x) \in wire \ up
        BY <2>2 DEF Loose
    <2> QED BY <2>2, <2>3, <1>3, DispatchOK DEF Delivers
<1> QED BY <1>1, <1>5, <1>6, <1>7, <1>8 DEF ReadWire

LEMMA AwaitFinishedOK == ASSUME IInv, AwaitFinished PROVE IInv' /\ Delivers
<1>1. /\ ReaderType(r) /\ Paced(r) /\ Queued(r) /\ InOnePlace(r, up) /\ KnownMarked(r, up)
      /\ Begun(r, up)
    BY DEF IInv, Reading
<1>2. PICK p : p = [r EXCEPT !.ccsOk = TRUE]
    OBVIOUS
<1>3. /\ ReaderType(p) /\ p.epoch = r.epoch /\ p.bitmap = r.bitmap /\ p.next = r.next
      /\ p.unprocessed = r.unprocessed /\ p.processed = r.processed /\ p.data = r.data
      /\ p.init = r.init /\ p.ccs = r.ccs
    BY <1>1, <1>2 DEF ReaderType
<1>4. Held(p) = Held(r)
    BY <1>3 DEF Held
<1>5. Reading(p, up)
    BY <1>1, <1>3, <1>4 DEF Reading, Paced, Queued, InOnePlace, KnownMarked, Begun
<1>6. Stays(p, FALSE)
    BY <1>2 DEF AwaitFinished
<1> QED BY <1>5, <1>6, StaysOK DEF IInv

LEMMA RenegotiateOK == ASSUME IInv, Renegotiate PROVE IInv' /\ Delivers
<1>1. Stays(NewHandshake(r), FALSE) /\ Reading(NewHandshake(r), up)
    BY HandshakeBegins DEF Renegotiate, IInv
<1> QED BY <1>1, StaysOK DEF IInv

-----------------------------------------------------------------------------
(* The room of the queues *)

\* Two records that wait for the next epoch have different numbers: pqueue_insert.
Fits(q) ==
    /\ IsFiniteSet(q.processed) /\ IsFiniteSet(q.unprocessed)
    /\ Cardinality(q.processed) + Cardinality(q.unprocessed) <= Limit
    /\ \A x, y \in q.unprocessed : x.seq = y.seq => x = y

\* Fewer records in the same queues.
LEMMA FewerFit ==
    ASSUME NEW q, Fits(q), NEW p, p.unprocessed = q.unprocessed, p.processed \subseteq q.processed
    PROVE  Fits(p)
<1>1. IsFiniteSet(p.processed) /\ Cardinality(p.processed) <= Cardinality(q.processed)
    BY FS_Subset DEF Fits
<1>2. /\ Cardinality(q.processed) \in Nat /\ Cardinality(p.processed) \in Nat
      /\ Cardinality(q.unprocessed) \in Nat
    BY <1>1, FS_CardinalityType DEF Fits
<1> QED BY <1>1, <1>2, RecordsAssumption DEF Fits

\* What moves from one queue to the other leaves the first.
LEMMA ProcessBufferedFits ==
    ASSUME NEW q, ReaderType(q), Fits(q), NEW p, p = ProcessBuffered(q)
    PROVE  Fits(p)
<1> DEFINE P == q.processed
           U == q.unprocessed
           new == p.processed \ P
<1>1. /\ p.unprocessed \subseteq U
      /\ \A x \in p.processed : x \in P \/ (x \in U /\ x \notin p.unprocessed)
    BY ProcessBufferedMoves
<1>2. IsFiniteSet(P) /\ IsFiniteSet(U) /\ Cardinality(P) + Cardinality(U) <= Limit
    BY DEF Fits
<1>3. new \subseteq U /\ new \cap p.unprocessed = {} /\ p.processed \subseteq P \cup new
    BY <1>1
<1> HIDE DEF P, U, new
<1>4. IsFiniteSet(new) /\ IsFiniteSet(p.unprocessed) /\ IsFiniteSet(new \cup p.unprocessed)
      /\ Cardinality(new \cup p.unprocessed) <= Cardinality(U)
    <2>1. new \cup p.unprocessed \in SUBSET U
        BY <1>1, <1>3
    <2> QED BY <1>1, <1>2, <1>3, <2>1, FS_Subset
<1>5. Cardinality(new \cup p.unprocessed) = Cardinality(new) + Cardinality(p.unprocessed)
    <2>1. /\ Cardinality(new \cup p.unprocessed)
             = Cardinality(new) + Cardinality(p.unprocessed) - Cardinality(new \cap p.unprocessed)
        BY <1>4, FS_Union
    <2>2. Cardinality(new \cap p.unprocessed) = 0
        BY <1>3, FS_EmptySet
    <2>3. Cardinality(new) \in Nat /\ Cardinality(p.unprocessed) \in Nat
        BY <1>4, FS_CardinalityType
    <2> QED BY <2>1, <2>2, <2>3
<1>6. IsFiniteSet(P \cup new) /\ Cardinality(P \cup new) <= Cardinality(P) + Cardinality(new)
    <2>1. IsFiniteSet(P \cap new)
        BY <1>2, FS_Subset
    <2>2. /\ IsFiniteSet(P \cup new)
          /\ Cardinality(P \cup new) = Cardinality(P) + Cardinality(new) - Cardinality(P \cap new)
        BY <1>2, <1>4, FS_Union
    <2>3. Cardinality(P \cap new) \in Nat /\ Cardinality(P) \in Nat /\ Cardinality(new) \in Nat
        BY <1>2, <1>4, <2>1, FS_CardinalityType
    <2> QED BY <2>2, <2>3
<1>7. IsFiniteSet(p.processed) /\ Cardinality(p.processed) <= Cardinality(P \cup new)
    BY <1>3, <1>6, FS_Subset
<1>8. /\ Cardinality(P) \in Nat /\ Cardinality(U) \in Nat /\ Cardinality(new) \in Nat
      /\ Cardinality(p.unprocessed) \in Nat /\ Cardinality(p.processed) \in Nat
      /\ Cardinality(P \cup new) \in Nat
    BY <1>2, <1>4, <1>6, <1>7, FS_CardinalityType
<1>9. Cardinality(p.processed) + Cardinality(p.unprocessed) <= Limit
    BY <1>2, <1>4, <1>5, <1>6, <1>7, <1>8, RecordsAssumption
<1>10. \A x, y \in p.unprocessed : x.seq = y.seq => x = y
    BY <1>1 DEF Fits, U
<1> QED BY <1>4, <1>7, <1>9, <1>10 DEF Fits

\* A record is kept only where there is room, and only with nothing processed.
LEMMA BufferedFits ==
    ASSUME NEW q, Fits(q), q.processed = {}, NEW x, NEW p, p.processed = {},
           p.unprocessed = Buffered(q.unprocessed, x)
    PROVE  Fits(p)
<1>1. IsFiniteSet(q.unprocessed) /\ Cardinality(q.unprocessed) \in Nat
      /\ IsFiniteSet({}) /\ Cardinality({}) = 0
    BY FS_EmptySet, FS_CardinalityType DEF Fits
<1>2. CASE p.unprocessed = q.unprocessed
    BY <1>1, <1>2 DEF Fits
<1>3. CASE ~Full(q.unprocessed) /\ ~Duplicate(q.unprocessed, x)
           /\ p.unprocessed = q.unprocessed \cup {x}
    <2>1. Cardinality(q.unprocessed) < Limit
        BY <1>1, <1>3, RecordsAssumption DEF Full
    <2>2. IsFiniteSet(p.unprocessed) /\ Cardinality(p.unprocessed) <= Cardinality(q.unprocessed) + 1
        <3> DEFINE c == Cardinality(q.unprocessed)
        <3>1. /\ IsFiniteSet(p.unprocessed)
              /\ Cardinality(p.unprocessed) = IF x \in q.unprocessed THEN c ELSE c + 1
            BY <1>1, <1>3, FS_AddElement
        <3>2. c \in Nat
            BY <1>1
        <3> HIDE DEF c
        <3>3. Cardinality(p.unprocessed) <= c + 1
            BY <3>1, <3>2
        <3> QED BY <3>1, <3>3 DEF c
    <2>3. Cardinality(p.unprocessed) \in Nat
        BY <2>2, FS_CardinalityType
    <2>4. ~Duplicate(q.unprocessed, x)
        BY <1>3
    <2>5. \A y, z \in p.unprocessed : y.seq = z.seq => y = z
        BY <1>3, <2>4 DEF Fits, Duplicate
    <2> QED BY <1>1, <2>1, <2>2, <2>3, <2>5, RecordsAssumption DEF Fits
<1> QED BY <1>2, <1>3 DEF Buffered

\* Whatever comes from the wire or out of a queue, what waits goes on waiting.
LEMMA DispatchKeeps ==
    ASSUME NEW q, ReaderType(q), NEW y, Dispatch(q, y)
    PROVE  r'.processed = q.processed /\ r'.unprocessed = q.unprocessed
BY DEF Dispatch, Stays, HandUp, NextEpoch, NewHandshake, ReaderType

\* A handshake record is handed up whatever the state.
LEMMA HandshakeGoesUp ==
    ASSUME NEW q, NEW x, x.type \in Handshake, Dispatch(q, x)
    PROVE  Original(x) \in up'
BY DEF Dispatch, HandUp, Handshake

LEMMA DispatchFits ==
    ASSUME NEW q, ReaderType(q), Fits(q), NEW x, Dispatch(q, x)
    PROVE  Fits(r')
<1>1. r'.processed = q.processed /\ r'.unprocessed = q.unprocessed
    BY DispatchKeeps
<1> QED BY <1>1, FewerFit

\* A record that is good and kept for the epoch its queue waits for, or processed.
Waits(q, x) ==
    /\ x \in q.unprocessed \cup q.processed /\ x.good
    /\ x \in q.unprocessed => x.epoch = q.unprocessedEpoch

\* It stops no loop, finds room, and lies behind whatever did stop it.
LEMMA ProcessBufferedKeeps ==
    ASSUME Writing, NEW q, Reading(q, up), Fits(q), NEW x, Waits(q, x), NEW p, p = ProcessBuffered(q)
    PROVE  x \in p.unprocessed \cup p.processed
<1> DEFINE stops == {y \in q.unprocessed : ~Decodes(q, y) \/ Duplicate(q.processed, y)}
           moved == {y \in q.unprocessed : \A z \in stops : y.seq < z.seq}
           room == Limit - Cardinality(q.processed)
           before == {y \in moved : y.seq < x.seq}
           fits == {y \in moved : Cardinality({z \in moved : z.seq < y.seq}) < room}
           rest == {y \in q.unprocessed : \E z \in stops : z.seq < y.seq}
           e == IF stops = {} THEN q.epoch + 1 ELSE q.unprocessedEpoch
           both == q.processed \cup fits
<1>1. ReaderType(q) /\ InOnePlace(q, up) /\ Queued(q)
    BY DEF Reading
<1>2. CASE q.unprocessed # {} /\ q.unprocessedEpoch # q.epoch
    <2>1. p = q
        BY <1>2, Zenon DEF ProcessBuffered
    <2> QED BY <2>1 DEF Waits
<1>3. CASE ~(q.unprocessed # {} /\ q.unprocessedEpoch # q.epoch)
    <2>1. p = [q EXCEPT !.processed = both, !.unprocessed = rest, !.unprocessedEpoch = e]
        BY <1>3 DEF ProcessBuffered
    <2>2. p.processed = both /\ p.unprocessed = rest
        <3> HIDE DEF both, rest, e
        <3> QED BY <2>1, <1>1 DEF ReaderType
    <2>3. CASE x \in q.processed
        BY <2>2, <2>3
    <2>4. CASE x \in q.unprocessed
        <3>1. x.epoch = q.epoch /\ Decodes(q, x)
            BY <1>3, <2>4 DEF Waits, Decodes
        <3>2. ~Duplicate(q.processed, x)
            <4>1. ASSUME NEW y \in q.processed, y.seq = x.seq PROVE FALSE
                <5>1. y.epoch = x.epoch
                    BY <1>1, <3>1 DEF Queued
                <5>2. Original(x) \in wire /\ Original(y) \in wire
                    BY <1>1, <2>4 DEF InOnePlace, Held
                <5>3. Number(Original(x)) = Number(Original(y))
                    BY <5>1, <4>1 DEF Number, Original
                <5>4. Original(x) = Original(y)
                    BY <5>2, <5>3 DEF Writing
                <5>5. x = y
                    BY <5>4, <1>1, <2>4 DEF InOnePlace, Held
                <5> QED BY <5>5, <1>1, <2>4 DEF InOnePlace
            <4> QED BY <4>1 DEF Duplicate
        <3>3. x \notin stops /\ (\A y \in q.unprocessed : y.seq \in Nat)
            BY <3>1, <3>2, <1>1 DEF ReaderType, Arrived
        <3>4. CASE \E z \in stops : z.seq < x.seq
            BY <3>4, <2>2, <2>4
        <3>5. CASE \A z \in stops : ~(z.seq < x.seq)
            <4>1. \A z \in stops : z.seq # x.seq
                BY <3>3, <2>4 DEF Fits
            <4>2. x \in moved
                BY <3>3, <3>5, <4>1, <2>4
            <4>3. Cardinality(before) < room
                <5>1. before \in SUBSET (q.unprocessed \ {x})
                    BY <3>3
                <5>2. /\ IsFiniteSet(q.unprocessed) /\ IsFiniteSet(q.processed)
                      /\ Cardinality(q.processed) + Cardinality(q.unprocessed) <= Limit
                    BY DEF Fits
                <5> HIDE DEF before
                <5>3. /\ IsFiniteSet(q.unprocessed \ {x})
                      /\ Cardinality(q.unprocessed \ {x}) = Cardinality(q.unprocessed) - 1
                    BY <5>2, <2>4, FS_RemoveElement
                <5>4. Cardinality(before) <= Cardinality(q.unprocessed \ {x}) /\ IsFiniteSet(before)
                    BY <5>1, <5>3, FS_Subset
                <5>5. /\ Cardinality(q.unprocessed) \in Nat /\ Cardinality(q.processed) \in Nat
                      /\ Cardinality(before) \in Nat
                    BY <5>2, <5>4, FS_CardinalityType
                <5> QED BY <5>2, <5>3, <5>4, <5>5, RecordsAssumption
            <4> QED BY <4>2, <4>3, <2>2
        <3> QED BY <3>4, <3>5
    <2> QED BY <2>3, <2>4 DEF Waits
<1> QED BY <1>2, <1>3

-----------------------------------------------------------------------------
(* The theorems *)

\* Every step keeps the invariant, and sends or hands up at most one record.
LEMMA StepOK == ASSUME IInv, [Next]_vars PROVE IInv' /\ (Sends \/ Delivers)
<1>1. ASSUME NEW t \in Payload, WritePayload(t) PROVE IInv' /\ Sends
    <2>1. IInv'
        BY <1>1, WritePayloadOK
    <2> QED BY <1>1, <2>1 DEF WritePayload, Write, Put, Sends, IInv, Writing
<1>2. ASSUME StartHandshake PROVE IInv' /\ Sends
    <2>1. IInv'
        BY <1>2, StartHandshakeOK
    <2> QED BY <1>2, <2>1 DEF StartHandshake, Write, Put, Sends, IInv, Writing
<1>3. ASSUME Answered PROVE IInv' /\ Delivers
    BY <1>3, AnsweredOK DEF Answered, Delivers
<1>4. ASSUME WriteCcs PROVE IInv' /\ Sends
    <2>1. IInv'
        BY <1>4, WriteCcsOK
    <2> QED BY <1>4, <2>1 DEF WriteCcs, Put, Sends, IInv, Writing
<1>5. ASSUME WriteFinished PROVE IInv' /\ Sends
    <2>1. IInv'
        BY <1>5, WriteFinishedOK
    <2> QED BY <1>5, <2>1 DEF WriteFinished, Write, Put, Sends, IInv, Writing
<1>6. ASSUME NEW m \in w.flight, Retransmit(m) PROVE IInv' /\ Sends
    <2>1. IInv'
        BY <1>6, RetransmitOK
    <2> QED BY <1>6, <2>1 DEF Retransmit, Put, Sends, IInv, Writing
<1>7. ASSUME NEW x \in wire, NEW good \in BOOLEAN, ReadWire(Copy(x, good))
      PROVE  IInv' /\ Delivers
    BY <1>7, ReadWireOK
<1>8. ASSUME UNCHANGED vars PROVE IInv' /\ Delivers
    <2>1. UNCHANGED <<wire, w, r, up, twice, refused>>
        BY <1>8 DEF vars
    <2>2. IInv'
        BY <2>1, ReaderStep DEF IInv
    <2> QED BY <2>1, <2>2 DEF Delivers
<1> QED BY <1>1, <1>2, <1>3, <1>4, <1>5, <1>6, <1>7, <1>8, ReadKeptOK, ReadProcessedOK,
           AwaitFinishedOK, RenegotiateOK DEF Next

LEMMA Invariance == Spec => []IInv
<1>1. IInv /\ [Next]_vars => IInv'
    BY StepOK
<1> QED BY <1>1, InitOK, PTL DEF Spec

\* Two ends, three queues and two bitmaps keep their types, whatever is lost,
\* repeated and reordered (dtls1_get_record, dtls1_read_bytes).
THEOREM TypeCorrect == Spec => []TypeOK
<1>1. ASSUME IInv PROVE TypeOK
    <2>1. wire \subseteq Record /\ up \subseteq Record
        BY <1>1 DEF IInv, Writing, Reading, InOnePlace
    <2>2. twice \in BOOLEAN /\ refused \in BOOLEAN
        BY <1>1 DEF IInv
    <2> QED BY <1>1, <2>1, <2>2 DEF IInv, Writing, Reading, ReaderType, TypeOK
<1> QED BY <1>1, Invariance, PTL

\* No record goes up twice (dtls1_record_replay_check).
THEOREM RecordsOnce == Spec => []OnceEach
<1>1. IInv => OnceEach
    BY DEF IInv, OnceEach
<1> QED BY <1>1, Invariance, PTL

\* No record number is used again, not even for a retransmission in the epoch
\* before (dtls1_retransmit_message).
THEOREM FreshNumbers == Spec => []NumbersFresh
<1>1. IInv => NumbersFresh
    BY DEF IInv, Writing
<1> QED BY <1>1, Invariance, PTL

\* No data of an epoch goes up before its Finished (dtls1_read_bytes).
THEOREM DataWaits == Spec => []DataAfterFinished
<1>1. IInv => DataAfterFinished
    BY DEF IInv, Reading, Begun, FinishedOf, DataAfterFinished
<1> QED BY <1>1, Invariance, PTL

\* The queues of the next epoch have room.
LEMMA Room == Spec => []Fits(r)
<1>1. Init => Fits(r)
    BY FS_EmptySet, RecordsAssumption DEF Init, Fits
<1>2. ASSUME IInv, Fits(r), [Next]_vars PROVE Fits(r)'
    <2>1. ReaderType(r) /\ Reading(r, up) /\ Writing
        BY <1>2 DEF IInv, Reading
    <2>2. PICK q : q = ProcessBuffered(r)
        OBVIOUS
    <2>3. Fits(q) /\ ReaderType(q)
        BY <1>2, <2>1, <2>2, ProcessBufferedFits, ProcessBufferedMoves
    <2>4. CASE UNCHANGED r
        BY <1>2, <2>4
    <2>5. CASE ReadKept
        <3>1. PICK x \in r.data : Dispatch([r EXCEPT !.data = @ \ {x}], x)
            BY <2>5 DEF ReadKept, Firsts
        <3>2. PICK p : p = [r EXCEPT !.data = @ \ {x}]
            OBVIOUS
        <3>3. ReaderType(p) /\ p.processed = r.processed /\ p.unprocessed = r.unprocessed
            BY <3>2, <2>1 DEF ReaderType
        <3>4. Fits(p)
            BY <3>3, <1>2, FewerFit
        <3> QED BY <3>1, <3>2, <3>3, <3>4, DispatchFits
    <2>6. CASE ReadProcessed
        <3>1. PICK x \in q.processed : Dispatch([q EXCEPT !.processed = @ \ {x}], x)
            BY <2>6, <2>2 DEF ReadProcessed, Firsts
        <3>2. PICK p : p = [q EXCEPT !.processed = @ \ {x}]
            OBVIOUS
        <3>3. /\ ReaderType(p) /\ p.processed \subseteq q.processed
              /\ p.unprocessed = q.unprocessed
            BY <3>2, <2>3 DEF ReaderType
        <3>4. Fits(p)
            BY <3>3, <2>3, FewerFit
        <3> QED BY <3>1, <3>2, <3>3, <3>4, DispatchFits
    <2>7. ASSUME NEW y \in wire, NEW good \in BOOLEAN, ReadWire(Copy(y, good))
          PROVE  Fits(r)'
        <3>1. PICK x : x = Copy(y, good)
            OBVIOUS
        <3>2. q.processed = {} /\ ReadWire(x)
            BY <2>2, <2>7, <3>1 DEF ReadWire, MayReadWire
        <3>3. x.seq \in Nat
            BY <2>1, <3>1 DEF Writing, Record, Copy
        <3>4. CASE Stays(q, TRUE) \/ Stays(q, FALSE)
            BY <3>4, <2>3 DEF Stays
        <3>5. CASE Stays([q EXCEPT !.unprocessed = Buffered(@, x),
                                   !.next = BitmapUpdate(@, x.seq)], FALSE)
            <4>1. r'.processed = {} /\ r'.unprocessed = Buffered(q.unprocessed, x)
                BY <3>2, <3>5, <2>3 DEF Stays, ReaderType
            <4> QED BY <4>1, <3>2, <2>3, BufferedFits
        <3>6. CASE Dispatch([q EXCEPT !.bitmap = BitmapUpdate(@, x.seq)], x)
            <4>1. PICK p : p = [q EXCEPT !.bitmap = BitmapUpdate(@, x.seq)]
                OBVIOUS
            <4>2. q.bitmap \in Bitmap
                BY <2>3 DEF ReaderType
            <4>3. BitmapUpdate(q.bitmap, x.seq) \in Bitmap
                BY <4>2, <3>3, UpdateMarks
            <4>4. /\ ReaderType(p) /\ p.processed = q.processed
                  /\ p.unprocessed = q.unprocessed
                BY <4>1, <4>3, <2>3 DEF ReaderType
            <4>5. Fits(p)
                BY <4>4, <2>3, FewerFit
            <4> QED BY <3>6, <4>1, <4>4, <4>5, DispatchFits
        <3> QED BY <2>2, <3>2, <3>4, <3>5, <3>6 DEF ReadWire
    <2>8. CASE AwaitFinished \/ Renegotiate
        <3>1. r'.processed = r.processed /\ r'.unprocessed = r.unprocessed
            BY <2>8, <2>1 DEF AwaitFinished, Renegotiate, NewHandshake, Stays, ReaderType
        <3> QED BY <3>1, <1>2, FewerFit
    <2> QED BY <1>2, <2>4, <2>5, <2>6, <2>7, <2>8
            DEF Next, vars, WritePayload, StartHandshake, Answered, WriteCcs, WriteFinished,
                Write, Retransmit
<1> QED BY <1>1, <1>2, Invariance, PTL DEF Spec

\* The two queues of the next epoch need no more room together than one has: none
\* of the records kept in time is lost when they are processed (dtls1_buffer_record).
THEOREM QueuesHaveRoom == Spec => []QueuesFit
<1>1. Fits(r) => QueuesFit
    BY DEF Fits, QueuesFit
<1> QED BY <1>1, Room, PTL

\* A handshake record kept for the epoch its queue waits for is handed up and never
\* forgotten (dtls1_process_buffered_records).
THEOREM KeptGoUp == Spec => KeptIsHandedUp
<1>1. ASSUME IInv, Fits(r), [Next]_vars, NEW x, x.type \in Handshake, Waits(r, x)
      PROVE  x \in r'.unprocessed \cup r'.processed \/ Original(x) \in up'
    <2>1. ReaderType(r) /\ Reading(r, up) /\ Writing
        BY <1>1 DEF IInv, Reading
    <2>2. PICK q : q = ProcessBuffered(r)
        OBVIOUS
    <2>3. ReaderType(q) /\ x \in q.unprocessed \cup q.processed
        BY <1>1, <2>1, <2>2, ProcessBufferedMoves, ProcessBufferedKeeps
    <2>4. CASE UNCHANGED r
        BY <1>1, <2>4 DEF Waits
    <2>5. CASE ReadKept
        <3>1. PICK y \in r.data : Dispatch([r EXCEPT !.data = @ \ {y}], y)
            BY <2>5 DEF ReadKept, Firsts
        <3>2. PICK p : p = [r EXCEPT !.data = @ \ {y}]
            OBVIOUS
        <3>3. ReaderType(p) /\ p.processed = r.processed /\ p.unprocessed = r.unprocessed
            BY <3>2, <2>1 DEF ReaderType
        <3> QED BY <3>1, <3>2, <3>3, <1>1, DispatchKeeps DEF Waits
    <2>6. CASE ReadProcessed
        <3>1. PICK y \in q.processed : Dispatch([q EXCEPT !.processed = @ \ {y}], y)
            BY <2>6, <2>2 DEF ReadProcessed, Firsts
        <3>2. PICK p : p = [q EXCEPT !.processed = @ \ {y}]
            OBVIOUS
        <3>3. /\ ReaderType(p) /\ p.processed = q.processed \ {y}
              /\ p.unprocessed = q.unprocessed
            BY <3>2, <2>3 DEF ReaderType
        <3>4. CASE x = y
            BY <3>1, <3>4, <1>1, HandshakeGoesUp
        <3>5. CASE x # y
            <4>1. r'.processed = q.processed \ {y} /\ r'.unprocessed = q.unprocessed
                BY <3>1, <3>2, <3>3, DispatchKeeps
            <4> QED BY <4>1, <3>5, <2>3
        <3> QED BY <3>4, <3>5
    <2>7. ASSUME NEW y \in wire, NEW good \in BOOLEAN, ReadWire(Copy(y, good))
          PROVE  x \in r'.unprocessed
        <3>1. PICK z : z = Copy(y, good)
            OBVIOUS
        <3>2. q.processed = {} /\ ReadWire(z)
            BY <2>2, <2>7, <3>1 DEF ReadWire, MayReadWire
        <3>3. z.seq \in Nat /\ x \in q.unprocessed
            BY <2>1, <2>3, <3>1, <3>2 DEF Writing, Record, Copy
        <3>4. CASE Stays(q, TRUE) \/ Stays(q, FALSE)
            BY <3>4, <3>3 DEF Stays
        <3>5. CASE Stays([q EXCEPT !.unprocessed = Buffered(@, z),
                                   !.next = BitmapUpdate(@, z.seq)], FALSE)
            <4>1. r'.unprocessed = Buffered(q.unprocessed, z)
                BY <3>5, <2>3 DEF Stays, ReaderType
            <4> QED BY <4>1, <3>3 DEF Buffered
        <3>6. CASE Dispatch([q EXCEPT !.bitmap = BitmapUpdate(@, z.seq)], z)
            <4>1. PICK p : p = [q EXCEPT !.bitmap = BitmapUpdate(@, z.seq)]
                OBVIOUS
            <4>2. q.bitmap \in Bitmap
                BY <2>3 DEF ReaderType
            <4>3. BitmapUpdate(q.bitmap, z.seq) \in Bitmap
                BY <4>2, <3>3, UpdateMarks
            <4>4. ReaderType(p) /\ p.unprocessed = q.unprocessed
                BY <4>1, <4>3, <2>3 DEF ReaderType
            <4> QED BY <3>3, <3>6, <4>1, <4>4, DispatchKeeps
        <3> QED BY <2>2, <3>2, <3>4, <3>5, <3>6 DEF ReadWire
    <2>8. CASE AwaitFinished \/ Renegotiate
        <3>1. r'.processed = r.processed /\ r'.unprocessed = r.unprocessed
            BY <2>8, <2>1 DEF AwaitFinished, Renegotiate, NewHandshake, Stays, ReaderType
        <3> QED BY <3>1, <1>1 DEF Waits
    <2> QED BY <1>1, <2>4, <2>5, <2>6, <2>7, <2>8
            DEF Next, vars, WritePayload, StartHandshake, Answered, WriteCcs, WriteFinished,
                Write, Retransmit
<1>2. ASSUME IInv, Fits(r), [Next]_vars
      PROVE  \A x \in r.unprocessed \cup r.processed :
                 x.type \in Handshake /\ x.good
                     /\ (x \in r.unprocessed => x.epoch = r.unprocessedEpoch) =>
                 x \in r'.unprocessed \cup r'.processed \/ Original(x) \in up'
    BY <1>1, <1>2 DEF Waits
<1> QED BY <1>2, Invariance, Room, PTL DEF Spec, KeptIsHandedUp

\* The record layer implements a network that numbers no two records alike and
\* hands up each at most once.
THEOREM Implements == Spec => RecordsAreDatagrams
<1>1. Init => Once!Init
    BY DEF Init, Once!Init
<1>2. ASSUME IInv, [Next]_vars PROVE [Once!Next]_Once!vars
    <2>1. IInv' /\ (Sends \/ Delivers)
        BY <1>2, StepOK
    <2>2. twice' = twice
        BY <1>2, <2>1 DEF IInv
    <2>3. CASE Sends
        <3>1. PICK x \in Record : wire' \in {wire, wire \cup {x}}
            BY <2>3 DEF Sends
        <3>2. CASE x \in wire
            BY <3>1, <3>2, <2>2, <2>3 DEF Sends, Once!vars
        <3>3. CASE x \notin wire /\ wire' = wire \cup {x}
            <4>1. \A y \in wire : Number(y) # Number(x)
                BY <3>3, <2>1 DEF IInv, Writing
            <4>2. Once!Send(x)
                BY <4>1, <3>3, <2>2, <2>3 DEF Sends, Once!Send
            <4> QED BY <4>2 DEF Once!Next
        <3> QED BY <3>1, <3>2, <3>3, <2>2, <2>3 DEF Sends, Once!vars
    <2>4. CASE Delivers
        <3>1. CASE up' = up
            BY <3>1, <2>2, <2>4 DEF Delivers, Once!vars
        <3>2. ASSUME NEW x \in wire \ up, up' = up \cup {x} PROVE Once!Next
            <4>1. Once!Deliver(x) /\ x \in Record
                BY <3>2, <2>2, <2>4, <1>2 DEF Delivers, Once!Deliver, IInv, Writing
            <4> QED BY <4>1 DEF Once!Next
        <3> QED BY <3>1, <3>2, <2>4 DEF Delivers
    <2> QED BY <2>1, <2>3, <2>4
<1>3. IInv /\ [Next]_vars => [Once!Next]_Once!vars
    BY <1>2
<1> QED BY <1>1, <1>3, Invariance, PTL DEF Spec, Once!Spec, RecordsAreDatagrams

================================================================================
