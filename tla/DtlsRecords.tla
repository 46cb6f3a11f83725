------------------------------- MODULE DtlsRecords -------------------------------
(* DTLS records, ssl/d1_pkt.c and the retransmission of ssl/d1_both.c: one end  *)
(* writes, the network loses, repeats, reorders and damages, the other reads.   *)
(* A step of the reader is one turn of the loop of dtls1_read_bytes.            *)
EXTENDS Integers, FiniteSets

CONSTANTS MaxEpoch, MaxSeq,   \* bounds of the writer
          Width,              \* bits of the replay bitmap: those of a long
          Saturation,         \* where satsub64be saturates: 128
          Limit,              \* records in a queue: 100
          Payload             \* what is sent besides the handshake

ASSUME RecordsAssumption ==
    /\ MaxEpoch \in Nat /\ MaxSeq \in Nat
    /\ Width \in Nat \ {0} /\ Saturation \in Nat /\ Width <= Saturation
    /\ Limit \in Nat /\ Payload \subseteq {"data", "alert"}

VARIABLES wire,     \* records sent: each may arrive never, or again and again
          w,        \* the writing end
          r,        \* the reading end
          up,       \* records handed to the handshake or to the application
          twice,    \* was one of them handed up before?
          refused   \* did pqueue_insert ever refuse a record?

vars == <<wire, w, r, up, twice, refused>>

Handshake == {"hello", "finished"}
Types == Handshake \cup {"ccs", "data", "alert"}
Record == [epoch : 0..MaxEpoch, seq : 0..(MaxSeq - 1), type : Types]
Number(x) == <<x.epoch, x.seq>>
\* A record as it arrived: a damaged one does not pass its MAC.
Copy(x, good) == [epoch |-> x.epoch, seq |-> x.seq, type |-> x.type, good |-> good]
Original(x) == [epoch |-> x.epoch, seq |-> x.seq, type |-> x.type]

-----------------------------------------------------------------------------
(* The replay window *)

NoBitmap == [map |-> {}, max |-> 0]

\* satsub64be: the difference, saturated.
Cmp(a, b) == IF a - b > Saturation THEN Saturation
             ELSE IF a - b < -Saturation THEN -Saturation ELSE a - b

BugReplayCheck(b, seq) ==
    LET c == Cmp(seq, b.max) IN c > 0 \/ (-c <= Width /\ -c \notin b.map)

ReplayCheck(b, seq) ==
    LET c == Cmp(seq, b.max) IN c > 0 \/ (-c < Width /\ -c \notin b.map)

BugBitmapUpdate(b, seq) ==
    LET c == Cmp(seq, b.max) IN
    IF c > 0
    THEN [map |-> {0} \cup {k + c : k \in b.map}, max |-> seq]
    ELSE [b EXCEPT !.map = IF -c < Width THEN @ \cup {-c} ELSE @]

BitmapUpdate(b, seq) ==
    LET c == Cmp(seq, b.max) IN
    IF c > 0
    THEN [map |-> {k \in 0..(Width - 1) : k = 0 \/ k - c \in b.map}, max |-> seq]
    ELSE [b EXCEPT !.map = IF -c < Width THEN @ \cup {-c} ELSE @]

-----------------------------------------------------------------------------
(* Priority queues: sets of records of different numbers *)

Firsts(q) == {x \in q : \A y \in q : x.seq <= y.seq}
Full(q) == Cardinality(q) >= Limit
Duplicate(q, x) == \E y \in q : y.seq = x.seq

\* dtls1_buffer_record: a full queue drops the record without a word.
Buffered(q, x) == IF Full(q) \/ Duplicate(q, x) THEN q ELSE q \cup {x}
Refuses(q, x) == ~Full(q) /\ Duplicate(q, x)

-----------------------------------------------------------------------------
(* The writing end *)

Init ==
    /\ wire = {} /\ up = {} /\ twice = FALSE /\ refused = FALSE
    /\ w = [epoch |-> 0, seq |-> 0, last |-> 0, flight |-> {}, phase |-> "idle"]
    /\ r = [epoch |-> 0, bitmap |-> NoBitmap, next |-> NoBitmap,
            unprocessed |-> {}, unprocessedEpoch |-> 0, processed |-> {}, data |-> {},
            init |-> TRUE, ccsOk |-> FALSE, ccs |-> FALSE]

Put(e, s, t) == wire' = wire \cup {[epoch |-> e, seq |-> s, type |-> t]}

\* A record of the current epoch, and the message it carries if it is kept.
Write(t, kept, phase) ==
    /\ w.seq < MaxSeq
    /\ Put(w.epoch, w.seq, t)
    /\ w' = [w EXCEPT !.seq = @ + 1, !.phase = phase,
                      !.flight = IF kept THEN @ \cup {[epoch |-> w.epoch, type |-> t]} ELSE @]
    /\ UNCHANGED <<r, up, twice, refused>>

\* Application data needs keys; alerts are sent at any time.
WritePayload(t) ==
    /\ w.phase # "changed" /\ (t = "data" => w.epoch > 0)
    /\ Write(t, FALSE, w.phase)
StartHandshake == w.phase = "idle" /\ w.epoch < MaxEpoch /\ Write("hello", TRUE, "started")

\* The other end answers in the same handshake: dtls1_stop_timer.
Answered ==
    /\ w.phase = "started" /\ r.init /\ ~r.ccs /\ r.epoch = w.epoch
    /\ w' = [w EXCEPT !.phase = "keyed", !.flight = {}]
    /\ UNCHANGED <<wire, r, up, twice, refused>>

\* The last record of an epoch, and dtls1_reset_seq_numbers.
WriteCcs ==
    /\ w.phase = "keyed" /\ w.seq < MaxSeq
    /\ Put(w.epoch, w.seq, "ccs")
    /\ w' = [epoch |-> w.epoch + 1, seq |-> 0, last |-> w.seq + 1, phase |-> "changed",
             flight |-> w.flight \cup {[epoch |-> w.epoch, type |-> "ccs"]}]
    /\ UNCHANGED <<r, up, twice, refused>>

WriteFinished == w.phase = "changed" /\ Write("finished", TRUE, "idle")

BugRetransmit(m) ==
    /\ w.phase # "changed"
    /\ IF m.epoch = w.epoch - 1
       THEN w.last < MaxSeq /\ Put(m.epoch, w.last, m.type) /\ UNCHANGED w
       ELSE /\ w.seq < MaxSeq
            /\ Put(m.epoch, w.seq, m.type)
            /\ w' = [w EXCEPT !.seq = @ + 1]
    /\ UNCHANGED <<r, up, twice, refused>>

\* dtls1_retransmit_message, for one message of the loop over the flight: what
\* was sent in the epoch before goes on with the numbers of that epoch.
Retransmit(m) ==
    /\ w.phase # "changed"
    /\ IF m.epoch = w.epoch - 1
       THEN /\ w.last < MaxSeq
            /\ Put(m.epoch, w.last, m.type)
            /\ w' = [w EXCEPT !.last = @ + 1]
       ELSE /\ w.seq < MaxSeq
            /\ Put(m.epoch, w.seq, m.type)
            /\ w' = [w EXCEPT !.seq = @ + 1]
    /\ UNCHANGED <<r, up, twice, refused>>

-----------------------------------------------------------------------------
(* The reading end *)

Stays(q, refuses) ==
    /\ r' = q
    /\ refused' = (refused \/ refuses)
    /\ UNCHANGED <<wire, w, up, twice>>

HandUp(q, x) ==
    /\ r' = q
    /\ up' = up \cup {Original(x)}
    /\ twice' = (twice \/ Original(x) \in up)
    /\ UNCHANGED <<wire, w, refused>>

BugNextEpoch(q) == [q EXCEPT !.epoch = @ + 1, !.bitmap = NoBitmap, !.next = NoBitmap]

\* dtls1_reset_seq_numbers: what was received of the next epoch stays marked.
NextEpoch(q) == [q EXCEPT !.epoch = @ + 1, !.bitmap = q.next, !.next = NoBitmap]

NewHandshake(q) == [q EXCEPT !.init = TRUE, !.ccsOk = FALSE, !.ccs = FALSE]

BugDispatch(q, x) ==
    \/ x.type \in {"data", "alert"} /\ HandUp(q, x)
    \/ /\ x.type = "ccs"
       /\ IF q.ccsOk
          THEN HandUp([NextEpoch(q) EXCEPT !.ccsOk = FALSE, !.ccs = TRUE], x)
          ELSE Stays(q, FALSE)
    \/ /\ x.type = "hello"
       /\ HandUp(IF q.init THEN q ELSE NewHandshake(q), x)
    \/ /\ x.type = "finished"
       /\ HandUp(IF q.ccs THEN [q EXCEPT !.ccs = FALSE, !.init = FALSE] ELSE q, x)

\* A decoded record x is dispatched.  Between the ChangeCipherSpec and the
\* Finished of an epoch everything else waits.
Dispatch(q, x) ==
    \/ /\ q.ccs /\ x.type \notin Handshake
       /\ Stays([q EXCEPT !.data = Buffered(@, x)], Refuses(q.data, x))
    \/ /\ ~q.ccs /\ x.type \in {"data", "alert"}
       /\ HandUp(q, x)
    \/ /\ ~q.ccs /\ x.type = "ccs"
       /\ IF q.ccsOk
          THEN HandUp([NextEpoch(q) EXCEPT !.ccsOk = FALSE, !.ccs = TRUE], x)
          ELSE Stays(q, FALSE)
    \/ /\ x.type = "hello"
       /\ HandUp(IF q.init THEN q ELSE NewHandshake(q), x)
    \/ /\ x.type = "finished"
       /\ HandUp(IF q.ccs THEN [q EXCEPT !.ccs = FALSE, !.init = FALSE] ELSE q, x)

\* dtls1_process_record has the keys of the current epoch only.
Decodes(q, x) == x.good /\ x.epoch = q.epoch

BugProcessBuffered(q) ==
    LET good == {x \in q.unprocessed : Decodes(q, x)} IN
    IF q.unprocessed # {} /\ q.unprocessedEpoch # q.epoch THEN q
    ELSE [q EXCEPT !.processed = @ \cup {x \in good : \A y \in q.unprocessed \ good : x.seq < y.seq},
                   !.unprocessed = {}, !.unprocessedEpoch = q.epoch + 1]

\* dtls1_process_buffered_records: up to the first record that does not decode;
\* only without one do the queues move on to the new epoch.
ProcessBuffered(q) ==
    LET stops == {x \in q.unprocessed : ~Decodes(q, x) \/ Duplicate(q.processed, x)}
        moved == {x \in q.unprocessed : \A y \in stops : x.seq < y.seq}
        room == Limit - Cardinality(q.processed)
        fits == {x \in moved : Cardinality({y \in moved : y.seq < x.seq}) < room}
        rest == {x \in q.unprocessed : \E y \in stops : y.seq < x.seq}
    IN IF q.unprocessed # {} /\ q.unprocessedEpoch # q.epoch THEN q
       ELSE [q EXCEPT
               !.processed = @ \cup fits,
               !.unprocessed = rest,
               !.unprocessedEpoch = IF stops = {} THEN q.epoch + 1 ELSE @]

\* Application data kept from the handshake is read before anything else.
KeptData == ~r.init /\ r.data # {}

ReadKept ==
    /\ KeptData
    /\ \E x \in Firsts(r.data) : Dispatch([r EXCEPT !.data = @ \ {x}], x)

ReadProcessed ==
    LET q == ProcessBuffered(r) IN
    /\ ~KeptData
    /\ \E x \in Firsts(q.processed) : Dispatch([q EXCEPT !.processed = @ \ {x}], x)

\* The bitmap of the epoch of x; only of handshake records and alerts is the
\* next epoch of interest.
IsNext(q, x) == x.epoch = q.epoch + 1 /\ x.type \in Handshake \cup {"alert"}

BugMayReadWire(q) == ~KeptData
MayReadWire(q) == ~KeptData /\ q.processed = {}

\* dtls1_get_record: one record of the wire, dropped, kept or decoded.
ReadWire(x) ==
    LET q == ProcessBuffered(r) IN
    /\ MayReadWire(q)
    /\ \/ /\ IsNext(q, x)
          /\ IF ReplayCheck(q.next, x.seq) /\ q.init
             THEN IF Refuses(q.unprocessed, x) THEN Stays(q, TRUE)
                  ELSE Stays([q EXCEPT !.unprocessed = Buffered(@, x),
                                       !.next = BitmapUpdate(@, x.seq)], FALSE)
             ELSE Stays(q, FALSE)
       \/ /\ Decodes(q, x) /\ ReplayCheck(q.bitmap, x.seq)
          /\ Dispatch([q EXCEPT !.bitmap = BitmapUpdate(@, x.seq)], x)
       \/ /\ ~IsNext(q, x) /\ ~(Decodes(q, x) /\ ReplayCheck(q.bitmap, x.seq))
          /\ Stays(q, FALSE)

\* The handshake waits for the Finished of the other end.
AwaitFinished ==
    /\ r.init
    /\ Stays([r EXCEPT !.ccsOk = TRUE], FALSE)

\* The application asks for a new handshake, perhaps before it has read.
Renegotiate ==
    /\ ~r.init
    /\ Stays(NewHandshake(r), FALSE)

Next ==
    \/ \E t \in Payload : WritePayload(t)
    \/ StartHandshake \/ Answered \/ WriteCcs \/ WriteFinished
    \/ \E m \in w.flight : Retransmit(m)
    \/ ReadKept \/ ReadProcessed \/ AwaitFinished \/ Renegotiate
    \/ \E x \in wire : ReadWire(Copy(x, TRUE))
    \/ \E x \in wire : x.epoch > 0 /\ ReadWire(Copy(x, FALSE))

Spec == Init /\ [][Next]_vars

-----------------------------------------------------------------------------
(* Properties *)

Bitmap == [map : SUBSET (0..(Width - 1)), max : Nat]
Arrived == [epoch : 0..MaxEpoch, seq : 0..(MaxSeq - 1), type : Types, good : BOOLEAN]

\* The fields have their types.
TypeOK ==
    /\ wire \subseteq Record /\ up \subseteq Record
    /\ twice \in BOOLEAN /\ refused \in BOOLEAN
    /\ w \in [epoch : Nat, seq : Nat, last : Nat, flight : SUBSET [epoch : Nat, type : Types],
              phase : {"idle", "started", "keyed", "changed"}]
    /\ r \in [epoch : Nat, bitmap : Bitmap, next : Bitmap,
              unprocessed : SUBSET Arrived, unprocessedEpoch : Nat,
              processed : SUBSET Arrived, data : SUBSET Arrived,
              init : BOOLEAN, ccsOk : BOOLEAN, ccs : BOOLEAN]

\* No record goes up twice, through the bitmaps of two epochs, three queues, a
\* window that moves on, and records that are retransmitted, repeated by the
\* network and reordered (dtls1_record_replay_check, dtls1_record_bitmap_update).
OnceEach == ~twice

\* The number the writer uses next, in its epoch or in the one before, was never
\* used: a retransmission borrows the numbers of an old epoch and gives them back.
NumbersFresh ==
    /\ \A x \in wire : x.epoch <= w.epoch
    /\ \A x \in wire : x.epoch = w.epoch => x.seq < w.seq
    /\ \A x \in wire : x.epoch = w.epoch - 1 => x.seq < w.last
    /\ \A m \in w.flight : m.epoch \in {w.epoch, w.epoch - 1}

\* No application data of an epoch goes up before the Finished of that epoch,
\* in whatever order they arrive.
DataAfterFinished == \A x \in up : x.type = "data" =>
    \E f \in up : f.type = "finished" /\ f.epoch = x.epoch

\* The two queues of the next epoch never hold more than one may: processing
\* them loses no record that was received in time.
QueuesFit == Cardinality(r.processed) + Cardinality(r.unprocessed) <= Limit

\* A handshake record kept for the epoch its queue waits for is handed up, never
\* forgotten, whatever damaged records were kept before and behind it.  (One kept
\* while the damaged ones of the epoch before still lie in the queue, whose epoch
\* then stays behind, is not: dtls1_process_buffered_records drops it with them.)
KeptIsHandedUp == [][\A x \in r.unprocessed \cup r.processed :
    x.type \in Handshake /\ x.good /\ (x \in r.unprocessed => x.epoch = r.unprocessedEpoch) =>
        x \in r'.unprocessed \cup r'.processed \/ Original(x) \in up']_vars

\* "insert should not fail, since duplicates are dropped", d1_pkt.c.
InsertNeverFails == ~refused

\* The record layer hands up each record once and numbers no two alike.
Once == INSTANCE DatagramOnce
RecordsAreDatagrams == Once!Spec

================================================================================
