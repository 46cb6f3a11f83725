------------------------------ MODULE DtlsHandshake ------------------------------
(* A DTLS handshake of a client and a server: the flights of dtls1_connect and  *)
(* dtls1_accept, the timers and retransmission buffers of d1_lib.c, and the     *)
(* reassembly of d1_both.c.  A record is lost, overtaken, or arrives once:      *)
(* DtlsRecords shows that the record layer sees to the last.  No client         *)
(* certificate, session ticket, renegotiation or DTLSv1_listen.                 *)
EXTENDS Integers, Sequences, FiniteSets, SequencesExt

CONSTANTS Modes,        \* of "full", "resumed", and "cookie": full, after a HelloVerifyRequest
          Long,         \* messages that do not fit the fallback MTU
          MaxAlerts,    \* DTLS1_TMO_ALERT_COUNT: 12
          ShrinkAfter,  \* timeouts after which the MTU falls back: 2
          MaxFaults     \* bound: losses, overtakings and early timeouts

ASSUME HandshakeAssumption ==
    /\ Modes \subseteq {"full", "resumed", "cookie"}
    /\ Long \subseteq {"ServerHello", "Certificate", "KeyExchange"}
    /\ MaxAlerts \in Nat /\ ShrinkAfter \in Nat /\ MaxFaults \in Nat

VARIABLES mode,       \* what the server chooses
          ends,       \* the SSL structs
          wire,       \* records on their way to each end
          faults,     \* how many of MaxFaults have happened
          verifyLost  \* was a HelloVerifyRequest lost?

vars == <<mode, ends, wire, faults, verifyLost>>

Ends == {"client", "server"}
Other(e) == IF e = "client" THEN "server" ELSE "client"

-----------------------------------------------------------------------------
(* The states of dtls1_connect and dtls1_accept that send or read.  `timer`:    *)
(* a sender starts the timer first, a reader stops it afterwards.               *)

Send(m, timer) == [do |-> "send", msg |-> m, timer |-> timer]
Recv(m, timer) == [do |-> "recv", msg |-> m, timer |-> timer]

\* dtls1_get_hello_verify looks at the message behind the ServerHello, whatever
\* it is, and the timer stops: from there on the server's timer must do.
Client ==
    [full |->
        << Send("ClientHello", TRUE), Recv("ServerHello", FALSE), Recv("Certificate", TRUE),
           Recv("ServerDone", TRUE), Send("KeyExchange", TRUE), Send("Ccs", TRUE),
           Send("Finished", TRUE), Recv("Finished", TRUE) >>,
     cookie |->
        << Send("ClientHello", TRUE), Recv("HelloVerify", TRUE), Send("ClientHello", TRUE),
           Recv("ServerHello", FALSE), Recv("Certificate", TRUE), Recv("ServerDone", TRUE),
           Send("KeyExchange", TRUE), Send("Ccs", TRUE), Send("Finished", TRUE),
           Recv("Finished", TRUE) >>,
     resumed |->
        << Send("ClientHello", TRUE), Recv("ServerHello", FALSE), Recv("Finished", TRUE),
           Send("Ccs", FALSE), Send("Finished", FALSE) >>]

Server ==
    [full |->
        << Recv("ClientHello", TRUE), Send("ServerHello", TRUE), Send("Certificate", TRUE),
           Send("ServerDone", TRUE), Recv("KeyExchange", FALSE), Recv("Finished", TRUE),
           Send("Ccs", FALSE), Send("Finished", FALSE) >>,
     cookie |->
        << Recv("ClientHello", TRUE), Send("HelloVerify", FALSE), Recv("ClientHello", TRUE),
           Send("ServerHello", TRUE), Send("Certificate", TRUE), Send("ServerDone", TRUE),
           Recv("KeyExchange", FALSE), Recv("Finished", TRUE),
           Send("Ccs", FALSE), Send("Finished", FALSE) >>,
     resumed |->
        << Recv("ClientHello", TRUE), Send("ServerHello", TRUE), Send("Ccs", FALSE),
           Send("Finished", FALSE), Recv("Finished", TRUE) >>]

Program(e) == IF e = "client" THEN Client[mode] ELSE Server[mode]

Running(e) == ends[e].fate = "running"
Ok(e) == ends[e].pc > Len(Program(e))
At(e, do) == Running(e) /\ ~Ok(e) /\ Program(e)[ends[e].pc].do = do

-----------------------------------------------------------------------------
(* Messages sent, and kept to be sent again *)

BugPriority(x) == x.seq * 2
Priority(x) == x.seq * 2 - (IF x.msg = "Ccs" THEN 1 ELSE 0)

\* dtls1_buffer_message: pqueue_insert refuses a second item of a priority.
Buffer(flight, x) ==
    IF \E y \in flight : Priority(y) = Priority(x) THEN flight ELSE flight \cup {x}

\* dtls1_do_write: part 0 is the whole message.
Fragments(x, split) ==
    {[msg |-> x.msg, seq |-> x.seq, epoch |-> x.epoch, part |-> k] :
        k \in IF split THEN {1, 2} ELSE {0}}

\* The one order in which a set of fragments goes out, that of the queue.
Before(f, g) == Priority(f) < Priority(g) \/ (Priority(f) = Priority(g) /\ f.part < g.part)
InOrder(fragments) ==
    {q \in [1 .. Cardinality(fragments) -> fragments] :
        \A i, j \in DOMAIN q : i < j => Before(q[i], q[j])}

\* dtls1_retransmit_buffered_messages: each message in the epoch it was first
\* sent in, and flushed before the next.
Retransmission(st) == UNION {Fragments(x, st.small /\ x.msg \in Long) : x \in st.flight}

\* dtls1_stop_timer
Stop(st) == [st EXCEPT !.timer = FALSE, !.alerts = 0, !.flight = {}]

\* dtls1_check_timeout_num
CountAlert(st) ==
    [st EXCEPT !.alerts = @ + 1,
               !.small = @ \/ st.alerts >= ShrinkAfter,
               !.fate = IF st.alerts >= MaxAlerts THEN "timeout" ELSE @]

\* The next state of the handshake; SSL_ST_OK starts the numbers afresh.
Advance(e, st) ==
    IF st.pc = Len(Program(e)) THEN [st EXCEPT !.pc = @ + 1, !.readSeq = 0, !.writeSeq = 0]
                               ELSE [st EXCEPT !.pc = @ + 1]

\* End e goes on as st, with `rest` left to read; nobody reads for a failed end.
Update(e, st, rest, fragments) ==
    /\ ends' = [ends EXCEPT ![e] = st]
    /\ \E out \in InOrder(fragments) :
          wire' = [wire EXCEPT ![e] = rest,
                               ![Other(e)] = IF Running(Other(e)) THEN @ \o out ELSE @]
    /\ UNCHANGED mode

-----------------------------------------------------------------------------
Init ==
    /\ mode \in Modes
    /\ ends = [e \in Ends |->
          [pc |-> 1, fate |-> "running", readSeq |-> 0, writeSeq |-> 0, readEpoch |-> 0,
           writeEpoch |-> 0, timer |-> FALSE, alerts |-> 0, small |-> FALSE,
           flight |-> {}, kept |-> <<>>, buffered |-> {}]]
    /\ wire = [e \in Ends |-> <<>>]
    /\ faults = 0
    /\ verifyLost = FALSE

\* ssl3_send_... and dtls1_do_write.  What the datagram holds already may leave
\* too little room for a long message.  A HelloVerifyRequest is not buffered,
\* and a ChangeCipherSpec has the number of the message behind it.
SendMessage(e) ==
    /\ At(e, "send")
    /\ LET st == ends[e]
           step == Program(e)[st.pc]
           x == [msg |-> step.msg, seq |-> st.writeSeq, epoch |-> st.writeEpoch]
           ccs == step.msg = "Ccs"
           next == [st EXCEPT !.timer = @ \/ step.timer,
                              !.flight = IF step.msg = "HelloVerify" THEN @ ELSE Buffer(@, x),
                              !.writeSeq = IF ccs THEN @ ELSE @ + 1,
                              !.writeEpoch = IF ccs THEN @ + 1 ELSE @]
       IN \E split \in BOOLEAN :
             /\ split => step.msg \in Long
             /\ st.small /\ step.msg \in Long => split
             /\ Update(e, Advance(e, next), wire[e], Fragments(x, split))
    /\ UNCHANGED <<faults, verifyLost>>

-----------------------------------------------------------------------------
(* Messages read *)

\* A whole message in its turn: dtls1_get_message, and the state that wants it.
\* ssl3_get_finished wants a ChangeCipherSpec first.
Accept(e, st, m) ==
    LET step == Program(e)[st.pc]
        next == Advance(e, [st EXCEPT !.readSeq = @ + 1])
    IN IF step.msg # m \/ (m = "Finished" /\ st.readEpoch = 0)
       THEN [st EXCEPT !.fate = "unexpected"]
       ELSE IF step.timer THEN Stop(next) ELSE next

Entries(st, seq) == {b \in st.buffered : b.seq = seq}
Complete(b) == b.parts = {1, 2}
Heads(st) == {b \in st.buffered : \A c \in st.buffered : b.seq <= c.seq}

BugRetrievable(st) == {b \in Heads(st) : Complete(b)}
\* dtls1_retrieve_buffered_fragment looks at the head of the queue only.
Retrievable(st) == {b \in Heads(st) : Complete(b) /\ b.seq = st.readSeq}

Retrieve(e) ==
    /\ At(e, "recv")
    /\ \E b \in Retrievable(ends[e]) :
          Update(e, Accept(e, [ends[e] EXCEPT !.buffered = @ \ {b}], b.msg), wire[e], {})
    /\ UNCHANGED <<faults, verifyLost>>

\* dtls1_reassemble_fragment
Reassembled(st, x) ==
    LET old == Entries(st, x.seq)
        parts == {x.part} \cup UNION {b.parts : b \in old}
    IN [st EXCEPT !.buffered = (@ \ old) \cup {[msg |-> x.msg, seq |-> x.seq, parts |-> parts]}]

\* dtls1_process_out_of_seq_message: a stale message, one too far ahead, one
\* that is there already, and a Finished before the ServerHello are dropped.
OutOfSeq(st, x) ==
    IF \/ x.seq <= st.readSeq \/ x.seq > st.readSeq + 10
       \/ x.part = 0 /\ Entries(st, x.seq) # {}
       \/ st.readSeq = 0 /\ x.msg = "Finished"
    THEN st
    ELSE IF x.part # 0 THEN Reassembled(st, x)
    ELSE [st EXCEPT !.buffered = @ \cup {[msg |-> x.msg, seq |-> x.seq, parts |-> {1, 2}]}]

\* dtls1_get_message_fragment: a whole message in its turn is read past the queue.
MessageRead(e, st, x) ==
    IF x.seq # st.readSeq THEN OutOfSeq(st, x)
    ELSE IF x.part # 0 THEN Reassembled(st, x)
    ELSE Accept(e, st, x.msg)

\* dtls1_get_record: a handshake record of the next epoch waits, if one is on.
OtherEpoch(e, st, x) ==
    IF x.epoch = st.readEpoch + 1 /\ x.msg # "Ccs" /\ ~Ok(e)
    THEN [st EXCEPT !.kept = Append(@, x)] ELSE st

\* A ChangeCipherSpec counts where Finished is awaited: change_cipher_spec_ok.
CcsRead(e, st) ==
    IF ~Ok(e) /\ Program(e)[st.pc].msg = "Finished"
    THEN [st EXCEPT !.readEpoch = @ + 1] ELSE st

\* dtls1_read_bytes after the handshake: a repeated Finished is answered with the
\* last flight; any other message would begin a renegotiation.
HandshakeWhenOk(e, st, x, rest) ==
    LET next == IF x.msg = "Finished" THEN CountAlert(st) ELSE [st EXCEPT !.fate = "unexpected"] IN
    Update(e, next, rest, IF next.fate = "running" THEN Retransmission(next) ELSE {})

Process(e, st, x, rest) ==
    \/ x.epoch # st.readEpoch /\ Update(e, OtherEpoch(e, st, x), rest, {})
    \/ x.epoch = st.readEpoch /\ x.msg = "Ccs" /\ Update(e, CcsRead(e, st), rest, {})
    \/ x.epoch = st.readEpoch /\ x.msg # "Ccs" /\ Ok(e) /\ HandshakeWhenOk(e, st, x, rest)
    \/ x.epoch = st.readEpoch /\ x.msg # "Ccs" /\ ~Ok(e)
          /\ Update(e, MessageRead(e, st, x), rest, {})

Reads(e) == Running(e) /\ (Ok(e) \/ (At(e, "recv") /\ Retrievable(ends[e]) = {}))
KeptReady(e) == ends[e].kept # <<>> /\ Head(ends[e].kept).epoch = ends[e].readEpoch

\* Records kept for this epoch come before the wire.
ReadKept(e) ==
    /\ Reads(e) /\ KeptReady(e)
    /\ Process(e, [ends[e] EXCEPT !.kept = Tail(@)], Head(ends[e].kept), wire[e])
    /\ UNCHANGED <<faults, verifyLost>>

ReadWire(e) ==
    /\ Reads(e) /\ ~KeptReady(e) /\ wire[e] # <<>>
    /\ Process(e, ends[e], Head(wire[e]), Tail(wire[e]))
    /\ UNCHANGED <<faults, verifyLost>>

-----------------------------------------------------------------------------
(* The network and the clock *)

Fault == faults < MaxFaults /\ faults' = faults + 1

\* The record at k overtakes those before it.
ReadOvertaking(e, k) ==
    /\ Reads(e) /\ ~KeptReady(e)
    /\ Process(e, ends[e], wire[e][k], RemoveAt(wire[e], k))
    /\ Fault /\ UNCHANGED verifyLost

Lose(e, k) ==
    /\ Running(e)
    /\ wire' = [wire EXCEPT ![e] = RemoveAt(@, k)]
    /\ verifyLost' = (verifyLost \/ wire[e][k].msg = "HelloVerify")
    /\ Fault /\ UNCHANGED <<mode, ends>>

BugTimeout(e) ==
    /\ At(e, "recv") /\ Retrievable(ends[e]) = {}
    /\ ends[e].timer
    /\ LET next == [CountAlert(ends[e]) EXCEPT !.timer = FALSE] IN
       Update(e, next, wire[e], IF next.fate = "running" THEN Retransmission(next) ELSE {})
    /\ UNCHANGED verifyLost

\* dtls1_handle_timeout, which a reading end comes by; the timer starts again.
Timeout(e) ==
    /\ At(e, "recv") /\ Retrievable(ends[e]) = {}
    /\ ends[e].timer
    /\ LET next == CountAlert(ends[e]) IN
       Update(e, next, wire[e], IF next.fate = "running" THEN Retransmission(next) ELSE {})
    /\ UNCHANGED verifyLost

\* Nothing will happen before a timeout.
Quiet == \A e \in Ends : Running(e) =>
            /\ ~At(e, "send") /\ wire[e] = <<>> /\ ~KeptReady(e)
            /\ At(e, "recv") => Retrievable(ends[e]) = {}

\* Timers double: of two, the one that has run out less often is the first.
First(e) == LET o == ends[Other(e)] IN
            Running(Other(e)) /\ o.timer => ends[e].alerts <= o.alerts
DueTimeout(e) == Quiet /\ First(e) /\ Timeout(e) /\ UNCHANGED faults
EarlyTimeout(e) == ~(Quiet /\ First(e)) /\ Timeout(e) /\ Fault

Proceed(e) == SendMessage(e) \/ Retrieve(e) \/ ReadKept(e) \/ ReadWire(e)

Next == \E e \in Ends :
    \/ Proceed(e) \/ DueTimeout(e) \/ EarlyTimeout(e)
    \/ \E k \in 1 .. Len(wire[e]) : Lose(e, k) \/ (k > 1 /\ ReadOvertaking(e, k))

Spec == Init /\ [][Next]_vars

\* An end that can go on does, and a timer that is all there is runs out.
FairSpec == /\ Spec
            /\ \A e \in Ends : WF_vars(Proceed(e)) /\ WF_vars(DueTimeout(e))

-----------------------------------------------------------------------------
\* Whatever is lost and overtaken, no end meets a message, or a Finished before
\* its ChangeCipherSpec, that makes it give up (dtls1_get_message,
\* ssl3_get_finished) or that it takes for a renegotiation (dtls1_read_bytes).
NeverUnexpected == \A e \in Ends : ends[e].fate # "unexpected"

\* When nothing moves and the handshake is not over, some timer runs whose end
\* has something to send again: the two never wait for each other.
SomebodyWakesUp ==
    Quiet /\ (\A e \in Ends : Running(e)) /\ (\E e \in Ends : ~Ok(e)) =>
        \E e \in Ends : ends[e].timer /\ ends[e].flight # {}

\* As many faults as MaxFaults are got over, but for the loss of a
\* HelloVerifyRequest: dtls1_send_hello_verify_request does not buffer it, and
\* the server takes the repeated ClientHello for a stale one.
HandshakeCompletes == <>(verifyLost \/ \A e \in Ends : Ok(e))

\* "check whether the desired fragment is available": a message that is there
\* is retrieved.  It is not when an older one, read past the queue, is its head.
DesiredIsFound ==
    \A e \in Ends : At(e, "recv") /\ (\E b \in Entries(ends[e], ends[e].readSeq) : Complete(b))
        => Retrievable(ends[e]) # {}
================================================================================
