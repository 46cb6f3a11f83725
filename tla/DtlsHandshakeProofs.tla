---------------------------- MODULE DtlsHandshakeProofs ----------------------------
(* DtlsHandshake: no end ever meets a message it does not expect, for every    *)
(* number of losses, overtakings and timeouts and every choice of the long     *)
(* messages.  Where an end is in its program fixes the numbers it reads and    *)
(* writes next, and a number fixes the message.                                *)
EXTENDS DtlsHandshake, FiniteSetTheorems, SequenceTheorems, TLAPS

AllModes == {"full", "cookie", "resumed"}
Kinds == {"ClientHello", "HelloVerify", "ServerHello", "Certificate", "ServerDone",
          "KeyExchange", "Ccs", "Finished"}
Msg(m, s, ep) == [msg |-> m, seq |-> s, epoch |-> ep]

\* What an end may send in a handshake.
SentBy(m, e) ==
    [client |->
        [full |-> {Msg("ClientHello", 0, 0), Msg("KeyExchange", 1, 0),
                  Msg("Ccs", 2, 0), Msg("Finished", 2, 1)},
         cookie |-> {Msg("ClientHello", 0, 0), Msg("ClientHello", 1, 0),
                    Msg("KeyExchange", 2, 0), Msg("Ccs", 3, 0),
                    Msg("Finished", 3, 1)},
         resumed |-> {Msg("ClientHello", 0, 0), Msg("Ccs", 1, 0),
                     Msg("Finished", 1, 1)}],
     server |->
        [full |-> {Msg("ServerHello", 0, 0), Msg("Certificate", 1, 0),
                  Msg("ServerDone", 2, 0), Msg("Ccs", 3, 0), Msg("Finished", 3, 1)},
         cookie |-> {Msg("HelloVerify", 0, 0), Msg("ServerHello", 1, 0),
                    Msg("Certificate", 2, 0), Msg("ServerDone", 3, 0),
                    Msg("Ccs", 4, 0), Msg("Finished", 4, 1)},
         resumed |-> {Msg("ServerHello", 0, 0), Msg("Ccs", 1, 0),
                     Msg("Finished", 1, 1)}]][e][m]

\* Before each step: messages read, messages written, the epoch written in.
Counts(m, e) ==
    [client |->
        [full |-> << <<0, 0, 0>>, <<0, 1, 0>>, <<1, 1, 0>>, <<2, 1, 0>>, <<3, 1, 0>>,
                    <<3, 2, 0>>, <<3, 2, 1>>, <<3, 3, 1>>, <<0, 0, 1>> >>,
         cookie |-> << <<0, 0, 0>>, <<0, 1, 0>>, <<1, 1, 0>>, <<1, 2, 0>>, <<2, 2, 0>>,
                      <<3, 2, 0>>, <<4, 2, 0>>, <<4, 3, 0>>, <<4, 3, 1>>, <<4, 4, 1>>,
                      <<0, 0, 1>> >>,
         resumed |-> << <<0, 0, 0>>, <<0, 1, 0>>, <<1, 1, 0>>, <<2, 1, 0>>,
                       <<2, 1, 1>>, <<0, 0, 1>> >>],
     server |->
        [full |-> << <<0, 0, 0>>, <<1, 0, 0>>, <<1, 1, 0>>, <<1, 2, 0>>, <<1, 3, 0>>,
                    <<2, 3, 0>>, <<3, 3, 0>>, <<3, 3, 1>>, <<0, 0, 1>> >>,
         cookie |-> << <<0, 0, 0>>, <<1, 0, 0>>, <<1, 1, 0>>, <<2, 1, 0>>, <<2, 2, 0>>,
                      <<2, 3, 0>>, <<2, 4, 0>>, <<3, 4, 0>>, <<4, 4, 0>>, <<4, 4, 1>>,
                      <<0, 0, 1>> >>,
         resumed |-> << <<0, 0, 0>>, <<1, 0, 0>>, <<1, 1, 0>>, <<1, 1, 1>>,
                       <<1, 2, 1>>, <<0, 0, 1>> >>]][e][m]

\* The step that reads Finished.
FinishedAt(m, e) ==
    [client |->
        [full |-> 8,
         cookie |-> 10,
         resumed |-> 3],
     server |->
        [full |-> 6,
         cookie |-> 8,
         resumed |-> 5]][e][m]

\* An end at step pc has read and written as much as the table says, and reads
\* the second epoch from the ChangeCipherSpec on.
Where(m, e, pc, rs, ws, re, we) ==
    /\ pc \in 1 .. Len(Counts(m, e))
    /\ Counts(m, e)[pc] = <<rs, ws, we>>
    /\ re \in {0, 1}
    /\ pc < FinishedAt(m, e) => re = 0
    /\ pc > FinishedAt(m, e) => re = 1

LEMMA SixCases ==
    ASSUME mode \in AllModes, NEW e \in Ends
    PROVE  \/ mode = "full" /\ e = "client"
           \/ mode = "full" /\ e = "server"
           \/ mode = "cookie" /\ e = "client"
           \/ mode = "cookie" /\ e = "server"
           \/ mode = "resumed" /\ e = "client"
           \/ mode = "resumed" /\ e = "server"
BY DEF AllModes, Ends

\* The table has a line for every step, and one for the state after them.
LEMMA TableLength ==
    ASSUME mode \in AllModes, NEW e \in Ends
    PROVE  /\ Len(Counts(mode, e)) = Len(Program(e)) + 1
           /\ Len(Program(e)) \in Nat \ {0}
           /\ FinishedAt(mode, e) \in 1 .. Len(Program(e))
<1>1. CASE mode = "full" /\ e = "client"
    BY <1>1 DEF Counts, Program, Client, Server, FinishedAt
<1>2. CASE mode = "full" /\ e = "server"
    BY <1>2 DEF Counts, Program, Client, Server, FinishedAt
<1>3. CASE mode = "cookie" /\ e = "client"
    BY <1>3 DEF Counts, Program, Client, Server, FinishedAt
<1>4. CASE mode = "cookie" /\ e = "server"
    BY <1>4 DEF Counts, Program, Client, Server, FinishedAt
<1>5. CASE mode = "resumed" /\ e = "client"
    BY <1>5 DEF Counts, Program, Client, Server, FinishedAt
<1>6. CASE mode = "resumed" /\ e = "server"
    BY <1>6 DEF Counts, Program, Client, Server, FinishedAt
<1> QED BY <1>1, <1>2, <1>3, <1>4, <1>5, <1>6, SixCases

\* What an end writes is in its table, and so is where it goes.
LEMMA SendFits ==
    ASSUME mode \in AllModes, NEW e \in Ends, NEW pc \in 1 .. Len(Program(e)),
           NEW rs, NEW ws, NEW re, NEW we, Where(mode, e, pc, rs, ws, re, we),
           Program(e)[pc].do = "send"
    PROVE  LET m == Program(e)[pc].msg
               ws2 == IF m = "Ccs" THEN ws ELSE ws + 1
               we2 == IF m = "Ccs" THEN we + 1 ELSE we
           IN /\ Msg(m, ws, we) \in SentBy(mode, e)
              /\ pc = Len(Program(e)) => Where(mode, e, pc + 1, 0, 0, re, we2)
              /\ pc # Len(Program(e)) => Where(mode, e, pc + 1, rs, ws2, re, we2)
<1>1. CASE mode = "full" /\ e = "client"
    BY <1>1 DEF Where, Counts, Program, Client, Server, FinishedAt, SentBy, Send, Recv
<1>2. CASE mode = "full" /\ e = "server"
    BY <1>2 DEF Where, Counts, Program, Client, Server, FinishedAt, SentBy, Send, Recv
<1>3. CASE mode = "cookie" /\ e = "client"
    BY <1>3 DEF Where, Counts, Program, Client, Server, FinishedAt, SentBy, Send, Recv
<1>4. CASE mode = "cookie" /\ e = "server"
    BY <1>4 DEF Where, Counts, Program, Client, Server, FinishedAt, SentBy, Send, Recv
<1>5. CASE mode = "resumed" /\ e = "client"
    BY <1>5 DEF Where, Counts, Program, Client, Server, FinishedAt, SentBy, Send, Recv
<1>6. CASE mode = "resumed" /\ e = "server"
    BY <1>6 DEF Where, Counts, Program, Client, Server, FinishedAt, SentBy, Send, Recv
<1> QED BY <1>1, <1>2, <1>3, <1>4, <1>5, <1>6, SixCases

\* The message with the number that is next to be read is the one awaited.
LEMMA RecvFits ==
    ASSUME mode \in AllModes, NEW e \in Ends, NEW pc \in 1 .. Len(Program(e)),
           NEW rs, NEW ws, NEW re, NEW we, Where(mode, e, pc, rs, ws, re, we),
           Program(e)[pc].do = "recv",
           NEW x \in SentBy(mode, Other(e)), x.seq = rs, x.msg # "Ccs",
           x.msg = "Finished" => re = 1
    PROVE  /\ Program(e)[pc].msg = x.msg
           /\ pc = Len(Program(e)) => Where(mode, e, pc + 1, 0, 0, re, we)
           /\ pc # Len(Program(e)) => Where(mode, e, pc + 1, rs + 1, ws, re, we)
<1>1. CASE mode = "full" /\ e = "client"
    <2>1. <<x.msg, x.seq>> \in
            {<<"ServerHello", 0>>, <<"Certificate", 1>>, <<"ServerDone", 2>>,
             <<"Finished", 3>>}
        BY <1>1 DEF SentBy, Msg, Other
    <2>2. \/ pc = 2 /\ rs = 0
          \/ pc = 3 /\ rs = 1
          \/ pc = 4 /\ rs = 2
          \/ pc = 8 /\ rs = 3
        BY <1>1 DEF Where, Counts, Program, Client, Server, Send, Recv
    <2>3. Program(e)[pc].msg = x.msg
        BY <1>1, <2>1, <2>2 DEF Program, Client, Recv
    <2>4. pc = FinishedAt(mode, e) => re = 1
        BY <1>1, <2>1, <2>2 DEF FinishedAt
    <2> QED BY <1>1, <2>2, <2>3, <2>4 DEF Where, Counts, Program, Client, FinishedAt, Send, Recv
<1>2. CASE mode = "full" /\ e = "server"
    <2>1. <<x.msg, x.seq>> \in
            {<<"ClientHello", 0>>, <<"KeyExchange", 1>>, <<"Finished", 2>>}
        BY <1>2 DEF SentBy, Msg, Other
    <2> QED BY <1>2, <2>1 DEF Where, Counts, Program, Client, Server, FinishedAt, Send, Recv
<1>3. CASE mode = "cookie" /\ e = "client"
    <2>1. <<x.msg, x.seq>> \in
            {<<"HelloVerify", 0>>, <<"ServerHello", 1>>, <<"Certificate", 2>>,
             <<"ServerDone", 3>>, <<"Finished", 4>>}
        BY <1>3 DEF SentBy, Msg, Other
    <2>2. \/ pc = 2 /\ rs = 0
          \/ pc = 4 /\ rs = 1
          \/ pc = 5 /\ rs = 2
          \/ pc = 6 /\ rs = 3
          \/ pc = 10 /\ rs = 4
        BY <1>3 DEF Where, Counts, Program, Client, Server, Send, Recv
    <2>3. Program(e)[pc].msg = x.msg
        BY <1>3, <2>1, <2>2 DEF Program, Client, Recv
    <2>4. pc = FinishedAt(mode, e) => re = 1
        BY <1>3, <2>1, <2>2 DEF FinishedAt
    <2> QED BY <1>3, <2>2, <2>3, <2>4 DEF Where, Counts, Program, Client, FinishedAt, Send, Recv
<1>4. CASE mode = "cookie" /\ e = "server"
    <2>1. <<x.msg, x.seq>> \in
            {<<"ClientHello", 0>>, <<"ClientHello", 1>>, <<"KeyExchange", 2>>,
             <<"Finished", 3>>}
        BY <1>4 DEF SentBy, Msg, Other
    <2> QED BY <1>4, <2>1 DEF Where, Counts, Program, Client, Server, FinishedAt, Send, Recv
<1>5. CASE mode = "resumed" /\ e = "client"
    <2>1. <<x.msg, x.seq>> \in
            {<<"ServerHello", 0>>, <<"Finished", 1>>}
        BY <1>5 DEF SentBy, Msg, Other
    <2> QED BY <1>5, <2>1 DEF Where, Counts, Program, Client, Server, FinishedAt, Send, Recv
<1>6. CASE mode = "resumed" /\ e = "server"
    <2>1. <<x.msg, x.seq>> \in
            {<<"ClientHello", 0>>, <<"Finished", 1>>}
        BY <1>6 DEF SentBy, Msg, Other
    <2> QED BY <1>6, <2>1 DEF Where, Counts, Program, Client, Server, FinishedAt, Send, Recv
<1> QED BY <1>1, <1>2, <1>3, <1>4, <1>5, <1>6, SixCases

\* The ChangeCipherSpec that is read where Finished is awaited is the first.
LEMMA CcsFits ==
    ASSUME mode \in AllModes, NEW e \in Ends, NEW pc \in 1 .. Len(Program(e)),
           NEW rs, NEW ws, NEW re, NEW we, Where(mode, e, pc, rs, ws, re, we),
           Program(e)[pc].do = "recv", Program(e)[pc].msg = "Finished", re = 0
    PROVE  Where(mode, e, pc, rs, ws, 1, we)
<1>1. CASE mode = "full" /\ e = "client"
    BY <1>1 DEF Where, Counts, Program, Client, Server, FinishedAt, Send, Recv
<1>2. CASE mode = "full" /\ e = "server"
    BY <1>2 DEF Where, Counts, Program, Client, Server, FinishedAt, Send, Recv
<1>3. CASE mode = "cookie" /\ e = "client"
    BY <1>3 DEF Where, Counts, Program, Client, Server, FinishedAt, Send, Recv
<1>4. CASE mode = "cookie" /\ e = "server"
    BY <1>4 DEF Where, Counts, Program, Client, Server, FinishedAt, Send, Recv
<1>5. CASE mode = "resumed" /\ e = "client"
    BY <1>5 DEF Where, Counts, Program, Client, Server, FinishedAt, Send, Recv
<1>6. CASE mode = "resumed" /\ e = "server"
    BY <1>6 DEF Where, Counts, Program, Client, Server, FinishedAt, Send, Recv
<1> QED BY <1>1, <1>2, <1>3, <1>4, <1>5, <1>6, SixCases

\* What the other end may send: its epoch tells ChangeCipherSpec and Finished.
LEMMA SentShape ==
    ASSUME mode \in AllModes, NEW e \in Ends, NEW x \in SentBy(mode, e)
    PROVE  /\ x = Msg(x.msg, x.seq, x.epoch)
           /\ x.msg \in Kinds /\ x.seq \in Nat /\ x.epoch \in {0, 1}
           /\ x.msg = "Finished" <=> x.epoch = 1
<1>1. CASE mode = "full" /\ e = "client"
    BY <1>1 DEF SentBy, Msg, Kinds
<1>2. CASE mode = "full" /\ e = "server"
    BY <1>2 DEF SentBy, Msg, Kinds
<1>3. CASE mode = "cookie" /\ e = "client"
    BY <1>3 DEF SentBy, Msg, Kinds
<1>4. CASE mode = "cookie" /\ e = "server"
    BY <1>4 DEF SentBy, Msg, Kinds
<1>5. CASE mode = "resumed" /\ e = "client"
    BY <1>5 DEF SentBy, Msg, Kinds
<1>6. CASE mode = "resumed" /\ e = "server"
    BY <1>6 DEF SentBy, Msg, Kinds
<1> QED BY <1>1, <1>2, <1>3, <1>4, <1>5, <1>6, SixCases

LEMMA SixAreFinite ==
    ASSUME NEW S, NEW a, NEW b, NEW c, NEW d, NEW f, NEW g, S = {a, b, c, d, f, g}
    PROVE  IsFiniteSet(S)
<1>1. IsFiniteSet({a} \cup {b})  BY FS_Singleton, FS_AddElement
<1>2. IsFiniteSet(({a} \cup {b}) \cup {c})  BY <1>1, FS_AddElement
<1>3. IsFiniteSet((({a} \cup {b}) \cup {c}) \cup {d})  BY <1>2, FS_AddElement
<1>4. IsFiniteSet(((({a} \cup {b}) \cup {c}) \cup {d}) \cup {f})  BY <1>3, FS_AddElement
<1>5. IsFiniteSet((((({a} \cup {b}) \cup {c}) \cup {d}) \cup {f}) \cup {g})
    BY <1>4, FS_AddElement
<1>6. S = (((({a} \cup {b}) \cup {c}) \cup {d}) \cup {f}) \cup {g}
    OBVIOUS
<1> QED BY <1>5, <1>6

LEMMA SentFinite ==
    ASSUME mode \in AllModes, NEW e \in Ends
    PROVE  IsFiniteSet(SentBy(mode, e))
<1>1. CASE mode = "full" /\ e = "client"
    <2>1. SentBy(mode, e) =
            {Msg("ClientHello", 0, 0), Msg("KeyExchange", 1, 0), Msg("Ccs", 2, 0),
             Msg("Finished", 2, 1), Msg("Finished", 2, 1), Msg("Finished", 2, 1)}
        BY <1>1 DEF SentBy
    <2> QED BY <2>1, SixAreFinite
<1>2. CASE mode = "full" /\ e = "server"
    <2>1. SentBy(mode, e) =
            {Msg("ServerHello", 0, 0), Msg("Certificate", 1, 0),
             Msg("ServerDone", 2, 0), Msg("Ccs", 3, 0), Msg("Finished", 3, 1),
             Msg("Finished", 3, 1)}
        BY <1>2 DEF SentBy
    <2> QED BY <2>1, SixAreFinite
<1>3. CASE mode = "cookie" /\ e = "client"
    <2>1. SentBy(mode, e) =
            {Msg("ClientHello", 0, 0), Msg("ClientHello", 1, 0),
             Msg("KeyExchange", 2, 0), Msg("Ccs", 3, 0), Msg("Finished", 3, 1),
             Msg("Finished", 3, 1)}
        BY <1>3 DEF SentBy
    <2> QED BY <2>1, SixAreFinite
<1>4. CASE mode = "cookie" /\ e = "server"
    <2>1. SentBy(mode, e) =
            {Msg("HelloVerify", 0, 0), Msg("ServerHello", 1, 0),
             Msg("Certificate", 2, 0), Msg("ServerDone", 3, 0), Msg("Ccs", 4, 0),
             Msg("Finished", 4, 1)}
        BY <1>4 DEF SentBy
    <2> QED BY <2>1, SixAreFinite
<1>5. CASE mode = "resumed" /\ e = "client"
    <2>1. SentBy(mode, e) =
            {Msg("ClientHello", 0, 0), Msg("Ccs", 1, 0), Msg("Finished", 1, 1),
             Msg("Finished", 1, 1), Msg("Finished", 1, 1), Msg("Finished", 1, 1)}
        BY <1>5 DEF SentBy
    <2> QED BY <2>1, SixAreFinite
<1>6. CASE mode = "resumed" /\ e = "server"
    <2>1. SentBy(mode, e) =
            {Msg("ServerHello", 0, 0), Msg("Ccs", 1, 0), Msg("Finished", 1, 1),
             Msg("Finished", 1, 1), Msg("Finished", 1, 1), Msg("Finished", 1, 1)}
        BY <1>6 DEF SentBy
    <2> QED BY <2>1, SixAreFinite
<1> QED BY <1>1, <1>2, <1>3, <1>4, <1>5, <1>6, SixCases

-----------------------------------------------------------------------------
(* The inductive invariant *)

Parts == {0, 1, 2}
Piece(x, k) == [msg |-> x.msg, seq |-> x.seq, epoch |-> x.epoch, part |-> k]
Pieces(m, e) == {Piece(x, k) : x \in SentBy(m, e), k \in Parts}

\* A message of the other end that is not taken for a record of another kind.
Known(m, e, re, msg, seq) ==
    /\ msg # "Ccs"
    /\ msg = "Finished" => re = 1
    /\ \E x \in SentBy(m, Other(e)) : x.msg = msg /\ x.seq = seq

EndType(m, e) ==
    [pc : Nat, fate : {"running", "timeout", "unexpected"}, readSeq : Nat, writeSeq : Nat,
     readEpoch : Nat, writeEpoch : Nat, timer : BOOLEAN, alerts : Nat, small : BOOLEAN,
     flight : SUBSET SentBy(m, e), kept : Seq(Pieces(m, Other(e))),
     buffered : SUBSET [msg : Kinds, seq : Nat, parts : SUBSET Parts]]

EndInv(m, e, st) ==
    /\ st \in EndType(m, e)
    /\ Where(m, e, st.pc, st.readSeq, st.writeSeq, st.readEpoch, st.writeEpoch)
    /\ \A b \in st.buffered : Known(m, e, st.readEpoch, b.msg, b.seq)
    /\ st.fate # "unexpected"

IInv ==
    /\ mode \in AllModes
    /\ ends = [e \in Ends |-> ends[e]] /\ wire = [e \in Ends |-> wire[e]]
    /\ \A e \in Ends : EndInv(mode, e, ends[e]) /\ wire[e] \in Seq(Pieces(mode, Other(e)))

LEMMA OtherEnd == \A e \in Ends : Other(e) \in Ends /\ Other(e) # e /\ Other(Other(e)) = e
BY DEF Ends, Other

LEMMA PiecesFinite ==
    ASSUME mode \in AllModes, NEW e \in Ends
    PROVE  IsFiniteSet(Pieces(mode, e))
<1> DEFINE S == SentBy(mode, e)
           Part(k) == {Piece(x, k) : x \in S}
           f(k) == [x \in S |-> Piece(x, k)]
<1>1. IsFiniteSet(S)  BY SentFinite
<1>2. ASSUME NEW k \in Parts PROVE IsFiniteSet(Part(k))
    <2>1. f(k) \in Surjection(S, Part(k))
        <3>1. f(k) \in [S -> Part(k)]  OBVIOUS
        <3>2. \A t \in Part(k) : \E x \in S : f(k)[x] = t  OBVIOUS
        <3> QED BY <3>1, <3>2 DEF Surjection
    <2> QED BY <1>1, <2>1, FS_Surjection
<1>3. Pieces(mode, e) = (Part(0) \cup Part(1)) \cup Part(2)
    BY DEF Pieces, Parts
<1> HIDE DEF Part
<1>4. IsFiniteSet(Part(0) \cup Part(1))  BY <1>2, FS_Union DEF Parts
<1>5. IsFiniteSet((Part(0) \cup Part(1)) \cup Part(2))  BY <1>2, <1>4, FS_Union DEF Parts
<1> QED BY <1>3, <1>5

\* What goes out in order is a sequence of what an end may send.
LEMMA InOrderIsSeq ==
    ASSUME mode \in AllModes, NEW e \in Ends, NEW F \in SUBSET Pieces(mode, e),
           NEW out \in InOrder(F)
    PROVE  out \in Seq(Pieces(mode, e))
<1>1. IsFiniteSet(F)  BY PiecesFinite, FS_Subset
<1>2. Cardinality(F) \in Nat  BY <1>1, FS_CardinalityType
<1>3. out \in [1 .. Cardinality(F) -> F]  BY DEF InOrder
<1> QED BY <1>2, <1>3

LEMMA FragmentsArePieces ==
    ASSUME NEW e, NEW x \in SentBy(mode, e), NEW split
    PROVE  Fragments(x, split) \subseteq Pieces(mode, e)
BY DEF Fragments, Pieces, Piece, Parts

LEMMA RetransmissionIsPieces ==
    ASSUME NEW e, NEW st, st.flight \subseteq SentBy(mode, e)
    PROVE  Retransmission(st) \subseteq Pieces(mode, e)
<1> SUFFICES ASSUME NEW p \in Retransmission(st) PROVE p \in Pieces(mode, e)
    OBVIOUS
<1>1. PICK x \in st.flight : p \in Fragments(x, st.small /\ x.msg \in Long)
    BY DEF Retransmission
<1> QED BY <1>1, FragmentsArePieces

LEMMA PieceShape ==
    ASSUME mode \in AllModes, NEW e \in Ends, NEW p \in Pieces(mode, e)
    PROVE  /\ p.msg \in Kinds /\ p.seq \in Nat /\ p.epoch \in {0, 1} /\ p.part \in Parts
           /\ p.msg = "Finished" <=> p.epoch = 1
           /\ \E x \in SentBy(mode, e) : x.msg = p.msg /\ x.seq = p.seq
<1>1. PICK x \in SentBy(mode, e), k \in Parts : p = Piece(x, k)  BY DEF Pieces
<1>2. p.msg = x.msg /\ p.seq = x.seq /\ p.epoch = x.epoch /\ p.part = k
    BY <1>1 DEF Piece
<1> QED BY <1>2, SentShape

LEMMA RemoveAtIsSeq ==
    ASSUME NEW S, NEW s \in Seq(S), NEW k \in 1 .. Len(s)
    PROVE  RemoveAt(s, k) \in Seq(S) /\ s[k] \in S
<1>1. SubSeq(s, 1, k - 1) \in Seq(S)
    <2>1. \A i \in 1 .. k - 1 : s[i] \in S  OBVIOUS
    <2> QED BY <2>1, SubSeqProperties
<1>2. SubSeq(s, k + 1, Len(s)) \in Seq(S)
    <2>1. \A i \in k + 1 .. Len(s) : s[i] \in S  OBVIOUS
    <2>2. Len(s) \in Int /\ k + 1 \in Int  OBVIOUS
    <2> QED BY <2>1, <2>2, SubSeqProperties
<1>3. SubSeq(s, 1, k - 1) \o SubSeq(s, k + 1, Len(s)) \in Seq(S)
    BY <1>1, <1>2, ConcatProperties
<1> QED BY <1>3 DEF RemoveAt

\* Whatever an end goes on as keeps the invariant if the end does.
LEMMA UpdateKeeps ==
    ASSUME IInv, NEW e \in Ends, NEW st, EndInv(mode, e, st),
           NEW rest \in Seq(Pieces(mode, Other(e))), NEW F \in SUBSET Pieces(mode, e),
           Update(e, st, rest, F)
    PROVE  IInv'
<1>1. mode' = mode /\ mode \in AllModes  BY DEF IInv, Update
<1>2. ends' = [ends EXCEPT ![e] = st]  BY DEF Update
<1>3. PICK out \in InOrder(F) :
         wire' = [wire EXCEPT ![e] = rest,
                              ![Other(e)] = IF Running(Other(e)) THEN @ \o out ELSE @]
    BY DEF Update
<1>4. out \in Seq(Pieces(mode, e))  BY <1>1, InOrderIsSeq
<1>5. wire[Other(e)] \in Seq(Pieces(mode, e))  BY OtherEnd DEF IInv
<1>6. wire[Other(e)] \o out \in Seq(Pieces(mode, e))  BY <1>4, <1>5, ConcatProperties
<1>7. DOMAIN ends = Ends /\ DOMAIN wire = Ends  BY DEF IInv
<1>8. wire'[e] = rest /\ wire'[Other(e)] \in Seq(Pieces(mode, e))
    BY <1>3, <1>5, <1>6, <1>7, OtherEnd
<1>9. ASSUME NEW d \in Ends PROVE EndInv(mode', d, ends'[d])
    BY <1>1, <1>2, <1>7 DEF IInv
<1>10. ASSUME NEW d \in Ends PROVE wire'[d] \in Seq(Pieces(mode', Other(d)))
    <2>1. d = e \/ d = Other(e)  BY DEF Ends, Other
    <2> QED BY <1>1, <1>8, <2>1, OtherEnd
<1>11. ends' = [d \in Ends |-> ends'[d]] /\ wire' = [d \in Ends |-> wire'[d]]
    BY <1>2, <1>3, <1>7
<1> QED BY <1>1, <1>9, <1>10, <1>11 DEF IInv

-----------------------------------------------------------------------------
(* What a step makes of an end *)

\* The next state, with the numbers of a new handshake after the last one.
LEMMA AdvanceShape ==
    ASSUME NEW e \in Ends, NEW st \in EndType(mode, e)
    PROVE  LET next == Advance(e, st) IN
           /\ next \in EndType(mode, e)
           /\ next.fate = st.fate /\ next.buffered = st.buffered
           /\ next.readEpoch = st.readEpoch /\ next.writeEpoch = st.writeEpoch
           /\ next.pc = st.pc + 1
           /\ st.pc = Len(Program(e)) => next.readSeq = 0 /\ next.writeSeq = 0
           /\ st.pc # Len(Program(e)) =>
                 next.readSeq = st.readSeq /\ next.writeSeq = st.writeSeq
<1>1. CASE st.pc = Len(Program(e))
    <2> DEFINE a == [st EXCEPT !.pc = st.pc + 1]
               b == [a EXCEPT !.readSeq = 0]
    <2>1. Advance(e, st) = [b EXCEPT !.writeSeq = 0]
        BY <1>1 DEF Advance, EndType
    <2>2. a \in EndType(mode, e) /\ a.pc = st.pc + 1 /\ a.fate = st.fate
          /\ a.buffered = st.buffered /\ a.readEpoch = st.readEpoch
          /\ a.writeEpoch = st.writeEpoch
        BY DEF EndType
    <2>3. b \in EndType(mode, e) /\ b.readSeq = 0 /\ b.pc = a.pc /\ b.fate = a.fate
          /\ b.buffered = a.buffered /\ b.readEpoch = a.readEpoch
          /\ b.writeEpoch = a.writeEpoch
        <3> HIDE DEF a
        <3> QED BY <2>2 DEF EndType
    <2>4. PICK c : c = [b EXCEPT !.writeSeq = 0]  OBVIOUS
    <2>5. c \in EndType(mode, e) /\ c.writeSeq = 0 /\ c.readSeq = 0 /\ c.pc = b.pc
          /\ c.fate = b.fate /\ c.buffered = b.buffered /\ c.readEpoch = b.readEpoch
          /\ c.writeEpoch = b.writeEpoch
        <3> HIDE DEF b
        <3> QED BY <2>3, <2>4 DEF EndType
    <2> HIDE DEF a, b
    <2> QED BY <1>1, <2>1, <2>2, <2>3, <2>4, <2>5
<1>2. CASE st.pc # Len(Program(e))
    <2>1. Advance(e, st) = [st EXCEPT !.pc = st.pc + 1]  BY <1>2 DEF Advance, EndType
    <2> QED BY <1>2, <2>1 DEF EndType
<1> QED BY <1>1, <1>2

\* Reading: the number goes up with the step, or both start afresh.
LEMMA AcceptKeeps ==
    ASSUME mode \in AllModes, NEW e \in Ends, NEW st, EndInv(mode, e, st),
           st.pc \in 1 .. Len(Program(e)), Program(e)[st.pc].do = "recv",
           NEW m, Known(mode, e, st.readEpoch, m, st.readSeq)
    PROVE  EndInv(mode, e, Accept(e, st, m))
<1> DEFINE read == [st EXCEPT !.readSeq = @ + 1]
           next == Advance(e, read)
<1>1. st \in EndType(mode, e)  BY DEF EndInv
<1>2. PICK x \in SentBy(mode, Other(e)) : x.msg = m /\ x.seq = st.readSeq
    BY DEF Known
<1>3. /\ Program(e)[st.pc].msg = m
      /\ st.pc = Len(Program(e)) => Where(mode, e, st.pc + 1, 0, 0, st.readEpoch, st.writeEpoch)
      /\ st.pc # Len(Program(e)) =>
            Where(mode, e, st.pc + 1, st.readSeq + 1, st.writeSeq, st.readEpoch, st.writeEpoch)
    <2>1. Where(mode, e, st.pc, st.readSeq, st.writeSeq, st.readEpoch, st.writeEpoch)
        BY DEF EndInv
    <2>2. x.msg # "Ccs" /\ (x.msg = "Finished" => st.readEpoch = 1)  BY <1>2 DEF Known
    <2> HIDE DEF read, next
    <2> QED BY <1>2, <2>1, <2>2, RecvFits
<1>4. m = "Finished" => st.readEpoch # 0  BY DEF Known
<1>5. /\ next \in EndType(mode, e)
      /\ next.fate = st.fate /\ next.buffered = st.buffered
      /\ next.readEpoch = st.readEpoch /\ next.writeEpoch = st.writeEpoch
      /\ next.pc = st.pc + 1
      /\ st.pc = Len(Program(e)) => next.readSeq = 0 /\ next.writeSeq = 0
      /\ st.pc # Len(Program(e)) =>
            next.readSeq = st.readSeq + 1 /\ next.writeSeq = st.writeSeq
    <2>1. /\ read \in EndType(mode, e)
          /\ read.fate = st.fate /\ read.buffered = st.buffered
          /\ read.readEpoch = st.readEpoch /\ read.writeEpoch = st.writeEpoch
          /\ read.pc = st.pc /\ read.readSeq = st.readSeq + 1 /\ read.writeSeq = st.writeSeq
        BY <1>1 DEF EndType
    <2> HIDE DEF read
    <2> QED BY <2>1, AdvanceShape
<1>6. EndInv(mode, e, next)
    <2>1. Where(mode, e, next.pc, next.readSeq, next.writeSeq, next.readEpoch, next.writeEpoch)
        BY <1>3, <1>5
    <2> QED BY <1>5, <2>1 DEF EndInv
<1> HIDE DEF next
<1>7. EndInv(mode, e, Stop(next))
    <2>1. next \in EndType(mode, e)  BY <1>6 DEF EndInv
    <2>2. /\ Stop(next) \in EndType(mode, e)
          /\ Stop(next).pc = next.pc /\ Stop(next).fate = next.fate
          /\ Stop(next).readSeq = next.readSeq /\ Stop(next).writeSeq = next.writeSeq
          /\ Stop(next).readEpoch = next.readEpoch /\ Stop(next).writeEpoch = next.writeEpoch
          /\ Stop(next).buffered = next.buffered
        BY <2>1 DEF Stop, EndType
    <2> QED BY <1>6, <2>2 DEF EndInv
<1>8. Accept(e, st, m) = next \/ Accept(e, st, m) = Stop(next)
    BY <1>3, <1>4 DEF Accept, next
<1> QED BY <1>6, <1>7, <1>8

\* A message that is put together, or whole, waits under its number.
LEMMA BufferedKeeps ==
    ASSUME NEW e, NEW st, EndInv(mode, e, st), NEW B,
           B \subseteq [msg : Kinds, seq : Nat, parts : SUBSET Parts],
           \A b \in B : Known(mode, e, st.readEpoch, b.msg, b.seq)
    PROVE  EndInv(mode, e, [st EXCEPT !.buffered = B])
BY DEF EndInv, EndType

LEMMA ReassembledKeeps ==
    ASSUME NEW e, NEW st, EndInv(mode, e, st), NEW x, x.msg \in Kinds, x.seq \in Nat,
           x.part \in Parts, Known(mode, e, st.readEpoch, x.msg, x.seq)
    PROVE  EndInv(mode, e, Reassembled(st, x))
<1> DEFINE old == Entries(st, x.seq)
           parts == {x.part} \cup UNION {b.parts : b \in old}
           new == [msg |-> x.msg, seq |-> x.seq, parts |-> parts]
           B == (st.buffered \ old) \cup {new}
<1>1. st.buffered \subseteq [msg : Kinds, seq : Nat, parts : SUBSET Parts]
    BY DEF EndInv, EndType
<1>2. parts \subseteq Parts
    <2>1. \A b \in old : b.parts \subseteq Parts  BY <1>1 DEF Entries
    <2> QED BY <2>1
<1>3. new \in [msg : Kinds, seq : Nat, parts : SUBSET Parts]  BY <1>2
<1>4. B \subseteq [msg : Kinds, seq : Nat, parts : SUBSET Parts]  BY <1>1, <1>3
<1>5. \A b \in B : Known(mode, e, st.readEpoch, b.msg, b.seq)
    <2>1. new.msg = x.msg /\ new.seq = x.seq  OBVIOUS
    <2> HIDE DEF new, old
    <2> QED BY <2>1 DEF EndInv
<1>6. Reassembled(st, x) = [st EXCEPT !.buffered = B]  BY DEF Reassembled
<1> HIDE DEF B
<1> QED BY <1>4, <1>5, <1>6, BufferedKeeps

LEMMA OutOfSeqKeeps ==
    ASSUME NEW e, NEW st, EndInv(mode, e, st), NEW x, x.msg \in Kinds, x.seq \in Nat,
           x.part \in Parts, Known(mode, e, st.readEpoch, x.msg, x.seq)
    PROVE  EndInv(mode, e, OutOfSeq(st, x))
<1> DEFINE new == [msg |-> x.msg, seq |-> x.seq, parts |-> {1, 2}]
           B == st.buffered \cup {new}
<1>1. EndInv(mode, e, Reassembled(st, x))  BY ReassembledKeeps
<1>2. B \subseteq [msg : Kinds, seq : Nat, parts : SUBSET Parts]
    BY DEF EndInv, EndType, Parts
<1>3. \A b \in B : Known(mode, e, st.readEpoch, b.msg, b.seq)
    BY DEF EndInv
<1>4. EndInv(mode, e, [st EXCEPT !.buffered = B])
    <2> HIDE DEF B
    <2> QED BY <1>2, <1>3, BufferedKeeps
<1>5. \/ OutOfSeq(st, x) = st
      \/ OutOfSeq(st, x) = Reassembled(st, x)
      \/ OutOfSeq(st, x) = [st EXCEPT !.buffered = B]
    BY DEF OutOfSeq
<1> QED BY <1>1, <1>4, <1>5

LEMMA MessageReadKeeps ==
    ASSUME mode \in AllModes, NEW e \in Ends, NEW st, EndInv(mode, e, st),
           st.pc \in 1 .. Len(Program(e)), Program(e)[st.pc].do = "recv",
           NEW x, x.msg \in Kinds, x.seq \in Nat, x.part \in Parts,
           Known(mode, e, st.readEpoch, x.msg, x.seq)
    PROVE  EndInv(mode, e, MessageRead(e, st, x))
<1>1. CASE x.seq # st.readSeq
    BY <1>1, OutOfSeqKeeps DEF MessageRead
<1>2. CASE x.seq = st.readSeq /\ x.part # 0
    BY <1>2, ReassembledKeeps DEF MessageRead
<1>3. CASE x.seq = st.readSeq /\ x.part = 0
    <2>1. EndInv(mode, e, Accept(e, st, x.msg))  BY <1>3, AcceptKeeps
    <2> QED BY <1>3, <2>1 DEF MessageRead
<1> QED BY <1>1, <1>2, <1>3

LEMMA OtherEpochKeeps ==
    ASSUME NEW e, NEW st, EndInv(mode, e, st), NEW x \in Pieces(mode, Other(e))
    PROVE  EndInv(mode, e, OtherEpoch(e, st, x))
<1>1. st \in EndType(mode, e) /\ st.kept \in Seq(Pieces(mode, Other(e)))
    BY DEF EndInv, EndType
<1>2. Append(st.kept, x) \in Seq(Pieces(mode, Other(e)))  BY <1>1
<1>3. EndInv(mode, e, [st EXCEPT !.kept = Append(st.kept, x)])
    BY <1>1, <1>2 DEF EndInv, EndType
<1> QED BY <1>1, <1>3 DEF OtherEpoch, EndType

\* A ChangeCipherSpec that counts opens the second epoch.
LEMMA CcsReadKeeps ==
    ASSUME mode \in AllModes, NEW e \in Ends, NEW st, EndInv(mode, e, st), ends[e].pc = st.pc,
           ~Ok(e) => st.pc \in 1 .. Len(Program(e)) /\ Program(e)[st.pc].do = "recv",
           st.readEpoch = 0
    PROVE  EndInv(mode, e, CcsRead(e, st))
<1> DEFINE next == [st EXCEPT !.readEpoch = @ + 1]
<1>1. CASE ~Ok(e) /\ Program(e)[st.pc].msg = "Finished"
    <2>1. Where(mode, e, st.pc, st.readSeq, st.writeSeq, 1, st.writeEpoch)
        BY <1>1, CcsFits DEF EndInv
    <2>2. st \in EndType(mode, e)  BY DEF EndInv
    <2>3. /\ next \in EndType(mode, e)
          /\ next.pc = st.pc /\ next.fate = st.fate /\ next.buffered = st.buffered
          /\ next.readSeq = st.readSeq /\ next.writeSeq = st.writeSeq
          /\ next.readEpoch = 1 /\ next.writeEpoch = st.writeEpoch
        BY <2>2 DEF EndType
    <2>4. \A b \in st.buffered : Known(mode, e, 1, b.msg, b.seq)
        BY DEF EndInv, Known
    <2>5. EndInv(mode, e, next)
        <3> HIDE DEF next
        <3> QED BY <2>1, <2>3, <2>4 DEF EndInv
    <2> QED BY <1>1, <2>5 DEF CcsRead
<1>2. CASE Ok(e) \/ Program(e)[st.pc].msg # "Finished"
    BY <1>2 DEF CcsRead
<1> QED BY <1>1, <1>2

\* An alert counted is one alert more, and may be the last.
LEMMA CountAlertKeeps ==
    ASSUME NEW e, NEW st, EndInv(mode, e, st)
    PROVE  EndInv(mode, e, CountAlert(st)) /\ CountAlert(st).flight = st.flight
<1> DEFINE next == CountAlert(st)
<1>1. st \in EndType(mode, e)  BY DEF EndInv
<1>2. /\ next.pc = st.pc /\ next.readSeq = st.readSeq /\ next.writeSeq = st.writeSeq
      /\ next.readEpoch = st.readEpoch /\ next.writeEpoch = st.writeEpoch
      /\ next.buffered = st.buffered /\ next.flight = st.flight
      /\ next.fate = IF st.alerts >= MaxAlerts THEN "timeout" ELSE st.fate
    BY <1>1 DEF CountAlert, EndType
<1>3. next \in EndType(mode, e)
    <2>1. PICK small \in BOOLEAN, fate \in {"running", "timeout", "unexpected"} :
             next = [st EXCEPT !.alerts = st.alerts + 1, !.small = small, !.fate = fate]
        <3>1. (st.small \/ st.alerts >= ShrinkAfter) \in BOOLEAN  OBVIOUS
        <3>2. (IF st.alerts >= MaxAlerts THEN "timeout" ELSE st.fate)
                 \in {"running", "timeout", "unexpected"}
            BY <1>1 DEF EndType
        <3>3. next = [st EXCEPT !.alerts = st.alerts + 1,
                                !.small = st.small \/ st.alerts >= ShrinkAfter,
                                !.fate = IF st.alerts >= MaxAlerts THEN "timeout" ELSE st.fate]
            BY DEF CountAlert
        <3> QED BY <3>1, <3>2, <3>3
    <2> DEFINE a == [st EXCEPT !.alerts = st.alerts + 1]
               b == [a EXCEPT !.small = small]
    <2>2. next = [b EXCEPT !.fate = fate]  BY <1>1, <2>1 DEF EndType
    <2>3. a \in EndType(mode, e)  BY <1>1 DEF EndType
    <2>4. b \in EndType(mode, e)
        <3> HIDE DEF a
        <3> QED BY <2>3 DEF EndType
    <2> HIDE DEF b, next
    <2> QED BY <2>2, <2>4 DEF EndType
<1> HIDE DEF next
<1> QED BY <1>2, <1>3 DEF EndInv, next

-----------------------------------------------------------------------------
(* The steps *)

\* Where an end is that has not finished, and that it has read the second
\* epoch when it has.
LEMMA AtStep ==
    ASSUME IInv, NEW e \in Ends
    PROVE  /\ ~Ok(e) => ends[e].pc \in 1 .. Len(Program(e))
           /\ Ok(e) => ends[e].readEpoch = 1
<1>1. mode \in AllModes /\ EndInv(mode, e, ends[e])  BY DEF IInv
<1>2. /\ ends[e].pc \in 1 .. Len(Program(e)) + 1
      /\ ends[e].pc > FinishedAt(mode, e) => ends[e].readEpoch = 1
    BY <1>1, TableLength DEF EndInv, Where
<1>3. Len(Program(e)) \in Nat /\ FinishedAt(mode, e) \in 1 .. Len(Program(e))
    BY <1>1, TableLength
<1> QED BY <1>2, <1>3 DEF Ok

LEMMA SendKeeps ==
    ASSUME IInv, NEW e \in Ends, SendMessage(e)
    PROVE  IInv'
<1> DEFINE st == ends[e]
           step == Program(e)[st.pc]
           ccs == step.msg = "Ccs"
           x == [msg |-> step.msg, seq |-> st.writeSeq, epoch |-> st.writeEpoch]
           fl == IF step.msg = "HelloVerify" THEN st.flight ELSE Buffer(st.flight, x)
           ws == IF ccs THEN st.writeSeq ELSE st.writeSeq + 1
           we == IF ccs THEN st.writeEpoch + 1 ELSE st.writeEpoch
           a == [st EXCEPT !.timer = @ \/ step.timer]
           b == [a EXCEPT !.flight = fl]
           c == [b EXCEPT !.writeSeq = ws]
           d == [c EXCEPT !.writeEpoch = we]
<1>1. /\ mode \in AllModes /\ EndInv(mode, e, st) /\ st \in EndType(mode, e)
      /\ wire[e] \in Seq(Pieces(mode, Other(e)))
    BY DEF IInv, EndInv
<1>2. st.pc \in 1 .. Len(Program(e)) /\ step.do = "send"  BY AtStep DEF SendMessage, At
<1>3. PICK split \in BOOLEAN : Update(e, Advance(e, d), wire[e], Fragments(x, split))
    <2>1. PICK split \in BOOLEAN :
             Update(e, Advance(e, [st EXCEPT !.timer = @ \/ step.timer, !.flight =
                        IF step.msg = "HelloVerify" THEN @ ELSE Buffer(@, x),
                      !.writeSeq = IF ccs THEN @ ELSE @ + 1,
                      !.writeEpoch = IF ccs THEN @ + 1 ELSE @]), wire[e], Fragments(x, split))
        BY DEF SendMessage
    <2>2. d = [st EXCEPT !.timer = @ \/ step.timer, !.flight =
                     IF step.msg = "HelloVerify" THEN @ ELSE Buffer(@, x),
                   !.writeSeq = IF ccs THEN @ ELSE @ + 1,
                   !.writeEpoch = IF ccs THEN @ + 1 ELSE @]
        BY <1>1 DEF EndType
    <2> QED BY <2>1, <2>2
<1>4. /\ x \in SentBy(mode, e)
      /\ st.pc = Len(Program(e)) => Where(mode, e, st.pc + 1, 0, 0, st.readEpoch, we)
      /\ st.pc # Len(Program(e)) =>
            Where(mode, e, st.pc + 1, st.readSeq, ws, st.readEpoch, we)
    <2>1. Where(mode, e, st.pc, st.readSeq, st.writeSeq, st.readEpoch, st.writeEpoch)
        BY <1>1 DEF EndInv
    <2>2. x = Msg(step.msg, st.writeSeq, st.writeEpoch)  BY DEF Msg
    <2> HIDE DEF x, st
    <2> QED BY <1>1, <1>2, <2>1, <2>2, SendFits
<1>5. fl \subseteq SentBy(mode, e)  BY <1>1, <1>4 DEF Buffer, EndType
<1>6. ws \in Nat /\ we \in Nat  BY <1>1 DEF EndType
<1> HIDE DEF fl, ws, we
<1>7. a \in EndType(mode, e) /\ a.pc = st.pc /\ a.fate = st.fate /\ a.buffered = st.buffered
      /\ a.readSeq = st.readSeq /\ a.readEpoch = st.readEpoch
    <2>1. PICK t \in BOOLEAN : a = [st EXCEPT !.timer = t]
        <3>1. (st.timer \/ step.timer) \in BOOLEAN  OBVIOUS
        <3>2. a = [st EXCEPT !.timer = st.timer \/ step.timer]  OBVIOUS
        <3> HIDE DEF a, step, st
        <3> QED BY <3>1, <3>2
    <2> HIDE DEF a, step, st
    <2> QED BY <1>1, <2>1 DEF EndType
<1>8. b \in EndType(mode, e) /\ b.pc = a.pc /\ b.fate = a.fate /\ b.buffered = a.buffered
      /\ b.readSeq = a.readSeq /\ b.readEpoch = a.readEpoch
    <2> HIDE DEF a
    <2> QED BY <1>5, <1>7 DEF EndType
<1>9. c \in EndType(mode, e) /\ c.pc = b.pc /\ c.fate = b.fate /\ c.buffered = b.buffered
      /\ c.readSeq = b.readSeq /\ c.readEpoch = b.readEpoch /\ c.writeSeq = ws
    <2> HIDE DEF b
    <2> QED BY <1>6, <1>8 DEF EndType
<1>10. d \in EndType(mode, e) /\ d.pc = c.pc /\ d.fate = c.fate /\ d.buffered = c.buffered
       /\ d.readSeq = c.readSeq /\ d.readEpoch = c.readEpoch /\ d.writeSeq = c.writeSeq
       /\ d.writeEpoch = we
    <2> HIDE DEF c
    <2> QED BY <1>6, <1>9 DEF EndType
<1>11. EndInv(mode, e, Advance(e, d))
    <2> DEFINE next == Advance(e, d)
    <2>1. /\ next \in EndType(mode, e)
          /\ next.fate = d.fate /\ next.buffered = d.buffered
          /\ next.readEpoch = d.readEpoch /\ next.writeEpoch = d.writeEpoch
          /\ next.pc = d.pc + 1
          /\ d.pc = Len(Program(e)) => next.readSeq = 0 /\ next.writeSeq = 0
          /\ d.pc # Len(Program(e)) => next.readSeq = d.readSeq /\ next.writeSeq = d.writeSeq
        <3> HIDE DEF d
        <3> QED BY <1>10, AdvanceShape
    <2>2. /\ d.pc = st.pc /\ d.fate = st.fate /\ d.buffered = st.buffered
          /\ d.readSeq = st.readSeq /\ d.readEpoch = st.readEpoch
          /\ d.writeSeq = ws /\ d.writeEpoch = we
        <3> HIDE DEF a, b, c, d
        <3> QED BY <1>7, <1>8, <1>9, <1>10
    <2> HIDE DEF d, next
    <2>3. Where(mode, e, next.pc, next.readSeq, next.writeSeq, next.readEpoch, next.writeEpoch)
        BY <1>4, <2>1, <2>2
    <2>4. EndInv(mode, e, next)  BY <1>1, <2>1, <2>2, <2>3 DEF EndInv
    <2> QED BY <2>4 DEF next
<1>12. Fragments(x, split) \subseteq Pieces(mode, e)
    <2> HIDE DEF x
    <2> QED BY <1>4, FragmentsArePieces
<1> HIDE DEF d, x
<1> QED BY <1>1, <1>3, <1>11, <1>12, UpdateKeeps

LEMMA RetrieveKeeps ==
    ASSUME IInv, NEW e \in Ends, Retrieve(e)
    PROVE  IInv'
<1>1. PICK b \in Retrievable(ends[e]) :
         Update(e, Accept(e, [ends[e] EXCEPT !.buffered = @ \ {b}], b.msg), wire[e], {})
    BY DEF Retrieve
<1> DEFINE st == [ends[e] EXCEPT !.buffered = @ \ {b}]
<1>2. /\ mode \in AllModes /\ EndInv(mode, e, ends[e]) /\ ends[e] \in EndType(mode, e)
      /\ wire[e] \in Seq(Pieces(mode, Other(e)))
    BY DEF IInv, EndInv
<1>3. b \in ends[e].buffered /\ b.seq = ends[e].readSeq  BY DEF Retrievable, Heads
<1>4. ends[e].buffered \subseteq [msg : Kinds, seq : Nat, parts : SUBSET Parts]
    BY <1>2 DEF EndType
<1>5. EndInv(mode, e, st)
    <2>1. st = [ends[e] EXCEPT !.buffered = ends[e].buffered \ {b}]  BY <1>2 DEF EndType
    <2>2. \A c \in ends[e].buffered \ {b} : Known(mode, e, ends[e].readEpoch, c.msg, c.seq)
        BY <1>2 DEF EndInv
    <2> QED BY <1>2, <1>4, <2>1, <2>2, BufferedKeeps
<1>6. st.pc = ends[e].pc /\ st.readSeq = ends[e].readSeq /\ st.readEpoch = ends[e].readEpoch
    BY <1>2 DEF EndType
<1>7. st.pc \in 1 .. Len(Program(e)) /\ Program(e)[st.pc].do = "recv"
    BY <1>6, AtStep DEF Retrieve, At
<1>8. Known(mode, e, st.readEpoch, b.msg, st.readSeq)
    BY <1>2, <1>3, <1>6 DEF EndInv
<1> HIDE DEF st
<1>9. EndInv(mode, e, Accept(e, st, b.msg))
    BY <1>2, <1>5, <1>7, <1>8, AcceptKeeps
<1>10. {} \in SUBSET Pieces(mode, e)  OBVIOUS
<1>11. Update(e, Accept(e, st, b.msg), wire[e], {})  BY <1>1 DEF st
<1> QED BY <1>2, <1>9, <1>10, <1>11, UpdateKeeps

\* What reads a record, kept or from the wire, keeps the invariant.
LEMMA ProcessKeeps ==
    ASSUME IInv, NEW e \in Ends, Reads(e), NEW st, EndInv(mode, e, st), st.pc = ends[e].pc,
           st.readEpoch = ends[e].readEpoch, NEW x \in Pieces(mode, Other(e)),
           NEW rest \in Seq(Pieces(mode, Other(e))), Process(e, st, x, rest)
    PROVE  IInv'
<1>1. mode \in AllModes /\ Other(e) \in Ends  BY OtherEnd DEF IInv
<1>2. /\ x.msg \in Kinds /\ x.seq \in Nat /\ x.epoch \in {0, 1} /\ x.part \in Parts
      /\ x.msg = "Finished" <=> x.epoch = 1
      /\ \E y \in SentBy(mode, Other(e)) : y.msg = x.msg /\ y.seq = x.seq
    BY <1>1, PieceShape
<1>3. ~Ok(e) => st.pc \in 1 .. Len(Program(e)) /\ Program(e)[st.pc].do = "recv"
    BY AtStep DEF Reads, At
<1>4. {} \in SUBSET Pieces(mode, e)  OBVIOUS
<1>5. CASE Update(e, OtherEpoch(e, st, x), rest, {})
    BY <1>4, <1>5, OtherEpochKeeps, UpdateKeeps
<1>6. CASE x.epoch = st.readEpoch /\ x.msg = "Ccs" /\ Update(e, CcsRead(e, st), rest, {})
    <2>1. st.readEpoch = 0  BY <1>2, <1>6
    <2>2. EndInv(mode, e, CcsRead(e, st))  BY <1>1, <1>3, <2>1, CcsReadKeeps
    <2> QED BY <1>4, <1>6, <2>2, UpdateKeeps
<1>7. CASE /\ x.epoch = st.readEpoch /\ x.msg # "Ccs" /\ Ok(e)
           /\ HandshakeWhenOk(e, st, x, rest)
    <2>1. x.msg = "Finished"  BY <1>2, <1>7, AtStep
    <2> DEFINE next == CountAlert(st)
               F == IF next.fate = "running" THEN Retransmission(next) ELSE {}
    <2>2. EndInv(mode, e, next)  BY CountAlertKeeps
    <2>3. F \in SUBSET Pieces(mode, e)
        <3>1. next.flight \subseteq SentBy(mode, e)  BY <2>2 DEF EndInv, EndType
        <3> HIDE DEF next
        <3> QED BY <3>1, RetransmissionIsPieces
    <2>4. Update(e, next, rest, F)  BY <1>7, <2>1 DEF HandshakeWhenOk
    <2> HIDE DEF next, F
    <2> QED BY <2>2, <2>3, <2>4, UpdateKeeps
<1>8. CASE /\ x.epoch = st.readEpoch /\ x.msg # "Ccs" /\ ~Ok(e)
           /\ Update(e, MessageRead(e, st, x), rest, {})
    <2>1. Known(mode, e, st.readEpoch, x.msg, x.seq)  BY <1>2, <1>8 DEF Known
    <2>2. EndInv(mode, e, MessageRead(e, st, x))
        BY <1>1, <1>2, <1>3, <1>8, <2>1, MessageReadKeeps
    <2> QED BY <1>4, <1>8, <2>2, UpdateKeeps
<1> QED BY <1>5, <1>6, <1>7, <1>8 DEF Process

LEMMA ReadKeptKeeps ==
    ASSUME IInv, NEW e \in Ends, ReadKept(e)
    PROVE  IInv'
<1> DEFINE S == Pieces(mode, Other(e))
           x == Head(ends[e].kept)
           st == [ends[e] EXCEPT !.kept = Tail(@)]
<1>1. /\ EndInv(mode, e, ends[e]) /\ ends[e] \in EndType(mode, e) /\ wire[e] \in Seq(S)
      /\ ends[e].kept \in Seq(S)
    BY DEF IInv, EndInv, EndType
<1>2. ends[e].kept # <<>>  BY DEF ReadKept, KeptReady
<1> HIDE DEF S
<1>3. x \in S /\ Tail(ends[e].kept) \in Seq(S)  BY <1>1, <1>2, HeadTailProperties
<1>4. st = [ends[e] EXCEPT !.kept = Tail(ends[e].kept)]  BY <1>1 DEF EndType
<1>5. st \in EndType(mode, e)  BY <1>1, <1>3, <1>4 DEF EndType, S
<1>6. /\ st.pc = ends[e].pc /\ st.fate = ends[e].fate /\ st.buffered = ends[e].buffered
      /\ st.readSeq = ends[e].readSeq /\ st.writeSeq = ends[e].writeSeq
      /\ st.readEpoch = ends[e].readEpoch /\ st.writeEpoch = ends[e].writeEpoch
    BY <1>1 DEF EndType
<1>7. Reads(e) /\ Process(e, st, x, wire[e])  BY DEF ReadKept
<1> HIDE DEF st, x
<1>8. EndInv(mode, e, st)  BY <1>1, <1>5, <1>6 DEF EndInv
<1> QED BY <1>1, <1>3, <1>6, <1>7, <1>8, ProcessKeeps DEF S

LEMMA ReadWireKeeps ==
    ASSUME IInv, NEW e \in Ends, ReadWire(e)
    PROVE  IInv'
<1> DEFINE S == Pieces(mode, Other(e))
<1>1. EndInv(mode, e, ends[e]) /\ wire[e] \in Seq(S)  BY DEF IInv
<1>2. wire[e] # <<>> /\ Reads(e)  BY DEF ReadWire
<1>3. Process(e, ends[e], Head(wire[e]), Tail(wire[e]))  BY DEF ReadWire
<1> HIDE DEF S
<1>4. Head(wire[e]) \in S /\ Tail(wire[e]) \in Seq(S)  BY <1>1, <1>2, HeadTailProperties
<1> QED BY <1>1, <1>2, <1>3, <1>4, ProcessKeeps DEF S

LEMMA ReadOvertakingKeeps ==
    ASSUME IInv, NEW e \in Ends, NEW k \in 1 .. Len(wire[e]), ReadOvertaking(e, k)
    PROVE  IInv'
<1> DEFINE S == Pieces(mode, Other(e))
<1>1. EndInv(mode, e, ends[e]) /\ wire[e] \in Seq(S)  BY DEF IInv
<1>2. Reads(e) /\ Process(e, ends[e], wire[e][k], RemoveAt(wire[e], k))
    BY DEF ReadOvertaking
<1> HIDE DEF S
<1>3. RemoveAt(wire[e], k) \in Seq(S) /\ wire[e][k] \in S  BY <1>1, RemoveAtIsSeq
<1> QED BY <1>1, <1>2, <1>3, ProcessKeeps DEF S

LEMMA LoseKeeps ==
    ASSUME IInv, NEW e \in Ends, NEW k \in 1 .. Len(wire[e]), Lose(e, k)
    PROVE  IInv'
<1>1. wire[e] \in Seq(Pieces(mode, Other(e))) /\ DOMAIN wire = Ends  BY DEF IInv
<1>2. RemoveAt(wire[e], k) \in Seq(Pieces(mode, Other(e)))  BY <1>1, RemoveAtIsSeq
<1>3. mode' = mode /\ ends' = ends /\ wire' = [wire EXCEPT ![e] = RemoveAt(wire[e], k)]
    BY DEF Lose
<1>4. wire' = [d \in Ends |-> wire'[d]] /\ wire'[e] = RemoveAt(wire[e], k)
      /\ \A d \in Ends : d # e => wire'[d] = wire[d]
    BY <1>1, <1>3
<1> QED BY <1>2, <1>3, <1>4 DEF IInv

LEMMA TimeoutKeeps ==
    ASSUME IInv, NEW e \in Ends, Timeout(e)
    PROVE  IInv'
<1> DEFINE next == CountAlert(ends[e])
           F == IF next.fate = "running" THEN Retransmission(next) ELSE {}
<1>1. EndInv(mode, e, ends[e]) /\ wire[e] \in Seq(Pieces(mode, Other(e)))  BY DEF IInv
<1>2. EndInv(mode, e, next)  BY <1>1, CountAlertKeeps
<1>3. F \in SUBSET Pieces(mode, e)
    <2>1. next.flight \subseteq SentBy(mode, e)  BY <1>2 DEF EndInv, EndType
    <2> HIDE DEF next
    <2> QED BY <2>1, RetransmissionIsPieces
<1>4. Update(e, next, wire[e], F)  BY DEF Timeout
<1> HIDE DEF next, F
<1> QED BY <1>1, <1>2, <1>3, <1>4, UpdateKeeps

LEMMA InitHolds == Init => IInv
<1> SUFFICES ASSUME Init PROVE IInv
    OBVIOUS
<1>1. mode \in AllModes  BY HandshakeAssumption DEF Init, AllModes
<1>2. ASSUME NEW e \in Ends PROVE EndInv(mode, e, ends[e])
    <2>1. ends[e] = [pc |-> 1, fate |-> "running", readSeq |-> 0, writeSeq |-> 0,
                     readEpoch |-> 0, writeEpoch |-> 0, timer |-> FALSE, alerts |-> 0,
                     small |-> FALSE, flight |-> {}, kept |-> <<>>, buffered |-> {}]
        BY DEF Init
    <2>2. ends[e] \in EndType(mode, e)  BY <2>1 DEF EndType
    <2>3. Where(mode, e, 1, 0, 0, 0, 0)
        <3>1. Counts(mode, e)[1] = <<0, 0, 0>> /\ FinishedAt(mode, e) > 1
            BY <1>1, SixCases DEF Counts, FinishedAt
        <3> QED BY <1>1, <3>1, TableLength DEF Where
    <2> QED BY <2>1, <2>2, <2>3 DEF EndInv
<1>3. ends = [e \in Ends |-> ends[e]] /\ wire = [e \in Ends |-> wire[e]]  BY DEF Init
<1>4. \A e \in Ends : wire[e] \in Seq(Pieces(mode, Other(e)))  BY DEF Init
<1> QED BY <1>1, <1>2, <1>3, <1>4 DEF IInv

LEMMA NextKeeps == IInv /\ [Next]_vars => IInv'
<1> SUFFICES ASSUME IInv, [Next]_vars PROVE IInv'
    OBVIOUS
<1>1. CASE UNCHANGED vars
    BY <1>1 DEF vars, IInv
<1>2. ASSUME NEW e \in Ends,
             \/ Proceed(e) \/ DueTimeout(e) \/ EarlyTimeout(e)
             \/ \E k \in 1 .. Len(wire[e]) : Lose(e, k) \/ (k > 1 /\ ReadOvertaking(e, k))
      PROVE  IInv'
    <2>1. CASE SendMessage(e)  BY <2>1, SendKeeps
    <2>2. CASE Retrieve(e)  BY <2>2, RetrieveKeeps
    <2>3. CASE ReadKept(e)  BY <2>3, ReadKeptKeeps
    <2>4. CASE ReadWire(e)  BY <2>4, ReadWireKeeps
    <2>5. CASE Timeout(e)  BY <2>5, TimeoutKeeps
    <2>6. ASSUME NEW k \in 1 .. Len(wire[e]), Lose(e, k) PROVE IInv'
        BY <2>6, LoseKeeps
    <2>7. ASSUME NEW k \in 1 .. Len(wire[e]), ReadOvertaking(e, k) PROVE IInv'
        BY <2>7, ReadOvertakingKeeps
    <2> QED BY <1>2, <2>1, <2>2, <2>3, <2>4, <2>5, <2>6, <2>7
        DEF Proceed, DueTimeout, EarlyTimeout
<1> QED BY <1>1, <1>2 DEF Next

\* No message that is lost, overtaken, sent again or put together from pieces
\* makes dtls1_connect or dtls1_accept give up, whichever messages are long,
\* however many faults there are and whenever the timers run out.
THEOREM HandshakeNeverUnexpected == Spec => []NeverUnexpected
<1>1. IInv => NeverUnexpected  BY DEF IInv, EndInv, NeverUnexpected
<1> QED BY <1>1, InitHolds, NextKeeps, PTL DEF Spec

-----------------------------------------------------------------------------
(* Why somebody wakes up.  What an end has read, keeps or has on the wire was   *)
(* sent by a step the other end has behind it, so the two are never far apart;  *)
(* and an end that has sent since it last stopped its timer has the timer on    *)
(* and a flight to send again.                                                  *)

Steps(m, e) == IF e = "client" THEN Client[m] ELSE Server[m]

\* An end at step pc has sent the message of this number.
SentBefore(m, e, pc, msg, seq) ==
    \E k \in 1 .. pc - 1 : /\ Steps(m, e)[k].do = "send" /\ Steps(m, e)[k].msg = msg
                           /\ Counts(m, e)[k][2] = seq

\* What an end at step pc may have put on the wire.
Out(m, e, pc) == {p \in Pieces(m, e) : SentBefore(m, e, pc, p.msg, p.seq)}

\* An end at step pc has started its timer and not stopped it since.
Armed(m, e, pc) ==
    \E k \in 1 .. pc - 1 :
        /\ Steps(m, e)[k].do = "send" /\ Steps(m, e)[k].timer
        /\ \A j \in k + 1 .. pc - 1 : ~(Steps(m, e)[j].do = "recv" /\ Steps(m, e)[j].timer)

\* An end whose other end is at step po.
EndSent(m, e, st, po) ==
    /\ \A x \in st.flight : SentBefore(m, e, st.pc, x.msg, x.seq)
    /\ st.kept \in Seq(Out(m, Other(e), po))
    /\ \A b \in st.buffered : SentBefore(m, Other(e), po, b.msg, b.seq)
    /\ \A j \in 1 .. st.pc - 1 : Steps(m, e)[j].do = "recv" =>
          SentBefore(m, Other(e), po, Steps(m, e)[j].msg, Counts(m, e)[j][1])
    /\ Armed(m, e, st.pc) => st.timer /\ st.flight # {}

SentInv ==
    \A e \in Ends : /\ EndSent(mode, e, ends[e], ends[Other(e)].pc)
                    /\ wire[e] \in Seq(Out(mode, Other(e), ends[Other(e)].pc))

LEMMA StepsAre == \A e : Program(e) = Steps(mode, e)
BY DEF Program, Steps

LEMMA SentBeforeGrows ==
    ASSUME NEW m, NEW e, NEW p \in Nat, NEW q \in Nat, p <= q, NEW msg, NEW seq,
           SentBefore(m, e, p, msg, seq)
    PROVE  SentBefore(m, e, q, msg, seq)
<1>1. PICK k \in 1 .. p - 1 : /\ Steps(m, e)[k].do = "send" /\ Steps(m, e)[k].msg = msg
                              /\ Counts(m, e)[k][2] = seq
    BY DEF SentBefore
<1>2. k \in 1 .. q - 1  OBVIOUS
<1> QED BY <1>1, <1>2 DEF SentBefore

LEMMA OutGrows ==
    ASSUME NEW m, NEW e, NEW p \in Nat, NEW q \in Nat, p <= q,
           NEW s \in Seq(Out(m, e, p))
    PROVE  s \in Seq(Out(m, e, q))
<1>1. Out(m, e, p) \subseteq Out(m, e, q)  BY SentBeforeGrows DEF Out
<1> DEFINE P == Out(m, e, p)
           Q == Out(m, e, q)
<1>2. s \in Seq(P) /\ P \subseteq Q  BY <1>1
<1> HIDE DEF P, Q
<1>3. s \in Seq(Q)  BY <1>2
<1> QED BY <1>3 DEF Q

LEMMA EndSentGrows ==
    ASSUME NEW m, NEW e, NEW st, NEW p \in Nat, NEW q \in Nat, p <= q, EndSent(m, e, st, p)
    PROVE  EndSent(m, e, st, q)
<1>1. st.kept \in Seq(Out(m, Other(e), q))  BY OutGrows DEF EndSent
<1>2. \A b \in st.buffered : SentBefore(m, Other(e), q, b.msg, b.seq)
    BY SentBeforeGrows DEF EndSent
<1>3. \A j \in 1 .. st.pc - 1 : Steps(m, e)[j].do = "recv" =>
          SentBefore(m, Other(e), q, Steps(m, e)[j].msg, Counts(m, e)[j][1])
    BY SentBeforeGrows DEF EndSent
<1> QED BY <1>1, <1>2, <1>3 DEF EndSent

\* The part of an end's state that the invariant is about.
LEMMA EndSentSame ==
    ASSUME NEW m, NEW e, NEW st, NEW next, NEW po, EndSent(m, e, st, po),
           next.pc = st.pc, next.flight = st.flight, next.kept = st.kept,
           next.buffered = st.buffered, next.timer = st.timer
    PROVE  EndSent(m, e, next, po)
BY DEF EndSent

\* What goes out in order is a sequence of what went in.
LEMMA InOrderStays ==
    ASSUME mode \in AllModes, NEW e \in Ends, NEW pc, NEW F \in SUBSET Out(mode, e, pc),
           NEW out \in InOrder(F)
    PROVE  out \in Seq(Out(mode, e, pc))
<1>1. IsFiniteSet(F)  BY PiecesFinite, FS_Subset DEF Out
<1>2. Cardinality(F) \in Nat  BY <1>1, FS_CardinalityType
<1>3. out \in [1 .. Cardinality(F) -> F]  BY DEF InOrder
<1> QED BY <1>2, <1>3

\* An end that goes on, with what it sends sent by a step it has behind it.
LEMMA UpdateKeepsSent ==
    ASSUME IInv, SentInv, NEW e \in Ends, NEW st, EndSent(mode, e, st, ends[Other(e)].pc),
           st.pc \in Nat, ends[e].pc <= st.pc,
           NEW rest \in Seq(Out(mode, Other(e), ends[Other(e)].pc)),
           NEW F \in SUBSET Out(mode, e, st.pc), Update(e, st, rest, F)
    PROVE  SentInv'
<1> DEFINE o == Other(e)
<1>1. mode' = mode /\ mode \in AllModes  BY DEF IInv, Update
<1>2. ends' = [ends EXCEPT ![e] = st]  BY DEF Update
<1>3. PICK out \in InOrder(F) :
         wire' = [wire EXCEPT ![e] = rest,
                              ![o] = IF Running(o) THEN @ \o out ELSE @]
    BY DEF Update
<1>4. o \in Ends /\ o # e /\ Other(o) = e  BY OtherEnd
<1>5. DOMAIN ends = Ends /\ DOMAIN wire = Ends  BY DEF IInv
<1>6. ends'[e] = st /\ ends'[o] = ends[o]  BY <1>2, <1>4, <1>5
<1>7. ends[e].pc \in Nat  BY DEF IInv, EndInv, EndType
<1>8. out \in Seq(Out(mode, e, st.pc))  BY <1>1, InOrderStays
<1>9. wire[o] \in Seq(Out(mode, e, ends[e].pc))
    <2>1. wire[o] \in Seq(Out(mode, Other(o), ends[Other(o)].pc))  BY <1>4 DEF SentInv
    <2> QED BY <1>4, <2>1
<1>10. wire[o] \in Seq(Out(mode, e, st.pc))  BY <1>7, <1>9, OutGrows
<1>11. wire[o] \o out \in Seq(Out(mode, e, st.pc))  BY <1>8, <1>10, ConcatProperties
<1>12. wire'[e] = rest /\ wire'[o] \in Seq(Out(mode, e, st.pc))
    BY <1>3, <1>4, <1>5, <1>10, <1>11
<1>13. EndSent(mode, o, ends[o], st.pc)
    <2>1. EndSent(mode, o, ends[o], ends[Other(o)].pc)  BY <1>4 DEF SentInv
    <2> QED BY <1>4, <1>7, <2>1, EndSentGrows
<1>14. ASSUME NEW d \in Ends
       PROVE  /\ EndSent(mode', d, ends'[d], ends'[Other(d)].pc)
              /\ wire'[d] \in Seq(Out(mode', Other(d), ends'[Other(d)].pc))
    <2>1. CASE d = e  BY <1>1, <1>6, <1>12, <2>1
    <2>2. CASE d = o  BY <1>1, <1>4, <1>6, <1>12, <1>13, <2>2
    <2> HIDE DEF o
    <2> QED BY <2>1, <2>2 DEF Ends, Other, o
<1> QED BY <1>14 DEF SentInv

-----------------------------------------------------------------------------
(* The timer and what a step does to it *)

LEMMA ArmedAfterRecv ==
    ASSUME NEW m, NEW e, NEW pc \in Nat, Steps(m, e)[pc].do = "recv", Armed(m, e, pc + 1)
    PROVE  ~Steps(m, e)[pc].timer /\ Armed(m, e, pc)
<1>1. PICK k \in 1 .. pc :
        /\ Steps(m, e)[k].do = "send" /\ Steps(m, e)[k].timer
        /\ \A j \in k + 1 .. pc : ~(Steps(m, e)[j].do = "recv" /\ Steps(m, e)[j].timer)
    BY DEF Armed
<1>2. k # pc  BY <1>1
<1>3. k \in 1 .. pc - 1 /\ pc \in k + 1 .. pc /\ k + 1 .. pc - 1 \subseteq k + 1 .. pc
    BY <1>2
<1>4. ~Steps(m, e)[pc].timer  BY <1>1, <1>3
<1>5. Armed(m, e, pc)  BY <1>1, <1>3 DEF Armed
<1> QED BY <1>4, <1>5

LEMMA ArmedAfterSend ==
    ASSUME NEW m, NEW e, NEW pc \in Nat, Armed(m, e, pc + 1)
    PROVE  Steps(m, e)[pc].timer \/ Armed(m, e, pc)
<1>1. PICK k \in 1 .. pc :
        /\ Steps(m, e)[k].do = "send" /\ Steps(m, e)[k].timer
        /\ \A j \in k + 1 .. pc : ~(Steps(m, e)[j].do = "recv" /\ Steps(m, e)[j].timer)
    BY DEF Armed
<1>2. CASE k = pc  BY <1>1, <1>2
<1>3. CASE k # pc
    <2>1. k \in 1 .. pc - 1 /\ k + 1 .. pc - 1 \subseteq k + 1 .. pc  BY <1>3
    <2>2. Armed(m, e, pc)  BY <1>1, <2>1 DEF Armed
    <2> QED BY <2>2
<1> QED BY <1>2, <1>3

\* The one message that is not buffered is sent without the timer.
LEMMA VerifyHasNoTimer ==
    ASSUME mode \in AllModes, NEW e \in Ends, NEW pc \in 1 .. Len(Steps(mode, e)),
           Steps(mode, e)[pc].msg = "HelloVerify", Steps(mode, e)[pc].do = "send"
    PROVE  ~Steps(mode, e)[pc].timer
<1>1. CASE mode = "full" /\ e = "client"  BY <1>1 DEF Steps, Client, Send, Recv
<1>2. CASE mode = "full" /\ e = "server"  BY <1>2 DEF Steps, Server, Send, Recv
<1>3. CASE mode = "cookie" /\ e = "client"  BY <1>3 DEF Steps, Client, Send, Recv
<1>4. CASE mode = "cookie" /\ e = "server"  BY <1>4 DEF Steps, Server, Send, Recv
<1>5. CASE mode = "resumed" /\ e = "client"  BY <1>5 DEF Steps, Client, Send, Recv
<1>6. CASE mode = "resumed" /\ e = "server"  BY <1>6 DEF Steps, Server, Send, Recv
<1> QED BY <1>1, <1>2, <1>3, <1>4, <1>5, <1>6, SixCases

\* A message read was sent, and the timer that stops has nothing left to do.
LEMMA AcceptSent ==
    ASSUME mode \in AllModes, NEW e \in Ends, NEW st, EndInv(mode, e, st), NEW po,
           EndSent(mode, e, st, po),
           st.pc \in 1 .. Len(Program(e)), Program(e)[st.pc].do = "recv",
           NEW m, Known(mode, e, st.readEpoch, m, st.readSeq),
           SentBefore(mode, Other(e), po, m, st.readSeq)
    PROVE  LET next == Accept(e, st, m) IN
           EndSent(mode, e, next, po) /\ next.pc = st.pc + 1
<1> DEFINE read == [st EXCEPT !.readSeq = @ + 1]
           next == Advance(e, read)
<1>1. st \in EndType(mode, e) /\ st.pc \in Nat  BY DEF EndInv, EndType
<1>2. Program(e)[st.pc].msg = m /\ Counts(mode, e)[st.pc][1] = st.readSeq
    <2>1. Where(mode, e, st.pc, st.readSeq, st.writeSeq, st.readEpoch, st.writeEpoch)
        BY DEF EndInv
    <2>2. PICK x \in SentBy(mode, Other(e)) : x.msg = m /\ x.seq = st.readSeq  BY DEF Known
    <2>3. x.msg # "Ccs" /\ (x.msg = "Finished" => st.readEpoch = 1)  BY <2>2 DEF Known
    <2>4. Program(e)[st.pc].msg = m  BY <2>1, <2>2, <2>3, RecvFits
    <2>5. Counts(mode, e)[st.pc][1] = st.readSeq  BY <2>1 DEF Where
    <2> QED BY <2>4, <2>5
<1>3. m = "Finished" => st.readEpoch # 0  BY DEF Known
<1>4. /\ next.pc = st.pc + 1 /\ next.flight = st.flight /\ next.kept = st.kept
      /\ next.buffered = st.buffered /\ next.timer = st.timer
    BY <1>1 DEF Advance, EndType
<1>5. Steps(mode, e)[st.pc].do = "recv" /\ Steps(mode, e)[st.pc].msg = m
    BY <1>2, StepsAre
<1> HIDE DEF next
<1>6. \A x \in st.flight : SentBefore(mode, e, st.pc + 1, x.msg, x.seq)
    BY <1>1, SentBeforeGrows DEF EndSent
<1>7. \A j \in 1 .. st.pc : Steps(mode, e)[j].do = "recv" =>
          SentBefore(mode, Other(e), po, Steps(mode, e)[j].msg, Counts(mode, e)[j][1])
    <2> TAKE j \in 1 .. st.pc
    <2>1. CASE j = st.pc  BY <1>2, <1>5, <2>1
    <2>2. CASE j # st.pc
        <3>1. j \in 1 .. st.pc - 1  BY <1>1, <2>2
        <3> QED BY <3>1 DEF EndSent
    <2> QED BY <2>1, <2>2
<1>8. 1 .. (st.pc + 1) - 1 = 1 .. st.pc  BY <1>1
<1>9. CASE Program(e)[st.pc].timer
    <2>1. /\ Stop(next).pc = next.pc /\ Stop(next).flight = {} /\ Stop(next).kept = next.kept
          /\ Stop(next).buffered = next.buffered
        <3>1. next \in EndType(mode, e)
            <4>1. read \in EndType(mode, e)  BY <1>1 DEF EndType
            <4> HIDE DEF read
            <4> QED BY <4>1, AdvanceShape DEF next
        <3> QED BY <3>1 DEF Stop, EndType
    <2>2. ~Armed(mode, e, st.pc + 1)  BY <1>1, <1>5, <1>9, ArmedAfterRecv, StepsAre
    <2>3. EndSent(mode, e, Stop(next), po)
        BY <1>4, <1>7, <1>8, <2>1, <2>2 DEF EndSent
    <2>4. Accept(e, st, m) = Stop(next)  BY <1>2, <1>3, <1>9 DEF Accept, next
    <2> QED BY <1>4, <2>1, <2>3, <2>4
<1>10. CASE ~Program(e)[st.pc].timer
    <2>1. Armed(mode, e, st.pc + 1) => st.timer /\ st.flight # {}
        BY <1>1, <1>5, ArmedAfterRecv DEF EndSent
    <2>2. EndSent(mode, e, next, po)
        BY <1>4, <1>6, <1>7, <1>8, <2>1 DEF EndSent
    <2>3. Accept(e, st, m) = next  BY <1>2, <1>3, <1>10 DEF Accept, next
    <2> QED BY <1>4, <2>2, <2>3
<1> QED BY <1>9, <1>10

\* A message that waits was sent.
LEMMA BufferedSent ==
    ASSUME NEW e, NEW st, EndInv(mode, e, st), NEW po, EndSent(mode, e, st, po), NEW B,
           \A b \in B : SentBefore(mode, Other(e), po, b.msg, b.seq)
    PROVE  LET next == [st EXCEPT !.buffered = B] IN
           EndSent(mode, e, next, po) /\ next.pc = st.pc
<1> DEFINE next == [st EXCEPT !.buffered = B]
<1>1. st \in EndType(mode, e)  BY DEF EndInv
<1>2. /\ next.pc = st.pc /\ next.flight = st.flight /\ next.kept = st.kept
      /\ next.buffered = B /\ next.timer = st.timer
    BY <1>1 DEF EndType
<1> HIDE DEF next
<1>3. EndSent(mode, e, next, po)  BY <1>2 DEF EndSent
<1> QED BY <1>2, <1>3 DEF next

LEMMA ReassembledSent ==
    ASSUME NEW e, NEW st, EndInv(mode, e, st), NEW po, EndSent(mode, e, st, po), NEW x,
           SentBefore(mode, Other(e), po, x.msg, x.seq)
    PROVE  EndSent(mode, e, Reassembled(st, x), po) /\ Reassembled(st, x).pc = st.pc
<1> DEFINE old == Entries(st, x.seq)
           parts == {x.part} \cup UNION {b.parts : b \in old}
           new == [msg |-> x.msg, seq |-> x.seq, parts |-> parts]
           B == (st.buffered \ old) \cup {new}
<1>1. \A b \in B : SentBefore(mode, Other(e), po, b.msg, b.seq)
    <2>1. new.msg = x.msg /\ new.seq = x.seq  OBVIOUS
    <2> HIDE DEF new, old
    <2> QED BY <2>1 DEF EndSent
<1>2. Reassembled(st, x) = [st EXCEPT !.buffered = B]  BY DEF Reassembled
<1> HIDE DEF B
<1> QED BY <1>1, <1>2, BufferedSent

LEMMA OutOfSeqSent ==
    ASSUME NEW e, NEW st, EndInv(mode, e, st), NEW po, EndSent(mode, e, st, po), NEW x,
           SentBefore(mode, Other(e), po, x.msg, x.seq)
    PROVE  EndSent(mode, e, OutOfSeq(st, x), po) /\ OutOfSeq(st, x).pc = st.pc
<1> DEFINE new == [msg |-> x.msg, seq |-> x.seq, parts |-> {1, 2}]
           B == st.buffered \cup {new}
<1>1. \A b \in B : SentBefore(mode, Other(e), po, b.msg, b.seq)  BY DEF EndSent
<1>2. \/ OutOfSeq(st, x) = st
      \/ OutOfSeq(st, x) = Reassembled(st, x)
      \/ OutOfSeq(st, x) = [st EXCEPT !.buffered = B]
    BY DEF OutOfSeq
<1> HIDE DEF B
<1>3. CASE OutOfSeq(st, x) = [st EXCEPT !.buffered = B]  BY <1>1, <1>3, BufferedSent
<1>4. CASE OutOfSeq(st, x) = Reassembled(st, x)  BY <1>4, ReassembledSent
<1> QED BY <1>2, <1>3, <1>4

LEMMA MessageReadSent ==
    ASSUME mode \in AllModes, NEW e \in Ends, NEW st, EndInv(mode, e, st), NEW po,
           EndSent(mode, e, st, po),
           st.pc \in 1 .. Len(Program(e)), Program(e)[st.pc].do = "recv",
           NEW x, Known(mode, e, st.readEpoch, x.msg, x.seq),
           SentBefore(mode, Other(e), po, x.msg, x.seq)
    PROVE  LET next == MessageRead(e, st, x) IN
           EndSent(mode, e, next, po) /\ next.pc \in {st.pc, st.pc + 1}
<1>4. CASE x.seq # st.readSeq
    BY <1>4, OutOfSeqSent DEF MessageRead
<1>5. CASE x.seq = st.readSeq /\ x.part # 0
    BY <1>5, ReassembledSent DEF MessageRead
<1>6. CASE x.seq = st.readSeq /\ x.part = 0
    <2>1. LET next == Accept(e, st, x.msg) IN
          EndSent(mode, e, next, po) /\ next.pc = st.pc + 1
        BY <1>6, AcceptSent
    <2> QED BY <1>6, <2>1 DEF MessageRead
<1> QED BY <1>4, <1>5, <1>6

LEMMA OtherEpochSent ==
    ASSUME NEW e, NEW st, EndInv(mode, e, st), NEW po, EndSent(mode, e, st, po),
           NEW x \in Out(mode, Other(e), po)
    PROVE  EndSent(mode, e, OtherEpoch(e, st, x), po) /\ OtherEpoch(e, st, x).pc = st.pc
<1> DEFINE S == Out(mode, Other(e), po)
           next == [st EXCEPT !.kept = Append(@, x)]
<1>1. st \in EndType(mode, e)  BY DEF EndInv
<1>2. /\ next.pc = st.pc /\ next.flight = st.flight /\ next.kept = Append(st.kept, x)
      /\ next.buffered = st.buffered /\ next.timer = st.timer
    BY <1>1 DEF EndType
<1>3. st.kept \in Seq(S) /\ x \in S  BY DEF EndSent
<1>4. Append(st.kept, x) \in Seq(S)
    <2> HIDE DEF S
    <2> QED BY <1>3
<1> HIDE DEF next
<1>5. EndSent(mode, e, next, po)  BY <1>2, <1>4 DEF EndSent
<1>6. OtherEpoch(e, st, x) = next \/ OtherEpoch(e, st, x) = st  BY DEF OtherEpoch, next
<1> QED BY <1>2, <1>5, <1>6

LEMMA CcsReadSent ==
    ASSUME NEW e, NEW st, EndInv(mode, e, st), NEW po, EndSent(mode, e, st, po)
    PROVE  EndSent(mode, e, CcsRead(e, st), po) /\ CcsRead(e, st).pc = st.pc
<1> DEFINE next == [st EXCEPT !.readEpoch = @ + 1]
<1>1. st \in EndType(mode, e)  BY DEF EndInv
<1>2. /\ next.pc = st.pc /\ next.flight = st.flight /\ next.kept = st.kept
      /\ next.buffered = st.buffered /\ next.timer = st.timer
    BY <1>1 DEF EndType
<1>3. CcsRead(e, st) = next \/ CcsRead(e, st) = st  BY DEF CcsRead
<1> HIDE DEF next
<1>4. EndSent(mode, e, next, po)  BY <1>2, EndSentSame
<1> QED BY <1>2, <1>3, <1>4

\* An alert counted leaves the timer on, and what goes out again was sent.
LEMMA CountAlertSent ==
    ASSUME mode \in AllModes, NEW e \in Ends, NEW st, EndInv(mode, e, st), NEW po,
           EndSent(mode, e, st, po)
    PROVE  LET next == CountAlert(st) IN
           /\ EndSent(mode, e, next, po) /\ next.pc = st.pc
           /\ Retransmission(next) \subseteq Out(mode, e, next.pc)
<1> DEFINE next == CountAlert(st)
<1>1. st \in EndType(mode, e)  BY DEF EndInv
<1>2. /\ next.pc = st.pc /\ next.flight = st.flight /\ next.kept = st.kept
      /\ next.buffered = st.buffered /\ next.timer = st.timer
    BY <1>1 DEF CountAlert, EndType
<1> HIDE DEF next
<1>3. EndSent(mode, e, next, po)  BY <1>2, EndSentSame
<1>4. ASSUME NEW p \in Retransmission(next) PROVE p \in Out(mode, e, next.pc)
    <2>1. PICK x \in next.flight : p \in Fragments(x, next.small /\ x.msg \in Long)
        BY DEF Retransmission
    <2>2. x \in SentBy(mode, e)  BY <1>1, <1>2, <2>1 DEF EndType
    <2>3. p \in Pieces(mode, e)  BY <2>1, <2>2, FragmentsArePieces
    <2>4. p.msg = x.msg /\ p.seq = x.seq  BY <2>1 DEF Fragments
    <2>5. SentBefore(mode, e, next.pc, x.msg, x.seq)  BY <1>3, <2>1 DEF EndSent
    <2> QED BY <2>3, <2>4, <2>5 DEF Out
<1> QED BY <1>2, <1>3, <1>4 DEF next

-----------------------------------------------------------------------------
(* The steps keep it *)

LEMMA SendKeepsSent ==
    ASSUME IInv, SentInv, NEW e \in Ends, SendMessage(e)
    PROVE  SentInv'
<1> DEFINE st == ends[e]
           step == Program(e)[st.pc]
           ccs == step.msg = "Ccs"
           x == [msg |-> step.msg, seq |-> st.writeSeq, epoch |-> st.writeEpoch]
           fl == IF step.msg = "HelloVerify" THEN st.flight ELSE Buffer(st.flight, x)
           sent == [st EXCEPT !.timer = @ \/ step.timer,
                              !.flight = IF step.msg = "HelloVerify" THEN @ ELSE Buffer(@, x),
                              !.writeSeq = IF ccs THEN @ ELSE @ + 1,
                              !.writeEpoch = IF ccs THEN @ + 1 ELSE @]
           next == Advance(e, sent)
           po == ends[Other(e)].pc
<1>1. /\ mode \in AllModes /\ EndInv(mode, e, st) /\ st \in EndType(mode, e)
      /\ EndSent(mode, e, st, po) /\ wire[e] \in Seq(Out(mode, Other(e), po))
    BY DEF IInv, EndInv, SentInv
<1>2. st.pc \in 1 .. Len(Program(e)) /\ st.pc \in Nat /\ step.do = "send"
    BY AtStep DEF SendMessage, At
<1>3. PICK split \in BOOLEAN : Update(e, next, wire[e], Fragments(x, split))
    BY DEF SendMessage
<1>4. /\ next.pc = st.pc + 1 /\ next.flight = fl /\ next.kept = st.kept
      /\ next.buffered = st.buffered /\ next.timer = (st.timer \/ step.timer)
    <2>1. /\ sent.pc = st.pc /\ sent.flight = fl /\ sent.kept = st.kept
          /\ sent.buffered = st.buffered /\ sent.timer = (st.timer \/ step.timer)
          /\ DOMAIN sent = DOMAIN st
        BY <1>1 DEF EndType
    <2>2. DOMAIN st = {"pc", "fate", "readSeq", "writeSeq", "readEpoch", "writeEpoch", "timer",
                       "alerts", "small", "flight", "kept", "buffered"}
        BY <1>1 DEF EndType
    <2> HIDE DEF sent, fl, step, st
    <2> QED BY <2>1, <2>2 DEF Advance
<1>5. x \in SentBy(mode, e) /\ Counts(mode, e)[st.pc][2] = st.writeSeq
    <2>1. Where(mode, e, st.pc, st.readSeq, st.writeSeq, st.readEpoch, st.writeEpoch)
        BY <1>1 DEF EndInv
    <2>2. x = Msg(step.msg, st.writeSeq, st.writeEpoch)  BY DEF Msg
    <2>3. Counts(mode, e)[st.pc][2] = st.writeSeq  BY <2>1 DEF Where
    <2> HIDE DEF x, st
    <2> QED BY <1>1, <1>2, <2>1, <2>2, <2>3, SendFits
<1>6. /\ Steps(mode, e)[st.pc].do = "send" /\ Steps(mode, e)[st.pc] = step
      /\ st.pc \in 1 .. Len(Steps(mode, e))
    BY <1>2, StepsAre
<1>7. SentBefore(mode, e, st.pc + 1, x.msg, x.seq)
    <2>1. st.pc \in 1 .. (st.pc + 1) - 1  BY <1>2
    <2> QED BY <1>5, <1>6, <2>1 DEF SentBefore
<1>8. fl \subseteq st.flight \cup {x}  BY DEF Buffer
<1>9. step.msg # "HelloVerify" => fl # {}  BY DEF Buffer
<1>10. step.msg = "HelloVerify" => fl = st.flight  OBVIOUS
<1>11. step.timer => step.msg # "HelloVerify"
    BY <1>1, <1>6, VerifyHasNoTimer
<1>12. st.flight \subseteq fl  BY DEF Buffer
<1> HIDE DEF next, fl
<1>13. \A y \in fl : SentBefore(mode, e, st.pc + 1, y.msg, y.seq)
    <2>1. \A y \in st.flight : SentBefore(mode, e, st.pc + 1, y.msg, y.seq)
        BY <1>1, <1>2, SentBeforeGrows DEF EndSent
    <2> HIDE DEF x
    <2> QED BY <1>7, <1>8, <2>1
<1>14. \A j \in 1 .. (st.pc + 1) - 1 : Steps(mode, e)[j].do = "recv" =>
          SentBefore(mode, Other(e), po, Steps(mode, e)[j].msg, Counts(mode, e)[j][1])
    <2> TAKE j \in 1 .. (st.pc + 1) - 1
    <2>1. CASE j = st.pc  BY <1>6, <2>1
    <2>2. CASE j # st.pc
        <3>1. j \in 1 .. st.pc - 1  BY <1>2, <2>2
        <3> QED BY <1>1, <3>1 DEF EndSent
    <2> QED BY <2>1, <2>2
<1>15. Armed(mode, e, st.pc + 1) => (st.timer \/ step.timer) /\ fl # {}
    <2>1. Armed(mode, e, st.pc + 1) => step.timer \/ Armed(mode, e, st.pc)
        BY <1>2, <1>6, ArmedAfterSend
    <2>2. Armed(mode, e, st.pc) => st.timer /\ st.flight # {}  BY <1>1 DEF EndSent
    <2> HIDE DEF st, step
    <2> QED BY <1>9, <1>11, <1>12, <2>1, <2>2
<1>16. EndSent(mode, e, next, po)
    <2>1. st.kept \in Seq(Out(mode, Other(e), po))
          /\ \A b \in st.buffered : SentBefore(mode, Other(e), po, b.msg, b.seq)
        BY <1>1 DEF EndSent
    <2> HIDE DEF st, step
    <2> QED BY <1>4, <1>13, <1>14, <1>15, <2>1 DEF EndSent
<1>17. Fragments(x, split) \subseteq Out(mode, e, st.pc + 1)
    <2>1. \A p \in Fragments(x, split) : p.msg = x.msg /\ p.seq = x.seq  BY DEF Fragments
    <2> HIDE DEF x
    <2>2. Fragments(x, split) \subseteq Pieces(mode, e)  BY <1>5, FragmentsArePieces
    <2> QED BY <1>7, <2>1, <2>2 DEF Out
<1>18. next.pc \in Nat /\ ends[e].pc <= next.pc  BY <1>2, <1>4
<1> HIDE DEF x
<1> QED BY <1>1, <1>3, <1>4, <1>16, <1>17, <1>18, UpdateKeepsSent

LEMMA RetrieveKeepsSent ==
    ASSUME IInv, SentInv, NEW e \in Ends, Retrieve(e)
    PROVE  SentInv'
<1>1. PICK b \in Retrievable(ends[e]) :
         Update(e, Accept(e, [ends[e] EXCEPT !.buffered = @ \ {b}], b.msg), wire[e], {})
    BY DEF Retrieve
<1> DEFINE st == [ends[e] EXCEPT !.buffered = @ \ {b}]
           po == ends[Other(e)].pc
<1>2. /\ mode \in AllModes /\ EndInv(mode, e, ends[e]) /\ ends[e] \in EndType(mode, e)
      /\ EndSent(mode, e, ends[e], po) /\ wire[e] \in Seq(Out(mode, Other(e), po))
    BY DEF IInv, EndInv, SentInv
<1>3. b \in ends[e].buffered /\ b.seq = ends[e].readSeq  BY DEF Retrievable, Heads
<1>4. ends[e].buffered \subseteq [msg : Kinds, seq : Nat, parts : SUBSET Parts]
    BY <1>2 DEF EndType
<1>5. st = [ends[e] EXCEPT !.buffered = ends[e].buffered \ {b}]  BY <1>2 DEF EndType
<1>6. EndInv(mode, e, st)
    <2>1. \A c \in ends[e].buffered \ {b} : Known(mode, e, ends[e].readEpoch, c.msg, c.seq)
        BY <1>2 DEF EndInv
    <2> QED BY <1>2, <1>4, <1>5, <2>1, BufferedKeeps
<1>7. st.pc = ends[e].pc /\ st.readSeq = ends[e].readSeq /\ st.readEpoch = ends[e].readEpoch
    BY <1>2 DEF EndType
<1>8. st.pc \in 1 .. Len(Program(e)) /\ Program(e)[st.pc].do = "recv"
    BY <1>7, AtStep DEF Retrieve, At
<1>9. Known(mode, e, st.readEpoch, b.msg, st.readSeq)
    BY <1>2, <1>3, <1>7 DEF EndInv
<1>10. SentBefore(mode, Other(e), po, b.msg, st.readSeq)
    BY <1>2, <1>3, <1>7 DEF EndSent
<1>11. EndSent(mode, e, st, po)
    <2>1. \A c \in ends[e].buffered \ {b} : SentBefore(mode, Other(e), po, c.msg, c.seq)
        BY <1>2 DEF EndSent
    <2> HIDE DEF po, st
    <2> QED BY <1>2, <1>5, <2>1, BufferedSent
<1> DEFINE next == Accept(e, st, b.msg)
<1>12. Update(e, next, wire[e], {})  BY <1>1
<1> HIDE DEF st
<1>13. EndSent(mode, e, next, po) /\ next.pc = st.pc + 1
    <2> HIDE DEF po
    <2> QED BY <1>2, <1>6, <1>8, <1>9, <1>10, <1>11, AcceptSent
<1>14. next.pc \in Nat /\ ends[e].pc <= next.pc  BY <1>7, <1>8, <1>13
<1>15. {} \in SUBSET Out(mode, e, next.pc)  OBVIOUS
<1> HIDE DEF next
<1> QED BY <1>2, <1>12, <1>13, <1>14, <1>15, UpdateKeepsSent

LEMMA ProcessKeepsSent ==
    ASSUME IInv, SentInv, NEW e \in Ends, Reads(e), NEW st, EndInv(mode, e, st),
           EndSent(mode, e, st, ends[Other(e)].pc), st.pc = ends[e].pc,
           st.readEpoch = ends[e].readEpoch,
           NEW x \in Out(mode, Other(e), ends[Other(e)].pc),
           NEW rest \in Seq(Out(mode, Other(e), ends[Other(e)].pc)), Process(e, st, x, rest)
    PROVE  SentInv'
<1> DEFINE po == ends[Other(e)].pc
<1>1. mode \in AllModes /\ Other(e) \in Ends /\ st.pc \in Nat
    BY OtherEnd DEF IInv, EndInv, EndType
<1>2. x \in Pieces(mode, Other(e)) /\ SentBefore(mode, Other(e), po, x.msg, x.seq)
    BY DEF Out
<1>3. /\ x.msg \in Kinds /\ x.seq \in Nat /\ x.epoch \in {0, 1} /\ x.part \in Parts
      /\ x.msg = "Finished" <=> x.epoch = 1
      /\ \E y \in SentBy(mode, Other(e)) : y.msg = x.msg /\ y.seq = x.seq
    BY <1>1, <1>2, PieceShape
<1>4. ~Ok(e) => st.pc \in 1 .. Len(Program(e)) /\ Program(e)[st.pc].do = "recv"
    BY AtStep DEF Reads, At
<1>5. ASSUME NEW next, EndSent(mode, e, next, po), next.pc \in {st.pc, st.pc + 1},
             NEW F \in SUBSET Out(mode, e, next.pc), Update(e, next, rest, F)
      PROVE  SentInv'
    <2>1. next.pc \in Nat /\ ends[e].pc <= next.pc  BY <1>1, <1>5
    <2> QED BY <1>5, <2>1, UpdateKeepsSent
<1>6. \A pc : {} \in SUBSET Out(mode, e, pc)  OBVIOUS
<1> HIDE DEF po
<1>7. EndSent(mode, e, st, po) /\ x \in Out(mode, Other(e), po)  BY DEF po
<1>8. CASE Update(e, OtherEpoch(e, st, x), rest, {})
    BY <1>5, <1>6, <1>7, <1>8, OtherEpochSent
<1>9. CASE Update(e, CcsRead(e, st), rest, {})
    BY <1>5, <1>6, <1>7, <1>9, CcsReadSent
<1>10. CASE /\ x.epoch = st.readEpoch /\ x.msg # "Ccs" /\ Ok(e)
            /\ HandshakeWhenOk(e, st, x, rest)
    <2>1. x.msg = "Finished"  BY <1>3, <1>10, AtStep
    <2> DEFINE next == CountAlert(st)
               F == IF next.fate = "running" THEN Retransmission(next) ELSE {}
    <2>2. /\ EndSent(mode, e, next, po) /\ next.pc = st.pc
          /\ Retransmission(next) \subseteq Out(mode, e, next.pc)
        BY <1>1, <1>7, CountAlertSent
    <2>3. Update(e, next, rest, F)  BY <1>10, <2>1 DEF HandshakeWhenOk
    <2> HIDE DEF next
    <2>4. F \in SUBSET Out(mode, e, next.pc)  BY <2>2
    <2> HIDE DEF F
    <2> QED BY <1>5, <2>2, <2>3, <2>4
<1>11. CASE /\ x.epoch = st.readEpoch /\ x.msg # "Ccs" /\ ~Ok(e)
            /\ Update(e, MessageRead(e, st, x), rest, {})
    <2>1. Known(mode, e, st.readEpoch, x.msg, x.seq)  BY <1>3, <1>11 DEF Known
    <2> DEFINE next == MessageRead(e, st, x)
    <2>2. EndSent(mode, e, next, po) /\ next.pc \in {st.pc, st.pc + 1}
        BY <1>1, <1>2, <1>4, <1>7, <1>11, <2>1, MessageReadSent
    <2>3. Update(e, next, rest, {})  BY <1>11
    <2> HIDE DEF next
    <2> QED BY <1>5, <1>6, <2>2, <2>3
<1> QED BY <1>8, <1>9, <1>10, <1>11 DEF Process

LEMMA ReadKeptKeepsSent ==
    ASSUME IInv, SentInv, NEW e \in Ends, ReadKept(e)
    PROVE  SentInv'
<1> DEFINE P == Pieces(mode, Other(e))
           S == Out(mode, Other(e), ends[Other(e)].pc)
           x == Head(ends[e].kept)
           st == [ends[e] EXCEPT !.kept = Tail(@)]
<1>1. /\ EndInv(mode, e, ends[e]) /\ ends[e] \in EndType(mode, e) /\ wire[e] \in Seq(S)
      /\ ends[e].kept \in Seq(S) /\ EndSent(mode, e, ends[e], ends[Other(e)].pc)
    BY DEF IInv, EndInv, SentInv, EndSent
<1>2. ends[e].kept # <<>> /\ S \subseteq P  BY DEF ReadKept, KeptReady, Out
<1> HIDE DEF S, P
<1>3. x \in S /\ Tail(ends[e].kept) \in Seq(S)  BY <1>1, <1>2, HeadTailProperties
<1>4. Tail(ends[e].kept) \in Seq(P)  BY <1>2, <1>3
<1>5. st = [ends[e] EXCEPT !.kept = Tail(ends[e].kept)]  BY <1>1 DEF EndType
<1>6. st \in EndType(mode, e)  BY <1>1, <1>4, <1>5 DEF EndType, P
<1>7. /\ st.pc = ends[e].pc /\ st.fate = ends[e].fate /\ st.buffered = ends[e].buffered
      /\ st.readSeq = ends[e].readSeq /\ st.writeSeq = ends[e].writeSeq
      /\ st.readEpoch = ends[e].readEpoch /\ st.writeEpoch = ends[e].writeEpoch
      /\ st.flight = ends[e].flight /\ st.timer = ends[e].timer
      /\ st.kept = Tail(ends[e].kept)
    BY <1>1 DEF EndType
<1>8. Reads(e) /\ Process(e, st, x, wire[e])  BY DEF ReadKept
<1> HIDE DEF st, x
<1>9. EndInv(mode, e, st)  BY <1>1, <1>6, <1>7 DEF EndInv
<1>10. EndSent(mode, e, st, ends[Other(e)].pc)  BY <1>1, <1>3, <1>7 DEF EndSent, S
<1> QED BY <1>1, <1>3, <1>7, <1>8, <1>9, <1>10, ProcessKeepsSent DEF S

LEMMA ReadWireKeepsSent ==
    ASSUME IInv, SentInv, NEW e \in Ends, ReadWire(e)
    PROVE  SentInv'
<1> DEFINE S == Out(mode, Other(e), ends[Other(e)].pc)
<1>1. /\ EndInv(mode, e, ends[e]) /\ EndSent(mode, e, ends[e], ends[Other(e)].pc)
      /\ wire[e] \in Seq(S)
    BY DEF IInv, SentInv
<1>2. wire[e] # <<>> /\ Reads(e)  BY DEF ReadWire
<1>3. Process(e, ends[e], Head(wire[e]), Tail(wire[e]))  BY DEF ReadWire
<1> HIDE DEF S
<1>4. Head(wire[e]) \in S /\ Tail(wire[e]) \in Seq(S)  BY <1>1, <1>2, HeadTailProperties
<1> QED BY <1>1, <1>2, <1>3, <1>4, ProcessKeepsSent DEF S

LEMMA ReadOvertakingKeepsSent ==
    ASSUME IInv, SentInv, NEW e \in Ends, NEW k \in 1 .. Len(wire[e]), ReadOvertaking(e, k)
    PROVE  SentInv'
<1> DEFINE S == Out(mode, Other(e), ends[Other(e)].pc)
<1>1. /\ EndInv(mode, e, ends[e]) /\ EndSent(mode, e, ends[e], ends[Other(e)].pc)
      /\ wire[e] \in Seq(S)
    BY DEF IInv, SentInv
<1>2. Reads(e) /\ Process(e, ends[e], wire[e][k], RemoveAt(wire[e], k))
    BY DEF ReadOvertaking
<1> HIDE DEF S
<1>3. RemoveAt(wire[e], k) \in Seq(S) /\ wire[e][k] \in S  BY <1>1, RemoveAtIsSeq
<1> QED BY <1>1, <1>2, <1>3, ProcessKeepsSent DEF S

LEMMA LoseKeepsSent ==
    ASSUME IInv, SentInv, NEW e \in Ends, NEW k \in 1 .. Len(wire[e]), Lose(e, k)
    PROVE  SentInv'
<1> DEFINE S == Out(mode, Other(e), ends[Other(e)].pc)
<1>1. wire[e] \in Seq(S) /\ DOMAIN wire = Ends  BY DEF IInv, SentInv
<1>2. mode' = mode /\ ends' = ends /\ wire' = [wire EXCEPT ![e] = RemoveAt(wire[e], k)]
    BY DEF Lose
<1>3. RemoveAt(wire[e], k) \in Seq(S)
    <2> HIDE DEF S
    <2> QED BY <1>1, RemoveAtIsSeq
<1>4. wire'[e] = RemoveAt(wire[e], k) /\ \A d \in Ends : d # e => wire'[d] = wire[d]
    BY <1>1, <1>2
<1> QED BY <1>2, <1>3, <1>4 DEF SentInv

LEMMA TimeoutKeepsSent ==
    ASSUME IInv, SentInv, NEW e \in Ends, Timeout(e)
    PROVE  SentInv'
<1> DEFINE next == CountAlert(ends[e])
           F == IF next.fate = "running" THEN Retransmission(next) ELSE {}
           po == ends[Other(e)].pc
<1>1. /\ mode \in AllModes /\ EndInv(mode, e, ends[e]) /\ ends[e].pc \in Nat
      /\ EndSent(mode, e, ends[e], po) /\ wire[e] \in Seq(Out(mode, Other(e), po))
    BY DEF IInv, SentInv, EndInv, EndType
<1>2. /\ EndSent(mode, e, next, po) /\ next.pc = ends[e].pc
      /\ Retransmission(next) \subseteq Out(mode, e, next.pc)
    <2> HIDE DEF po
    <2> QED BY <1>1, CountAlertSent
<1>3. Update(e, next, wire[e], F)  BY DEF Timeout
<1> HIDE DEF next
<1>4. F \in SUBSET Out(mode, e, next.pc)  BY <1>2
<1>5. next.pc \in Nat /\ ends[e].pc <= next.pc  BY <1>1, <1>2
<1> HIDE DEF F
<1> QED BY <1>1, <1>2, <1>3, <1>4, <1>5, UpdateKeepsSent

LEMMA InitSent == Init => SentInv
<1> SUFFICES ASSUME Init, NEW e \in Ends
             PROVE  /\ EndSent(mode, e, ends[e], ends[Other(e)].pc)
                    /\ wire[e] \in Seq(Out(mode, Other(e), ends[Other(e)].pc))
    BY DEF SentInv
<1>1. /\ ends[e].pc = 1 /\ ends[e].flight = {} /\ ends[e].kept = <<>>
      /\ ends[e].buffered = {} /\ wire[e] = <<>>
    BY DEF Init
<1>2. ~Armed(mode, e, 1)  BY DEF Armed
<1> QED BY <1>1, <1>2 DEF EndSent

LEMMA NextKeepsSent == IInv /\ SentInv /\ [Next]_vars => SentInv'
<1> SUFFICES ASSUME IInv, SentInv, [Next]_vars PROVE SentInv'
    OBVIOUS
<1>1. CASE UNCHANGED vars
    BY <1>1 DEF vars, SentInv
<1>2. ASSUME NEW e \in Ends,
             \/ Proceed(e) \/ DueTimeout(e) \/ EarlyTimeout(e)
             \/ \E k \in 1 .. Len(wire[e]) : Lose(e, k) \/ (k > 1 /\ ReadOvertaking(e, k))
      PROVE  SentInv'
    <2>1. CASE SendMessage(e)  BY <2>1, SendKeepsSent
    <2>2. CASE Retrieve(e)  BY <2>2, RetrieveKeepsSent
    <2>3. CASE ReadKept(e)  BY <2>3, ReadKeptKeepsSent
    <2>4. CASE ReadWire(e)  BY <2>4, ReadWireKeepsSent
    <2>5. CASE Timeout(e)  BY <2>5, TimeoutKeepsSent
    <2>6. ASSUME NEW k \in 1 .. Len(wire[e]), Lose(e, k) PROVE SentInv'
        BY <2>6, LoseKeepsSent
    <2>7. ASSUME NEW k \in 1 .. Len(wire[e]), ReadOvertaking(e, k) PROVE SentInv'
        BY <2>7, ReadOvertakingKeepsSent
    <2> QED BY <1>2, <2>1, <2>2, <2>3, <2>4, <2>5, <2>6, <2>7
        DEF Proceed, DueTimeout, EarlyTimeout
<1> QED BY <1>1, <1>2 DEF Next

-----------------------------------------------------------------------------
(* One of two ends that wait for each other has its timer on.  ReadBefore: what *)
(* an end at step pc has read, the other end at step po has sent.               *)

ReadBefore(m, e, pc, po) ==
    \A j \in 1 .. pc - 1 : Steps(m, e)[j].do = "recv" =>
        SentBefore(m, Other(e), po, Steps(m, e)[j].msg, Counts(m, e)[j][1])

LEMMA FullIsArmed ==
    ASSUME NEW c \in 1 .. 9, NEW s \in 1 .. 9, c # 9 \/ s # 9,
           c # 9 => Client.full[c].do = "recv", s # 9 => Server.full[s].do = "recv",
           ReadBefore("full", "client", c, s), ReadBefore("full", "server", s, c)
    PROVE  Armed("full", "client", c) \/ Armed("full", "server", s)
<1>1. c \in {2, 3, 4, 8, 9}  BY DEF Client, Send, Recv
<1>2. s \in {1, 5, 6, 9}  BY DEF Server, Send, Recv
<1>3. CASE c \in {2, 3}
    <2>1. 1 \in 1 .. c - 1 /\ \A j \in 2 .. c - 1 : j = 2  BY <1>3
    <2> QED BY <2>1 DEF Armed, Steps, Client, Send, Recv
<1>4. CASE c = 8
    <2>1. 7 \in 1 .. c - 1 /\ \A j \in 8 .. c - 1 : FALSE  BY <1>4
    <2> QED BY <2>1 DEF Armed, Steps, Client, Send, Recv
<1>5. CASE c = 4
    <2>1. SentBefore("full", "server", s, "Certificate", 1)
        BY <1>5 DEF ReadBefore, Steps, Client, Recv, Other, Counts
    <2>2. s > 3
        BY <1>2, <2>1 DEF SentBefore, Steps, Server, Send, Recv
    <2>3. s # 9
        <3>1. ~SentBefore("full", "client", 4, "Finished", 2)
            BY DEF SentBefore, Steps, Client, Send, Recv
        <3>2. s = 9 => SentBefore("full", "client", c, "Finished", 2)
            BY DEF ReadBefore, Steps, Server, Recv, Other, Counts
        <3> QED BY <1>5, <3>1, <3>2
    <2>4. 4 \in 1 .. s - 1 /\ \A j \in 5 .. s - 1 : j = 5  BY <1>2, <2>2, <2>3
    <2> QED BY <2>4 DEF Armed, Steps, Server, Send, Recv
<1>6. CASE c = 9
    <2>1. SentBefore("full", "server", s, "Finished", 3)
        BY <1>6 DEF ReadBefore, Steps, Client, Recv, Other, Counts
    <2>2. s > 8
        BY <1>2, <2>1 DEF SentBefore, Steps, Server, Send, Recv
    <2> QED BY <1>6, <2>2
<1> QED BY <1>1, <1>3, <1>4, <1>5, <1>6

LEMMA CookieIsArmed ==
    ASSUME NEW c \in 1 .. 11, NEW s \in 1 .. 11, c # 11 \/ s # 11,
           c # 11 => Client.cookie[c].do = "recv", s # 11 => Server.cookie[s].do = "recv",
           ReadBefore("cookie", "client", c, s), ReadBefore("cookie", "server", s, c)
    PROVE  Armed("cookie", "client", c) \/ Armed("cookie", "server", s)
<1>1. c \in {2, 4, 5, 6, 10, 11}  BY DEF Client, Send, Recv
<1>2. s \in {1, 3, 7, 8, 11}  BY DEF Server, Send, Recv
<1>3. CASE c = 2
    <2>1. 1 \in 1 .. c - 1 /\ \A j \in 2 .. c - 1 : FALSE  BY <1>3
    <2> QED BY <2>1 DEF Armed, Steps, Client, Send, Recv
<1>4. CASE c \in {4, 5}
    <2>1. 3 \in 1 .. c - 1 /\ \A j \in 4 .. c - 1 : j = 4  BY <1>4
    <2> QED BY <2>1 DEF Armed, Steps, Client, Send, Recv
<1>5. CASE c = 10
    <2>1. 9 \in 1 .. c - 1 /\ \A j \in 10 .. c - 1 : FALSE  BY <1>5
    <2> QED BY <2>1 DEF Armed, Steps, Client, Send, Recv
<1>6. CASE c = 6
    <2>1. SentBefore("cookie", "server", s, "Certificate", 2)
        BY <1>6 DEF ReadBefore, Steps, Client, Recv, Other, Counts
    <2>2. s > 5
        BY <1>2, <2>1 DEF SentBefore, Steps, Server, Send, Recv
    <2>3. s # 11
        <3>1. ~SentBefore("cookie", "client", 6, "Finished", 3)
            BY DEF SentBefore, Steps, Client, Send, Recv
        <3>2. s = 11 => SentBefore("cookie", "client", c, "Finished", 3)
            BY DEF ReadBefore, Steps, Server, Recv, Other, Counts
        <3> QED BY <1>6, <3>1, <3>2
    <2>4. 6 \in 1 .. s - 1 /\ \A j \in 7 .. s - 1 : j = 7  BY <1>2, <2>2, <2>3
    <2> QED BY <2>4 DEF Armed, Steps, Server, Send, Recv
<1>7. CASE c = 11
    <2>1. SentBefore("cookie", "server", s, "Finished", 4)
        BY <1>7 DEF ReadBefore, Steps, Client, Recv, Other, Counts
    <2>2. s > 10
        BY <1>2, <2>1 DEF SentBefore, Steps, Server, Send, Recv
    <2> QED BY <1>7, <2>2
<1> QED BY <1>1, <1>3, <1>4, <1>5, <1>6, <1>7

LEMMA ResumedIsArmed ==
    ASSUME NEW c \in 1 .. 6, NEW s \in 1 .. 6, c # 6 \/ s # 6,
           c # 6 => Client.resumed[c].do = "recv", s # 6 => Server.resumed[s].do = "recv",
           ReadBefore("resumed", "client", c, s)
    PROVE  Armed("resumed", "client", c) \/ Armed("resumed", "server", s)
<1>1. c \in {2, 3, 6}  BY DEF Client, Send, Recv
<1>2. s \in {1, 5, 6}  BY DEF Server, Send, Recv
<1>3. CASE c \in {2, 3}
    <2>1. 1 \in 1 .. c - 1 /\ \A j \in 2 .. c - 1 : j = 2  BY <1>3
    <2> QED BY <2>1 DEF Armed, Steps, Client, Send, Recv
<1>4. CASE c = 6
    <2>1. SentBefore("resumed", "server", s, "Finished", 1)
        BY <1>4 DEF ReadBefore, Steps, Client, Recv, Other, Counts
    <2>2. s > 4
        BY <1>2, <2>1 DEF SentBefore, Steps, Server, Send, Recv
    <2>3. 2 \in 1 .. s - 1 /\ \A j \in 3 .. s - 1 : j \in {3, 4}  BY <1>2, <1>4, <2>2
    <2> QED BY <2>3 DEF Armed, Steps, Server, Send, Recv
<1> QED BY <1>1, <1>3, <1>4

LEMMA SomebodyIsArmed ==
    ASSUME IInv, SentInv, Quiet, \A e \in Ends : Running(e), \E e \in Ends : ~Ok(e)
    PROVE  \E e \in Ends : Armed(mode, e, ends[e].pc)
<1> DEFINE c == ends["client"].pc
           s == ends["server"].pc
<1>1. "client" \in Ends /\ "server" \in Ends /\ Other("client") = "server"
      /\ Other("server") = "client"
    BY DEF Ends, Other
<1>2. \A e \in Ends : ends[e].pc \in 1 .. Len(Program(e)) + 1
    <2> TAKE e \in Ends
    <2>1. mode \in AllModes /\ EndInv(mode, e, ends[e])  BY DEF IInv
    <2> QED BY <2>1, TableLength DEF EndInv, Where
<1>3. \A e \in Ends : ends[e].pc # Len(Program(e)) + 1 => Program(e)[ends[e].pc].do = "recv"
    <2> TAKE e \in Ends
    <2>1. mode \in AllModes  BY DEF IInv
    <2>2. Len(Program(e)) \in Nat  BY <2>1, TableLength
    <2>3. ends[e].pc # Len(Program(e)) + 1 => ends[e].pc \in 1 .. Len(Program(e)) /\ ~Ok(e)
        BY <1>2, <2>2 DEF Ok
    <2>4. \A pc \in 1 .. Len(Program(e)) : Program(e)[pc].do \in {"send", "recv"}
        <3>1. CASE mode = "full" /\ e = "client"  BY <3>1 DEF Program, Client, Send, Recv
        <3>2. CASE mode = "full" /\ e = "server"  BY <3>2 DEF Program, Server, Send, Recv
        <3>3. CASE mode = "cookie" /\ e = "client"  BY <3>3 DEF Program, Client, Send, Recv
        <3>4. CASE mode = "cookie" /\ e = "server"  BY <3>4 DEF Program, Server, Send, Recv
        <3>5. CASE mode = "resumed" /\ e = "client"  BY <3>5 DEF Program, Client, Send, Recv
        <3>6. CASE mode = "resumed" /\ e = "server"  BY <3>6 DEF Program, Server, Send, Recv
        <3> QED BY <2>1, <3>1, <3>2, <3>3, <3>4, <3>5, <3>6, SixCases
    <2>5. ~At(e, "send")  BY DEF Quiet
    <2> QED BY <2>3, <2>4, <2>5 DEF At
<1>4. ReadBefore(mode, "client", c, s) /\ ReadBefore(mode, "server", s, c)
    BY <1>1 DEF SentInv, EndSent, ReadBefore
<1>5. \/ c # Len(Program("client")) + 1
      \/ s # Len(Program("server")) + 1
    <2>1. mode \in AllModes  BY DEF IInv
    <2>2. \A e \in Ends : Len(Program(e)) \in Nat  BY <2>1, TableLength
    <2> QED BY <2>2 DEF Ok, Ends
<1>6. Program("client") = Client[mode] /\ Program("server") = Server[mode]
    BY DEF Program
<1>7. \/ Armed(mode, "client", c)
      \/ Armed(mode, "server", s)
    <2>1. /\ c \in 1 .. Len(Client[mode]) + 1 /\ s \in 1 .. Len(Server[mode]) + 1
          /\ c # Len(Client[mode]) + 1 => Client[mode][c].do = "recv"
          /\ s # Len(Server[mode]) + 1 => Server[mode][s].do = "recv"
          /\ c # Len(Client[mode]) + 1 \/ s # Len(Server[mode]) + 1
        BY <1>1, <1>2, <1>3, <1>5, <1>6
    <2> HIDE DEF c, s
    <2>2. CASE mode = "full"
        <3>1. Len(Client[mode]) = 8 /\ Len(Server[mode]) = 8 /\ Client[mode] = Client.full
              /\ Server[mode] = Server.full
            BY <2>2 DEF Client, Server
        <3> QED BY <1>4, <2>1, <2>2, <3>1, FullIsArmed
    <2>3. CASE mode = "cookie"
        <3>1. Len(Client[mode]) = 10 /\ Len(Server[mode]) = 10 /\ Client[mode] = Client.cookie
              /\ Server[mode] = Server.cookie
            BY <2>3 DEF Client, Server
        <3> QED BY <1>4, <2>1, <2>3, <3>1, CookieIsArmed
    <2>4. CASE mode = "resumed"
        <3>1. Len(Client[mode]) = 5 /\ Len(Server[mode]) = 5 /\ Client[mode] = Client.resumed
              /\ Server[mode] = Server.resumed
            BY <2>4 DEF Client, Server
        <3> QED BY <1>4, <2>1, <2>4, <3>1, ResumedIsArmed
    <2>5. mode \in AllModes  BY DEF IInv
    <2> QED BY <2>2, <2>3, <2>4, <2>5 DEF AllModes
<1> QED BY <1>1, <1>7

\* Whatever was lost, when nothing moves one of two ends that are not done has
\* its timer running and a flight to send again, for every number of losses,
\* overtakings and timeouts: dtls1_start_timer and dtls1_stop_timer stand in the
\* right steps of dtls1_connect and dtls1_accept, the ServerHello that the client
\* reads without stopping its timer included.
THEOREM HandshakeWakesUp == Spec => []SomebodyWakesUp
<1>1. IInv /\ SentInv => SomebodyWakesUp
    <2> SUFFICES ASSUME IInv, SentInv, Quiet, \A e \in Ends : Running(e),
                        \E e \in Ends : ~Ok(e)
                 PROVE  \E e \in Ends : ends[e].timer /\ ends[e].flight # {}
        BY DEF SomebodyWakesUp
    <2>1. PICK e \in Ends : Armed(mode, e, ends[e].pc)  BY SomebodyIsArmed
    <2> QED BY <2>1 DEF SentInv, EndSent
<1> QED BY <1>1, InitHolds, NextKeeps, InitSent, NextKeepsSent, PTL DEF Spec
================================================================================
