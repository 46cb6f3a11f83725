-------------------------------- MODULE BytePipe --------------------------------
(* What a BIO pair promises (doc/crypto/BIO_s_bio.pod): each joined end has a  *)
(* pipe that its peer reads in the order of the writes; a shut pipe takes no   *)
(* more bytes and is read to its end before the reader learns that it ended.   *)
EXTENDS Integers, Sequences

CONSTANTS Bios, NoBio,
          Data       \* what a writer may hand over: sequences of bytes, not empty

VARIABLES peer,    \* the other end of the pair, or NoBio
          shut,    \* has this end stopped writing?
          pipe,    \* the bytes this end wrote that its peer has not read
          last     \* the last read or write, with its answer

vars == <<peer, shut, pipe, last>>

Retry == -1
Uninit == -2
Answer(op, ret, bytes) == [op |-> op, ret |-> ret, bytes |-> bytes]
NoAnswer == Answer("none", 0, <<>>)

Joined(x) == peer[x] # NoBio
Drop(s, n) == SubSeq(s, n + 1, Len(s))

Init ==
    /\ peer = [x \in Bios |-> NoBio]
    /\ shut = [x \in Bios |-> FALSE]
    /\ pipe = [x \in Bios |-> <<>>]
    /\ last = NoAnswer

\* The pair starts, or ends, with empty pipes that are open.
Fresh(x, y) ==
    /\ shut' = [shut EXCEPT ![x] = FALSE, ![y] = FALSE]
    /\ pipe' = [pipe EXCEPT ![x] = <<>>, ![y] = <<>>]
    /\ last' = NoAnswer

Join(x, y) ==
    /\ ~Joined(x) /\ ~Joined(y)
    /\ peer' = [peer EXCEPT ![x] = y, ![y] = x]
    /\ Fresh(x, y)

Part(x) ==
    /\ Joined(x)
    /\ peer' = [peer EXCEPT ![x] = NoBio, ![peer[x]] = NoBio]
    /\ Fresh(x, peer[x])

Shut(x) ==
    /\ Joined(x)
    /\ shut' = [shut EXCEPT ![x] = TRUE]
    /\ last' = NoAnswer
    /\ UNCHANGED <<peer, pipe>>

\* The first n bytes of d are taken; n may be less than the writer asked for.
Write(x) == \E d \in Data : \E n \in 1..Len(d) :
    /\ Joined(x) /\ ~shut[x]
    /\ pipe' = [pipe EXCEPT ![x] = @ \o SubSeq(d, 1, n)]
    /\ last' = Answer("write", n, d)
    /\ UNCHANGED <<peer, shut>>

Discard(x) ==
    /\ pipe' = [pipe EXCEPT ![x] = <<>>]
    /\ last' = NoAnswer
    /\ UNCHANGED <<peer, shut>>

Take(x) == \E n \in 1..Len(pipe[peer[x]]) :
    /\ pipe' = [pipe EXCEPT ![peer[x]] = Drop(@, n)]
    /\ last' = Answer("read", n, SubSeq(pipe[peer[x]], 1, n))

\* A read takes bytes if there are some; only without any does it end or retry.
Read(x) ==
    /\ Joined(x)
    /\ IF pipe[peer[x]] # <<>> THEN Take(x)
       ELSE /\ last' = Answer("read", IF shut[peer[x]] THEN 0 ELSE Retry, <<>>)
            /\ UNCHANGED pipe
    /\ UNCHANGED <<peer, shut>>

ReadUninit(x) ==
    /\ ~Joined(x)
    /\ last' = Answer("read", Uninit, <<>>)
    /\ UNCHANGED <<peer, shut, pipe>>

Silent == last' = NoAnswer /\ UNCHANGED <<peer, shut, pipe>>

Next ==
    \/ \E x, y \in Bios : Join(x, y)
    \/ \E x \in Bios : Part(x) \/ Shut(x) \/ Write(x) \/ Discard(x)
                       \/ Read(x) \/ ReadUninit(x)
    \/ Silent

Spec == Init /\ [][Next]_vars
================================================================================
