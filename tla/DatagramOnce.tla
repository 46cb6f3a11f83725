------------------------------ MODULE DatagramOnce ------------------------------
(* What the DTLS record layer promises: whatever the network loses, repeats or *)
(* reorders, a record number names one record, and a record goes up once.      *)
CONSTANTS Record, Number(_)

VARIABLES wire,     \* the records that were sent
          up,       \* the records that were handed up
          twice     \* was one of them handed up again?

vars == <<wire, up, twice>>

Init == wire = {} /\ up = {} /\ twice = FALSE

Send(x) ==
    /\ \A y \in wire : Number(y) # Number(x)
    /\ wire' = wire \cup {x}
    /\ UNCHANGED <<up, twice>>

Deliver(x) ==
    /\ x \in wire \ up
    /\ up' = up \cup {x}
    /\ UNCHANGED <<wire, twice>>

Next == \E x \in Record : Send(x) \/ Deliver(x)

Spec == Init /\ [][Next]_vars
================================================================================
