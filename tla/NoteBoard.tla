-------------------------------- MODULE NoteBoard --------------------------------
(***************************************************************************)
(* What the notes under a card promise, whoever writes from whichever phone: *)
(* a note appears once, under the name of the session it was saved in; no    *)
(* note takes the place of another, but one without a name that of one       *)
(* without a name; and a note that was removed stays away.                   *)
(*                                                                         *)
(* Notes.tla is shown to implement this module, with `board` read from the   *)
(* documents on the server.                                                  *)
(***************************************************************************)
CONSTANTS Users, Nobody, Notes

VARIABLES board,   \* the notes shown: pairs of an author and a note
          posted   \* every pair that was ever shown

boardVars == <<board, posted>>

BoardInit == board = {} /\ posted = {}

\* In what follows p is a pair of an author, or nobody, and a note.
Pairs == (Users \cup {Nobody}) \X Notes

New(p) ==
    /\ posted' = posted \cup {p}
    /\ \A q \in posted : q[2] # p[2]

Post(p) == board' = board \cup {p}

\* A note of nobody goes where another of nobody was.
Replace(m, p) ==
    /\ m[1] = Nobody /\ p[1] = Nobody
    /\ board' = (board \ {m}) \cup {p}

Remove(p) ==
    /\ UNCHANGED posted
    /\ board' = board \ {p}

BoardNext ==
    \/ \E p \in Pairs : New(p) /\ (Post(p) \/ \E m \in board : Replace(m, p))
    \/ \E p \in board : Remove(p)

BoardSpec == BoardInit /\ [][BoardNext]_boardVars
================================================================================
