--------------------------------- MODULE NotesMC ---------------------------------
(* Instances of Notes for TLC.  Devices are not symmetric: IdleFlow picks
   one, and Lingering holds one. *)
EXTENDS Notes, TLC

\* People, texts and slots are interchangeable, and every property is a safety
\* property, so that one state of each orbit is enough.
Sym == Permutations(Users) \cup Permutations(Notes) \cup Permutations(Flows)
================================================================================
