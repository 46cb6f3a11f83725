-------------------------------- MODULE BioPairMC --------------------------------
(* Instances of BioPair for TLC. *)
EXTENDS BioPair, TLC

\* One byte, or more than the default buffer takes.
SomeData == {<<1>>, <<2, 1, 2>>}
SomeBytes == {1, 2}
Sym == Permutations(Bios)
================================================================================
