------------------------------ MODULE CardFeedsMC ------------------------------
(* Instances of CardFeeds for TLC.  The large one has a card of every category  *)
(* of drugs, two updates and an obstetric card; in the small one a drug has no  *)
(* timestamp.                                                                   *)
EXTENDS CardFeeds

AllDrugs     == 1 .. 11
AllObDrugs   == 12 .. 13
AllCategory  == [c \in 1 .. 13 |-> CASE c <= 10 -> categories[c]
                                     [] c = 11 -> <<"Updates">>
                                     [] OTHER  -> obCategories[c - 11]]
AllStamp     == [c \in 1 .. 13 |-> c]

FewDrugs     == 1 .. 4
FewObDrugs   == {5}
FewCategory  == [c \in 1 .. 5 |-> CASE c = 1 -> <<"Volatile", "Anesthetics">>
                                    [] c = 2 -> <<"Local", "Anesthetics">>
                                    [] c = 5 -> <<"Labor">>
                                    [] OTHER -> <<"Updates">>]
FewStamp     == [c \in 1 .. 5 |-> IF c = 2 THEN 0 ELSE c]
================================================================================
