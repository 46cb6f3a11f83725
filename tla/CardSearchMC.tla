------------------------------ MODULE CardSearchMC ------------------------------
(* An instance of CardSearch for TLC: three cards, a text that finds two of     *)
(* them, one that finds the third, and one that finds none.                     *)
EXTENDS CardSearch

CONSTANTS c1, c2, c3, t0, t1, t2, t3

MCCards == {c1, c2, c3}
MCTexts == {t0, t1, t2, t3}
MCMatches == [t \in MCTexts |->
                CASE t = t0 -> MCCards
                  [] t = t1 -> {c1, c2}
                  [] t = t2 -> {c3}
                  [] t = t3 -> {}]

\* Searched is a filter: what SelectSeq makes of every list of up to four cards.
ASSUME SearchedSelects ==
    \A list \in BoundedSeq(MCCards, 4), S \in SUBSET MCCards :
        Searched(list, S) = SelectSeq(list, LAMBDA c : c \in S)
================================================================================
