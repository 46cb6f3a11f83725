------------------------------- MODULE CardSearch -------------------------------
(***************************************************************************)
(* Searching the drug cards: PopularDataBloc and SearchPage.  The bloc is    *)
(* made when the page is first opened and asks for the cards once; the user  *)
(* types, clears, leaves and comes back while the answer is on its way; what *)
(* is on the glass is what the last frame built, and a touch reads the lists *)
(* of the bloc as they are when it comes.                                    *)
(*                                                                         *)
(* A card stands for its document; what a text is found in is the constant   *)
(* Matches.  The order by loves, and what sort leaves when a card has no     *)
(* `loves` and the comparison throws, is any order: nothing below depends on *)
(* it.  A read beyond the end of a list (a RangeError) finds NoCard.         *)
(*                                                                         *)
(* An operator named Bug... is a mistake one could make in the operator that *)
(* follows it, put in its place by a mutation run.                           *)
(***************************************************************************)
EXTENDS Naturals, Sequences, FiniteSets, SequencesExt

CONSTANTS
    Cards,
    NoCard,
    Texts,       \* what may stand in the text field
    EmptyText,
    Matches,     \* the cards whose title or description contains a text
    Suggested,   \* how many cards are suggested: 5 in the code
    Impatient    \* may a touch come between a change of the lists and its frame?

ASSUME SearchAssumption ==
    /\ IsFiniteSet(Cards) /\ NoCard \notin Cards
    /\ EmptyText \in Texts
    /\ Matches \in [Texts -> SUBSET Cards]
    /\ Matches[EmptyText] = Cards
    /\ Suggested \in Nat
    /\ Impatient \in BOOLEAN

VARIABLES
    contents,   \* the cards on the server
    fetch,      \* the getData of the constructor
    popular,    \* _popularData
    filtered,   \* _filteredData
    page,       \* the SearchPage: its text field, and what waits for a frame
    shown,      \* the items the last frame built
    touched,    \* the item the user touched last
    details     \* the card whose DetailsPage that touch opened

lists == <<popular, filtered>>
taps  == <<touched, details>>
vars  == <<contents, fetch, lists, page, shown, taps>>

Item == [card : Cards, date : Cards \cup {NoCard}]

At(list, i) == IF i \in DOMAIN list THEN list[i] ELSE NoCard

\* What a build shows.  The items of a search take their date from the list
\* that was not searched, at the same index.
suggestionUI(ps) ==
    [i \in 1 .. IF Len(ps) < Suggested THEN Len(ps) ELSE Suggested
        |-> [card |-> At(ps, i), date |-> At(ps, i)]]
afterSearchUI(ps, fs) ==
    [i \in 1 .. Len(fs) |-> [card |-> At(fs, i), date |-> At(ps, i)]]

Built(ps, fs) == IF fs = <<>> THEN suggestionUI(ps) ELSE afterSearchUI(ps, fs)

\* The list a touch reads: the page shows results or suggestions.
BugListTouched == popular
ListTouched == IF page.results THEN filtered ELSE popular

\* The cards of a list that are in S, in the order of the list.
Searched(list, S) ==
    LET kept == {i \in DOMAIN list : list[i] \in S}
    IN [n \in 1 .. Cardinality(kept) |->
           list[CHOOSE i \in kept : Cardinality({j \in kept : j <= i}) = n]]

\* afterSearch, but for the text itself: what is found replaces what was.
BugAfterSearchAdds(t) ==
    filtered' = filtered \o Searched(popular, Matches[t])
BugAfterSearchKeepsLast(t) ==
    LET found == Searched(popular, Matches[t])
    IN filtered' = IF found = <<>> THEN filtered ELSE found
afterSearch(t) ==
    filtered' = Searched(popular, Matches[t])

ClosedPage == [open |-> FALSE, text |-> EmptyText, results |-> FALSE,
               dirty |-> FALSE, clearing |-> FALSE]

--------------------------------------------------------------------------------
Init ==
    /\ contents \in SUBSET Cards
    /\ fetch = "none"
    /\ popular = <<>> /\ filtered = <<>>
    /\ page = ClosedPage
    /\ shown = <<>>
    /\ touched = NoCard /\ details = NoCard

\* The admin panel.
EditContents ==
    /\ contents' \in SUBSET Cards
    /\ UNCHANGED <<fetch, lists, page, shown, taps>>

\* The page is pushed and built; the first time, the bloc is made and getData
\* is sent.  What the last search found is still there.
OpenSearch ==
    /\ ~page.open
    /\ fetch' = IF fetch = "none" THEN "asked" ELSE fetch
    /\ page' = [ClosedPage EXCEPT !.open = TRUE, !.results = filtered # <<>>]
    /\ shown' = Built(popular, filtered)
    /\ UNCHANGED <<contents, lists, taps>>

CloseSearch ==
    /\ page.open
    /\ details = NoCard
    /\ page' = ClosedPage
    /\ shown' = <<>>
    /\ touched' = NoCard
    /\ UNCHANGED <<contents, fetch, lists, details>>

\* getData: the documents replace the list, in some order; unless the sort
\* throws, a page that listens is marked for the next frame.
FetchAnswered ==
    /\ fetch = "asked"
    /\ fetch' = "done"
    /\ popular' \in SetToSeqs(contents)
    /\ \E sorted \in BOOLEAN : page' = [page EXCEPT !.dirty = @ \/ (sorted /\ page.open)]
    /\ UNCHANGED <<contents, filtered, shown, taps>>

\* ... or the query fails, and nothing tries again.
FetchFails ==
    /\ fetch = "asked"
    /\ fetch' = "done"
    /\ UNCHANGED <<contents, lists, page, shown, taps>>

\* The user edits the text: onChanged.
Type(t) ==
    /\ page.open /\ details = NoCard
    /\ afterSearch(t)
    /\ page' = [page EXCEPT !.text = t, !.dirty = TRUE]
    /\ UNCHANGED <<contents, fetch, popular, shown, taps>>

\* The cross: everything is searched for now, the field emptied after the
\* next frame.
ClearText ==
    /\ page.open /\ details = NoCard
    /\ afterSearch(EmptyText)
    /\ page' = [page EXCEPT !.clearing = TRUE, !.dirty = TRUE]
    /\ UNCHANGED <<contents, fetch, popular, shown, taps>>

Frame ==
    /\ page.dirty
    /\ shown' = Built(popular, filtered)
    /\ page' = [page EXCEPT !.dirty = FALSE, !.clearing = FALSE,
                            !.results = filtered # <<>>,
                            !.text = IF page.clearing THEN EmptyText ELSE @]
    /\ UNCHANGED <<contents, fetch, lists, taps>>

\* onTap of the i-th item: DetailsPage is given the card of that index, as the
\* bloc has it now.
Tap(i) ==
    /\ page.open /\ details = NoCard
    /\ Impatient \/ ~page.dirty
    /\ touched' = shown[i].card
    /\ details' = At(ListTouched, i)
    /\ UNCHANGED <<contents, fetch, lists, page, shown>>

BackFromDetails ==
    /\ details # NoCard
    /\ details' = NoCard
    /\ touched' = NoCard
    /\ UNCHANGED <<contents, fetch, lists, page, shown>>

Next ==
    \/ EditContents
    \/ OpenSearch
    \/ CloseSearch
    \/ FetchAnswered
    \/ FetchFails
    \/ \E t \in Texts : Type(t)
    \/ ClearText
    \/ Frame
    \/ \E i \in DOMAIN shown : Tap(i)
    \/ BackFromDetails

Spec == Init /\ [][Next]_vars

--------------------------------------------------------------------------------
(* Properties *)

\* No item of a search is broken: though its date is read from the other list,
\* that list is never the shorter one, whenever the answer comes.
NoBrokenItem == \A i \in DOMAIN shown : shown[i].date # NoCard

\* The results on the glass are found by the text in the field, whatever was
\* typed, cleared, or left from an earlier visit.
ResultsMatchText ==
    page.open /\ page.results /\ ~page.dirty =>
        \A i \in DOMAIN shown : shown[i].card \in Matches[page.text]

\* The card that opens is the card that was touched.
TouchOpensCard == details # NoCard => details = touched
================================================================================
