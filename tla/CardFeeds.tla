------------------------------- MODULE CardFeeds -------------------------------
(***************************************************************************)
(* The three feeds of cards and the tabs that show them: NewsDataBloc behind *)
(* Featured on the first tab, RecentDataBloc behind the nine tabs of         *)
(* categories, ObstetricsDataBloc behind the tab of ObstetricsPage.          *)
(*                                                                         *)
(* A feed asks once in the life of the process: NewsDataBloc at launch, the  *)
(* others when the first tab that reads them is built.  What is on the glass *)
(* is what the last frame built; a tab is built anew each time it is opened, *)
(* and marked for the next frame when a bloc it listens to tells it so.      *)
(* One tab is on the glass at a time; a restart of the process is Init again. *)
(*                                                                         *)
(* A card stands for its document.  A category is its sequence of words, and *)
(* `contains` looks for one of them.                                        *)
(*                                                                         *)
(* An operator named Bug... is a mistake one could make in the operator that *)
(* follows it, put in its place by a mutation run.                           *)
(*                                                                         *)
(* Bound: the server has at most MaxDocs cards at a time.                    *)
(***************************************************************************)
EXTENDS Naturals, Sequences, SequencesExt

CONSTANTS
    Drugs,        \* cards of the collection `contents`
    ObDrugs,      \* cards of the collection `obstetrics`
    NoCard,
    CategoryOf,   \* the field `category` of a card
    Stamp,        \* the field `timestamp`, 0 when a card has none
    MaxDocs

Cards == Drugs \cup ObDrugs

categories ==
    << <<"Induction">>, <<"Volatile", "Anesthetics">>, <<"Analgesics">>, <<"Cardiac">>,
       <<"Local", "Anesthetics">>, <<"PONV">>, <<"Other">>, <<"Paralytics">>,
       <<"Reversals">>, <<"Updates">> >>
obCategories == << <<"Labor">>, <<"Cesarean">>, <<"Other">> >>

\* category_data.dart asks that the categories of the admin panel be these.
ASSUME FeedsAssumption ==
    /\ Drugs \cap ObDrugs = {}
    /\ NoCard \notin Cards
    /\ CategoryOf \in [Cards -> Range(categories) \cup Range(obCategories)]
    /\ \A c \in Drugs : CategoryOf[c] \in Range(categories)
    /\ \A c \in ObDrugs : CategoryOf[c] \in Range(obCategories)
    /\ Stamp \in [Cards -> Nat]
    /\ MaxDocs \in Nat

VARIABLES
    server,    \* the cards on the server
    feed,      \* per bloc: its getData, its list, and whether the list was told of
    page,      \* the tab on the glass, and whether it waits for a frame
    shown,     \* the items the last frame built
    touched,   \* the item the user touched last
    details    \* the card whose page that touch opened

taps == <<touched, details>>
vars == <<server, feed, page, shown, taps>>

--------------------------------------------------------------------------------
Feeds == {"news", "recent", "obstetrics"}
Tabs  == 0 .. 10      \* Tab0 .. Tab9 of HomePage, ObstetricsTab0
NoTab == 11

FeedOf(k) == CASE k = 0  -> "news"
               [] k = 10 -> "obstetrics"
               [] OTHER  -> "recent"

\* The words that Tab1 .. Tab9 look for.
BugTabWords == <<"Induction", "Anesthetics", "Analgesics", "Cardiac", "Local",
                 "PONV", "Other", "Paralytics", "Reversals">>
TabWords == <<"Induction", "Volatile", "Analgesics", "Cardiac", "Local",
              "PONV", "Other", "Paralytics", "Reversals">>
WordOf(k) == IF k = 10 THEN "Labor" ELSE TabWords[k]

\* The text over tab k.
Label(k) == IF k = 10 THEN <<"Labor">> ELSE categories[k]

\* What the build of tab k shows of its feed's list.
InTab(k, c)     == WordOf(k) \in Range(CategoryOf[c])
BuiltOf(k, list) ==
    IF k = 0 THEN list ELSE SelectSeq(list, LAMBDA c : InTab(k, c))
Built(k) == BuiltOf(k, feed[FeedOf(k)].list)

\* What a query finds, and NewsDataBloc keeps of it.
Found(f) ==
    CASE f = "news"       -> {c \in server \cap Drugs : CategoryOf[c] = <<"Updates">>}
      [] f = "recent"     -> server \cap Drugs
      [] f = "obstetrics" -> server \cap ObDrugs

\* Comparing with a card that has no timestamp throws.  Equal timestamps come
\* in any order: sort is not stable.
SortThrows(S) == Cardinality(S) > 1 /\ \E c \in S : Stamp[c] = 0
Newest(q) == \A i, j \in DOMAIN q : i < j => Stamp[q[i]] >= Stamp[q[j]]
Orders(f, S) == {q \in SetToSeqs(S) : f = "news" \/ SortThrows(S) \/ Newest(q)}

\* Who tells its listeners: not NewsDataBloc, and nobody after an exception.
Tells(f, S) == f # "news" /\ ~SortThrows(S)

\* Every tab listens to its bloc.
BugListens(f) == page.tab = 0 /\ f = "news"
Listens(f) == page.tab # NoTab /\ FeedOf(page.tab) = f

\* The provider makes a bloc, whose constructor asks, the first time.
BugAsk(fd, f) == [fd EXCEPT ![f].fetch = "asked"]
BugAskNever(fd, f) == fd
Ask(fd, f) == IF fd[f].fetch = "none" THEN [fd EXCEPT ![f].fetch = "asked"] ELSE fd

NewFeed  == [fetch |-> "none", list |-> <<>>, told |-> TRUE]

--------------------------------------------------------------------------------
Init ==
    /\ server \in {S \in SUBSET Cards : Cardinality(S) <= MaxDocs}
    /\ feed = [f \in Feeds |-> IF f = "news" THEN [NewFeed EXCEPT !.fetch = "asked"]
                                             ELSE NewFeed]
    /\ page = [tab |-> NoTab, dirty |-> FALSE]
    /\ shown = <<>>
    /\ touched = NoCard /\ details = NoCard

\* The admin panel.
EditContents ==
    /\ server' \in {S \in SUBSET Cards : Cardinality(S) <= MaxDocs}
    /\ UNCHANGED <<feed, page, shown, taps>>

\* A tab is opened, from another one or with its page, and built.
OpenTab(k) ==
    /\ details = NoCard
    /\ page.tab # k
    /\ feed' = Ask(feed, FeedOf(k))
    /\ page' = [tab |-> k, dirty |-> FALSE]
    /\ shown' = Built(k)
    /\ touched' = NoCard
    /\ UNCHANGED <<server, details>>

\* The home pages are left, by a logout or another page of the bottom bar.
CloseTabs ==
    /\ details = NoCard
    /\ page' = [tab |-> NoTab, dirty |-> FALSE]
    /\ shown' = <<>>
    /\ touched' = NoCard
    /\ UNCHANGED <<server, feed, details>>

\* getData, to its end: the documents replace the list, are sorted, and the
\* listeners told.
Answered(f) ==
    /\ feed[f].fetch = "asked"
    /\ \E list \in Orders(f, Found(f)) :
          feed' = [feed EXCEPT ![f] = [fetch |-> "done", list |-> list,
                                       told |-> Tells(f, Found(f))]]
    /\ page' = [page EXCEPT !.dirty = @ \/ (Tells(f, Found(f)) /\ Listens(f))]
    /\ UNCHANGED <<server, shown, taps>>

\* ... or the query fails, and nothing tries again.
FetchFails(f) ==
    /\ feed[f].fetch = "asked"
    /\ feed' = [feed EXCEPT ![f].fetch = "failed"]
    /\ UNCHANGED <<server, page, shown, taps>>

\* onPageChanged of Featured.
Swipe ==
    /\ page.tab = 0 /\ details = NoCard
    /\ Len(shown) > 1
    /\ page' = [page EXCEPT !.dirty = TRUE]
    /\ UNCHANGED <<server, feed, shown, taps>>

Frame ==
    /\ page.dirty
    /\ page' = [page EXCEPT !.dirty = FALSE]
    /\ shown' = Built(page.tab)
    /\ UNCHANGED <<server, feed, taps>>

\* onTap of the i-th item.  categoryTabList closes over the list it was built
\* from; Featured indexes the list of the bloc as it is now.
Tap(i) ==
    /\ page.tab # NoTab /\ details = NoCard
    /\ touched' = shown[i]
    /\ details' = IF page.tab # 0 THEN shown[i]
                  ELSE LET list == feed["news"].list
                       IN IF i \in DOMAIN list THEN list[i] ELSE NoCard
    /\ UNCHANGED <<server, feed, page, shown>>

BackFromDetails ==
    /\ details # NoCard
    /\ details' = NoCard /\ touched' = NoCard
    /\ UNCHANGED <<server, feed, page, shown>>

Next ==
    \/ EditContents
    \/ \E k \in Tabs : OpenTab(k)
    \/ CloseTabs
    \/ \E f \in Feeds : Answered(f) \/ FetchFails(f)
    \/ Swipe
    \/ Frame
    \/ \E i \in DOMAIN shown : Tap(i)
    \/ BackFromDetails

Spec == Init /\ [][Next]_vars

\* Queries are answered or fail, and frames are drawn.
Fairness ==
    /\ \A f \in Feeds : WF_vars(Answered(f) \/ FetchFails(f))
    /\ WF_vars(Frame)

FairSpec == Spec /\ Fairness

--------------------------------------------------------------------------------
(* Properties *)

\* No card is under another label than its own.  Each that RecentDataBloc has,
\* but for the updates, which are Featured's, is in one tab, the one with its
\* label; of the obstetric cards those of the label of the only tab are in it,
\* and the others are in none, since obstetrics.dart builds no tab for them.
\* The words the tabs look for, the labels and the list of categories are three
\* lists in eleven files.
CardsUnderTheirLabel ==
    /\ \A c \in Range(feed["recent"].list) : CategoryOf[c] # <<"Updates">> =>
          \E k \in 1 .. 9 : /\ Label(k) = CategoryOf[c]
                            /\ \A j \in 1 .. 9 : InTab(j, c) <=> j = k
    /\ \A c \in Range(feed["obstetrics"].list) : InTab(10, c) <=> Label(10) = CategoryOf[c]

\* A tab never keeps an old list: once a change of its bloc was told of, every
\* tab that waits for no frame shows what the bloc has, whichever of answer
\* and opening came first.  (The list of Featured is never told of.)
ShownIsCurrent ==
    page.tab # NoTab /\ ~page.dirty /\ feed[FeedOf(page.tab)].told =>
        shown = Built(page.tab)

\* The card that opens is the card that was touched, though Featured's items
\* index a list that getData clears and fills in place.
TouchOpensCard == touched # NoCard => details = touched

\* The loading animation of a tab of categories does not go on for good: cards
\* come, or the user goes, or the query has failed, found nothing for the tab,
\* or found a card it could not sort.
LoadingEnds ==
    \A k \in 1 .. 10 :
        page.tab = k /\ shown = <<>> ~>
            \/ page.tab # k
            \/ shown # <<>>
            \/ feed[FeedOf(k)].fetch = "failed"
            \/ feed[FeedOf(k)].fetch = "done" /\ (Built(k) = <<>> \/ ~feed[FeedOf(k)].told)
================================================================================
