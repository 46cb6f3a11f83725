----------------------------- MODULE CardFeedsProofs -----------------------------
(***************************************************************************)
(* What holds of CardFeeds for every set of cards, categories and stamps.   *)
(***************************************************************************)
EXTENDS CardFeeds, TLAPS

--------------------------------------------------------------------------------
\* The shape of the state: which fields there are, not what the lists hold.
Shape ==
    /\ feed = [f \in Feeds |-> [fetch |-> feed[f].fetch, list |-> feed[f].list,
                                told |-> feed[f].told]]
    /\ page = [tab |-> page.tab, dirty |-> page.dirty]
    /\ page.tab \in Tabs \cup {NoTab}

\* Featured's list is there once and for all: getData of NewsDataBloc is sent
\* at launch, and what the first tab shows is nothing or that list.
NewsOnce ==
    /\ feed["news"].fetch # "none"
    /\ feed["news"].fetch = "asked" => feed["news"].list = <<>>
    /\ page.tab = 0 => shown \in {<<>>, feed["news"].list}

FeedsInv == Shape /\ NewsOnce /\ ShownIsCurrent /\ TouchOpensCard

\* Asking changes no list, and nothing of a bloc that has asked.
LEMMA AskKeepsLists ==
    ASSUME Shape, NEW f \in Feeds, feed' = Ask(feed, f)
    PROVE  /\ \A g \in Feeds : feed'[g].list = feed[g].list /\ feed'[g].told = feed[g].told
           /\ \A g \in Feeds : feed[g].fetch # "none" => feed'[g].fetch = feed[g].fetch
           /\ feed' = [g \in Feeds |-> [fetch |-> feed'[g].fetch, list |-> feed'[g].list,
                                        told |-> feed'[g].told]]
<1>1. CASE feed[f].fetch = "none"
  <2>1. feed' = [feed EXCEPT ![f].fetch = "asked"]
    BY <1>1 DEF Ask
  <2>2. feed' = [g \in Feeds |-> IF g = f
                    THEN [fetch |-> "asked", list |-> feed[g].list, told |-> feed[g].told]
                    ELSE feed[g]]
    BY <2>1 DEF Shape
  <2>3. \A g \in Feeds : feed[g] = [fetch |-> feed[g].fetch, list |-> feed[g].list,
                                    told |-> feed[g].told]
    BY DEF Shape
  <2>. QED
    BY <1>1, <2>2, <2>3
<1>2. CASE feed[f].fetch # "none"
  BY <1>2 DEF Ask, Shape
<1>. QED
  BY <1>1, <1>2

\* The feeds of the tabs are feeds, and only the first tab reads the news.
LEMMA TabFeeds ==
    \A k \in Tabs : FeedOf(k) \in Feeds /\ (FeedOf(k) = "news" <=> k = 0)
BY DEF Tabs, FeedOf, Feeds

LEMMA FeedsInit == Init => FeedsInv
<1>. SUFFICES ASSUME Init PROVE FeedsInv
  OBVIOUS
<1>1. feed["news"].fetch = "asked" /\ feed["news"].list = <<>>
  BY DEF Init, Feeds, NewFeed
<1>2. Shape
  <2>1. NoTab \in Tabs \cup {NoTab}
    OBVIOUS
  <2>2. \A f \in Feeds : feed[f] = [fetch |-> feed[f].fetch, list |-> feed[f].list,
                                    told |-> feed[f].told]
    BY DEF Init, NewFeed
  <2>3. feed = [f \in Feeds |-> feed[f]]
    BY DEF Init
  <2>. QED
    BY <2>1, <2>2, <2>3 DEF Init, Shape
<1>3. NewsOnce /\ ShownIsCurrent /\ TouchOpensCard
  BY <1>1 DEF Init, NewsOnce, ShownIsCurrent, TouchOpensCard, NoTab
<1>. QED
  BY <1>2, <1>3 DEF FeedsInv

LEMMA FeedsStep == FeedsInv /\ [Next]_vars => FeedsInv'
<1>. SUFFICES ASSUME FeedsInv, [Next]_vars PROVE FeedsInv'
  OBVIOUS
<1>. USE DEF taps
<1>0. Shape /\ NewsOnce /\ ShownIsCurrent /\ TouchOpensCard
  BY DEF FeedsInv
<1>z. 0 \in Tabs /\ NoTab \notin Tabs /\ "news" \in Feeds
  BY DEF Tabs, NoTab, Feeds
<1>1. CASE EditContents
  BY <1>0, <1>1 DEF EditContents, FeedsInv, Shape, NewsOnce, ShownIsCurrent, TouchOpensCard, Built
<1>2. ASSUME NEW k \in Tabs, OpenTab(k) PROVE FeedsInv'
  <2>1. FeedOf(k) \in Feeds /\ (FeedOf(k) = "news" <=> k = 0)
    BY TabFeeds
  <2>2. /\ feed' = Ask(feed, FeedOf(k))
        /\ page' = [tab |-> k, dirty |-> FALSE]
        /\ shown' = Built(k)
        /\ touched' = NoCard
    BY <1>2 DEF OpenTab
  <2>3. /\ \A g \in Feeds : feed'[g].list = feed[g].list
        /\ \A g \in Feeds : feed[g].fetch # "none" => feed'[g].fetch = feed[g].fetch
        /\ feed' = [g \in Feeds |-> [fetch |-> feed'[g].fetch, list |-> feed'[g].list,
                                     told |-> feed'[g].told]]
    BY <1>0, <2>1, <2>2, AskKeepsLists
  <2>4. Shape'
    BY <2>2, <2>3 DEF Shape
  <2>5. shown' = BuiltOf(k, feed'[FeedOf(k)].list)
    BY <2>1, <2>2, <2>3 DEF Built
  <2>6. ShownIsCurrent'
    BY <2>2, <2>5 DEF ShownIsCurrent, Built
  <2>7. NewsOnce'
    <3>1. k = 0 => shown' = feed'["news"].list
      BY <2>1, <2>5 DEF BuiltOf
    <3>. QED
      BY <1>0, <1>z, <2>2, <2>3, <3>1 DEF NewsOnce
  <2>. QED
    BY <2>2, <2>4, <2>6, <2>7 DEF FeedsInv, TouchOpensCard
<1>3. CASE CloseTabs
  <2>1. /\ page' = [tab |-> NoTab, dirty |-> FALSE] /\ feed' = feed
        /\ shown' = <<>> /\ touched' = NoCard
    BY <1>3 DEF CloseTabs
  <2>. QED
    BY <1>0, <2>1 DEF FeedsInv, Shape, NewsOnce, ShownIsCurrent, TouchOpensCard
<1>4. ASSUME NEW f \in Feeds, Answered(f) PROVE FeedsInv'
  <2>1. PICK list : feed' = [feed EXCEPT ![f] = [fetch |-> "done", list |-> list,
                                                 told |-> Tells(f, Found(f))]]
    BY <1>4 DEF Answered
  <2>2. /\ feed'[f] = [fetch |-> "done", list |-> list, told |-> Tells(f, Found(f))]
        /\ \A g \in Feeds \ {f} : feed'[g] = feed[g]
        /\ feed' = [g \in Feeds |-> feed'[g]]
    BY <1>0, <2>1 DEF Shape
  <2>3. /\ page'.tab = page.tab
        /\ page'.dirty = (page.dirty \/ (Tells(f, Found(f)) /\ Listens(f)))
        /\ page' = [tab |-> page'.tab, dirty |-> page'.dirty]
    BY <1>0, <1>4 DEF Answered, Shape
  <2>4. UNCHANGED <<shown, touched, details>> /\ feed[f].fetch = "asked"
    BY <1>4 DEF Answered
  <2>5. Shape'
    <3>1. \A g \in Feeds : feed[g] = [fetch |-> feed[g].fetch, list |-> feed[g].list,
                                      told |-> feed[g].told]
      BY <1>0 DEF Shape
    <3>2. \A g \in Feeds : feed'[g] = [fetch |-> feed'[g].fetch, list |-> feed'[g].list,
                                       told |-> feed'[g].told]
      BY <2>2, <3>1
    <3>. QED
      BY <1>0, <2>2, <2>3, <3>2 DEF Shape
  <2>6. NewsOnce'
    <3>1. CASE f = "news"
      <4>1. feed["news"].list = <<>>
        BY <1>0, <2>4, <3>1 DEF NewsOnce
      <4>2. page.tab = 0 => shown = <<>>
        BY <1>0, <4>1 DEF NewsOnce
      <4>. QED
        BY <2>2, <2>3, <2>4, <3>1, <4>2 DEF NewsOnce
    <3>2. CASE f # "news"
      <4>1. feed'["news"] = feed["news"]
        BY <1>z, <2>2, <3>2
      <4>. QED
        BY <1>0, <2>3, <2>4, <4>1 DEF NewsOnce
    <3>. QED
      BY <3>1, <3>2
\* A tab of this feed is marked, or the list was not told of; others keep theirs.
  <2>7. ShownIsCurrent'
    <3>. SUFFICES ASSUME page.tab \in Tabs, ~page'.dirty, feed'[FeedOf(page.tab)].told
                  PROVE  shown = BuiltOf(page.tab, feed'[FeedOf(page.tab)].list)
      BY <1>0, <2>3, <2>4 DEF ShownIsCurrent, Shape, Built
    <3>1. FeedOf(page.tab) \in Feeds /\ page.tab # NoTab
      BY <1>z, TabFeeds
    <3>2. ~page.dirty /\ ~(Tells(f, Found(f)) /\ FeedOf(page.tab) = f)
      BY <2>3, <3>1 DEF Listens
    <3>3. FeedOf(page.tab) # f
      BY <2>2, <3>2
    <3>4. feed'[FeedOf(page.tab)] = feed[FeedOf(page.tab)]
      BY <2>2, <3>1, <3>3
    <3>. QED
      BY <1>0, <3>1, <3>2, <3>4 DEF ShownIsCurrent, Built
  <2>. QED
    BY <1>0, <2>4, <2>5, <2>6, <2>7 DEF FeedsInv, TouchOpensCard
<1>5. ASSUME NEW f \in Feeds, FetchFails(f) PROVE FeedsInv'
  <2>1. /\ feed' = [feed EXCEPT ![f].fetch = "failed"]
        /\ UNCHANGED <<page, shown, touched, details>>
        /\ feed[f].fetch = "asked"
    BY <1>5 DEF FetchFails
  <2>2. \A g \in Feeds : feed[g] = [fetch |-> feed[g].fetch, list |-> feed[g].list,
                                    told |-> feed[g].told]
    BY <1>0 DEF Shape
  <2>3. feed' = [g \in Feeds |-> IF g = f
                    THEN [fetch |-> "failed", list |-> feed[g].list, told |-> feed[g].told]
                    ELSE feed[g]]
    BY <1>0, <2>1 DEF Shape
  <2>4. /\ \A g \in Feeds : feed'[g].list = feed[g].list /\ feed'[g].told = feed[g].told
        /\ \A g \in Feeds : feed'[g].fetch \in {"failed", feed[g].fetch}
    BY <2>2, <2>3
  <2>5. Shape'
    BY <1>0, <2>1, <2>2, <2>3 DEF Shape
  <2>6. NewsOnce'
    BY <1>0, <1>z, <2>1, <2>4 DEF NewsOnce
  <2>7. ShownIsCurrent'
    <3>. SUFFICES ASSUME page.tab \in Tabs, ~page.dirty, feed'[FeedOf(page.tab)].told
                  PROVE  shown = BuiltOf(page.tab, feed'[FeedOf(page.tab)].list)
      BY <1>0, <2>1 DEF ShownIsCurrent, Shape, Built
    <3>1. FeedOf(page.tab) \in Feeds /\ page.tab # NoTab
      BY <1>z, TabFeeds
    <3>. QED
      BY <1>0, <2>4, <3>1 DEF ShownIsCurrent, Built
  <2>. QED
    BY <1>0, <2>1, <2>5, <2>6, <2>7 DEF FeedsInv, TouchOpensCard
<1>6. CASE Swipe
  <2>1. /\ page' = [page EXCEPT !.dirty = TRUE]
        /\ UNCHANGED <<feed, shown, touched, details>>
    BY <1>6 DEF Swipe
  <2>2. page' = [tab |-> page.tab, dirty |-> TRUE]
    BY <1>0, <2>1 DEF Shape
  <2>. QED
    BY <1>0, <2>1, <2>2 DEF FeedsInv, Shape, NewsOnce, ShownIsCurrent, TouchOpensCard
<1>7. CASE Frame
  <2>1. /\ page' = [page EXCEPT !.dirty = FALSE]
        /\ shown' = Built(page.tab)
        /\ UNCHANGED <<feed, touched, details>>
    BY <1>7 DEF Frame
  <2>2. page' = [tab |-> page.tab, dirty |-> FALSE]
    BY <1>0, <2>1 DEF Shape
  <2>3. page.tab = 0 => shown' = feed["news"].list
    BY <2>1 DEF Built, BuiltOf, FeedOf
  <2>4. ShownIsCurrent'
    BY <2>1, <2>2 DEF ShownIsCurrent, Built
  <2>. QED
    BY <1>0, <2>1, <2>2, <2>3, <2>4 DEF FeedsInv, Shape, NewsOnce, TouchOpensCard
<1>8. ASSUME NEW i \in DOMAIN shown, Tap(i) PROVE FeedsInv'
  <2>1. /\ touched' = shown[i]
        /\ page.tab # 0 => details' = shown[i]
        /\ page.tab = 0 /\ i \in DOMAIN feed["news"].list => details' = feed["news"].list[i]
        /\ UNCHANGED <<feed, page, shown>>
    BY <1>8 DEF Tap
  <2>2. page.tab = 0 => shown = feed["news"].list
    BY <1>0 DEF NewsOnce
  <2>3. TouchOpensCard'
    BY <2>1, <2>2 DEF TouchOpensCard
  <2>. QED
    BY <1>0, <2>1, <2>3 DEF FeedsInv, Shape, NewsOnce, ShownIsCurrent, Built
<1>9. CASE BackFromDetails
  BY <1>0, <1>9 DEF BackFromDetails, FeedsInv, Shape, NewsOnce, ShownIsCurrent,
                    TouchOpensCard, Built
<1>10. CASE UNCHANGED vars
  BY <1>0, <1>10 DEF vars, FeedsInv, Shape, NewsOnce, ShownIsCurrent,
                     TouchOpensCard, Built
<1>. QED
  BY <1>1, <1>2, <1>3, <1>4, <1>5, <1>6, <1>7, <1>8, <1>9, <1>10 DEF Next

--------------------------------------------------------------------------------
\* No tab keeps an old list: between answers, frames, swipes and openings in
\* any order, a tab whose bloc has told of its list shows it, or is about to.
THEOREM TabsAreCurrent == Spec => []ShownIsCurrent
<1>1. FeedsInv => ShownIsCurrent
  BY DEF FeedsInv
<1>. QED
  BY <1>1, FeedsInit, FeedsStep, PTL DEF Spec

\* The card that opens is the card that was touched, on Featured too, because
\* NewsDataBloc asks once.
THEOREM TouchesAreTrue == Spec => []TouchOpensCard
<1>1. FeedsInv => TouchOpensCard
  BY DEF FeedsInv
<1>. QED
  BY <1>1, FeedsInit, FeedsStep, PTL DEF Spec

--------------------------------------------------------------------------------
(* Every card has a tab: what a feed shows are cards of its collection, and the *)
(* three lists of words agree.                                                  *)

OwnCards ==
    /\ Range(feed["recent"].list) \subseteq Drugs
    /\ Range(feed["obstetrics"].list) \subseteq ObDrugs

\* Of the nine words, each label but the last holds the one of its own tab.
LEMMA OneTabPerLabel ==
    ASSUME NEW l \in Range(categories), l # <<"Updates">>
    PROVE  \E k \in 1 .. 9 : /\ categories[k] = l
                             /\ \A j \in 1 .. 9 : TabWords[j] \in Range(l) <=> j = k
<1>1. PICK k \in 1 .. 10 : l = categories[k]
  BY DEF Range, categories
<1>2. k \in 1 .. 9
  BY <1>1 DEF categories
<1>3. ASSUME NEW j \in 1 .. 9 PROVE TabWords[j] \in Range(l) <=> j = k
  <2>1. CASE k = 1
    <3>1. Range(l) = {"Induction"}
      BY <1>1, <2>1 DEF Range, categories
    <3>. QED
      BY <2>1, <3>1 DEF TabWords
  <2>2. CASE k = 2
    <3>1. Range(l) = {"Volatile", "Anesthetics"}
      BY <1>1, <2>2 DEF Range, categories
    <3>. QED
      BY <2>2, <3>1 DEF TabWords
  <2>3. CASE k = 3
    <3>1. Range(l) = {"Analgesics"}
      BY <1>1, <2>3 DEF Range, categories
    <3>. QED
      BY <2>3, <3>1 DEF TabWords
  <2>4. CASE k = 4
    <3>1. Range(l) = {"Cardiac"}
      BY <1>1, <2>4 DEF Range, categories
    <3>. QED
      BY <2>4, <3>1 DEF TabWords
  <2>5. CASE k = 5
    <3>1. Range(l) = {"Local", "Anesthetics"}
      BY <1>1, <2>5 DEF Range, categories
    <3>. QED
      BY <2>5, <3>1 DEF TabWords
  <2>6. CASE k = 6
    <3>1. Range(l) = {"PONV"}
      BY <1>1, <2>6 DEF Range, categories
    <3>. QED
      BY <2>6, <3>1 DEF TabWords
  <2>7. CASE k = 7
    <3>1. Range(l) = {"Other"}
      BY <1>1, <2>7 DEF Range, categories
    <3>. QED
      BY <2>7, <3>1 DEF TabWords
  <2>8. CASE k = 8
    <3>1. Range(l) = {"Paralytics"}
      BY <1>1, <2>8 DEF Range, categories
    <3>. QED
      BY <2>8, <3>1 DEF TabWords
  <2>9. CASE k = 9
    <3>1. Range(l) = {"Reversals"}
      BY <1>1, <2>9 DEF Range, categories
    <3>. QED
      BY <2>9, <3>1 DEF TabWords
  <2>. QED
    BY <1>2, <2>1, <2>2, <2>3, <2>4, <2>5, <2>6, <2>7, <2>8, <2>9
<1>. QED
  BY <1>1, <1>2, <1>3

LEMMA OnlyLaborIsLabor ==
    ASSUME NEW l \in Range(obCategories), "Labor" \in Range(l)
    PROVE  l = <<"Labor">>
<1>1. PICK k \in 1 .. 3 : l = obCategories[k]
  BY DEF Range, obCategories
<1>2. CASE k = 1
  BY <1>1, <1>2 DEF obCategories
<1>3. CASE k = 2
  <2>1. Range(l) = {"Cesarean"}
    BY <1>1, <1>3 DEF Range, obCategories
  <2>. QED
    BY <2>1
<1>4. CASE k = 3
  <2>1. Range(l) = {"Other"}
    BY <1>1, <1>4 DEF Range, obCategories
  <2>. QED
    BY <2>1
<1>. QED
  BY <1>2, <1>3, <1>4

LEMMA OwnCardsAreLabelled == OwnCards => CardsUnderTheirLabel
<1>. SUFFICES ASSUME OwnCards PROVE CardsUnderTheirLabel
  OBVIOUS
<1>1. ASSUME NEW c \in Range(feed["recent"].list), CategoryOf[c] # <<"Updates">>
      PROVE  \E k \in 1 .. 9 : /\ Label(k) = CategoryOf[c]
                               /\ \A j \in 1 .. 9 : InTab(j, c) <=> j = k
  <2>1. CategoryOf[c] \in Range(categories)
    BY FeedsAssumption DEF OwnCards
  <2>2. PICK k \in 1 .. 9 : /\ categories[k] = CategoryOf[c]
                            /\ \A j \in 1 .. 9 : TabWords[j] \in Range(CategoryOf[c]) <=> j = k
    BY <1>1, <2>1, OneTabPerLabel
  <2>3. \A j \in 1 .. 9 : WordOf(j) = TabWords[j] /\ Label(j) = categories[j]
    BY DEF WordOf, Label
  <2>. QED
    BY <2>2, <2>3 DEF InTab
<1>2. ASSUME NEW c \in Range(feed["obstetrics"].list)
      PROVE  InTab(10, c) <=> Label(10) = CategoryOf[c]
  <2>1. CategoryOf[c] \in Range(obCategories)
    BY FeedsAssumption DEF OwnCards
  <2>2. InTab(10, c) <=> "Labor" \in Range(CategoryOf[c])
    BY DEF InTab, WordOf
  <2>3. Label(10) = <<"Labor">>
    BY DEF Label, obCategories
  <2>4. "Labor" \in Range(<<"Labor">>)
    BY DEF Range
  <2>. QED
    BY <2>1, <2>2, <2>3, <2>4, OnlyLaborIsLabor
<1>. QED
  BY <1>1, <1>2 DEF CardsUnderTheirLabel

\* An order of a set of cards has no other card in it.
LEMMA OrdersHaveNoOthers ==
    ASSUME NEW f, NEW S, NEW list \in Orders(f, S)
    PROVE  Range(list) \subseteq S
BY DEF Orders, SetToSeqs, Range

LEMMA OwnCardsInit == Init => OwnCards
BY DEF Init, OwnCards, Feeds, NewFeed, Range

LEMMA OwnCardsStep == Shape /\ OwnCards /\ [Next]_vars => OwnCards'
<1>. SUFFICES ASSUME Shape, OwnCards, [Next]_vars PROVE OwnCards'
  OBVIOUS
<1>1. "recent" \in Feeds /\ "obstetrics" \in Feeds
  BY DEF Feeds
<1>2. ASSUME \A g \in Feeds : feed'[g].list = feed[g].list PROVE OwnCards'
  BY <1>1, <1>2 DEF OwnCards
<1>3. ASSUME NEW k \in Tabs, OpenTab(k) PROVE OwnCards'
  BY <1>2, <1>3, TabFeeds, AskKeepsLists DEF OpenTab
<1>4. ASSUME NEW f \in Feeds, Answered(f) PROVE OwnCards'
  <2>1. PICK list \in Orders(f, Found(f)) :
           feed' = [feed EXCEPT ![f] = [fetch |-> "done", list |-> list,
                                        told |-> Tells(f, Found(f))]]
    BY <1>4 DEF Answered
  <2>2. DOMAIN feed = Feeds
    BY DEF Shape
  <2>3. feed'[f].list = list /\ \A g \in Feeds \ {f} : feed'[g] = feed[g]
    BY <2>1, <2>2
  <2>4. Range(list) \subseteq Found(f)
    BY OrdersHaveNoOthers
  <2>5. /\ f = "recent" => Found(f) \subseteq Drugs
        /\ f = "obstetrics" => Found(f) \subseteq ObDrugs
    BY DEF Found
  <2>. QED
    BY <1>1, <2>3, <2>4, <2>5 DEF OwnCards
<1>5. ASSUME NEW f \in Feeds, FetchFails(f) PROVE OwnCards'
  <2>1. feed' = [feed EXCEPT ![f].fetch = "failed"]
    BY <1>5 DEF FetchFails
  <2>2. \A g \in Feeds : feed'[g].list = feed[g].list
    BY <2>1 DEF Shape
  <2>. QED
    BY <1>2, <2>2
<1>6. CASE UNCHANGED feed
  BY <1>2, <1>6
<1>. QED
  BY <1>3, <1>4, <1>5, <1>6
     DEF Next, vars, EditContents, CloseTabs, Swipe, Frame, Tap, BackFromDetails

\* Whatever cards of the listed categories the panel holds, a drug that
\* RecentDataBloc has, but for the updates, is in the one tab with its label,
\* and the obstetric tab shows the cards of its label and no other.
THEOREM CardsAreLabelled == Spec => []CardsUnderTheirLabel
<1>1. FeedsInv => Shape
  BY DEF FeedsInv
<1>. QED
  BY <1>1, FeedsInit, FeedsStep, OwnCardsInit, OwnCardsStep, OwnCardsAreLabelled, PTL DEF Spec
================================================================================
