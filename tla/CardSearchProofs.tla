----------------------------- MODULE CardSearchProofs -----------------------------
(***************************************************************************)
(* What holds of CardSearch for every set of cards, every set of texts with *)
(* what they are found in, and every number of suggestions.                 *)
(***************************************************************************)
EXTENDS CardSearch, FiniteSetTheorems, TLAPS

--------------------------------------------------------------------------------
(* The filter: the place of a card among those kept is its rank, and every     *)
(* rank up to their number is some card's.                                     *)

Kept(list, S) == {i \in DOMAIN list : list[i] \in S}
Rank(K, i)    == Cardinality({j \in K : j <= i})

LEMMA KeptIsFinite ==
    ASSUME NEW C, NEW list \in Seq(C), NEW S
    PROVE  /\ Kept(list, S) \subseteq 1 .. Len(list)
           /\ IsFiniteSet(Kept(list, S)) /\ Cardinality(Kept(list, S)) \in Nat
           /\ Cardinality(Kept(list, S)) <= Len(list)
<1>1. Kept(list, S) \subseteq 1 .. Len(list)
  BY DEF Kept
<1>2. Len(list) \in Nat
  OBVIOUS
<1>3. IsFiniteSet(1 .. Len(list)) /\ Cardinality(1 .. Len(list)) = Len(list)
  BY <1>2, FS_Interval
<1>4. IsFiniteSet(Kept(list, S)) /\ Cardinality(Kept(list, S)) <= Len(list)
  BY <1>1, <1>3, FS_Subset
<1>5. Cardinality(Kept(list, S)) \in Nat
  BY <1>4, FS_CardinalityType
<1>. QED
  BY <1>1, <1>4, <1>5

\* Ranks are positions, and a later one is a higher one.
LEMMA RankIsAPlace ==
    ASSUME NEW K, IsFiniteSet(K), K \subseteq Nat, NEW i \in K
    PROVE  Rank(K, i) \in 1 .. Cardinality(K)
<1>. DEFINE D == {j \in K : j <= i}
<1>1. D \in SUBSET K /\ i \in D
  OBVIOUS
<1>. HIDE DEF D
<1>2. IsFiniteSet(D) /\ Cardinality(D) \in Nat /\ Cardinality(K) \in Nat
      /\ Cardinality(D) <= Cardinality(K)
  BY <1>1, FS_Subset, FS_CardinalityType
<1>3. Cardinality(D) # 0
  BY <1>1, <1>2, FS_EmptySet
<1>. QED
  BY <1>2, <1>3 DEF Rank, D

LEMMA RankGrows ==
    ASSUME NEW K, IsFiniteSet(K), K \subseteq Nat, NEW i \in K, NEW k \in K, i < k
    PROVE  Rank(K, i) < Rank(K, k)
<1>. DEFINE D == {j \in K : j <= i}
            E == {j \in K : j <= k}
<1>1. i \in Nat /\ k \in Nat
  OBVIOUS
<1>2. ASSUME NEW j \in D PROVE j \in E
  <2>1. j \in Nat /\ j \in K /\ j <= i
    OBVIOUS
  <2>. QED
    BY <1>1, <2>1
<1>3. E \in SUBSET K /\ k \in E /\ k \notin D
  BY <1>1
<1>4. D \in SUBSET E
  BY <1>2
<1>. HIDE DEF D, E
<1>5. IsFiniteSet(E) /\ IsFiniteSet(D)
  BY <1>3, <1>4, FS_Subset
<1>6. Cardinality(D) <= Cardinality(E) /\ Cardinality(D) # Cardinality(E)
  BY <1>3, <1>4, <1>5, FS_Subset
<1>7. Cardinality(D) \in Nat /\ Cardinality(E) \in Nat
  BY <1>5, FS_CardinalityType
<1>8. Cardinality(D) < Cardinality(E)
  BY <1>6, <1>7
<1>. QED
  BY <1>8 DEF Rank, D, E

\* Otherwise more cards than ranks would be left, and two would share one.
LEMMA EveryPlaceIsTaken ==
    ASSUME NEW K, IsFiniteSet(K), K \subseteq Nat, NEW n \in 1 .. Cardinality(K)
    PROVE  \E i \in K : Rank(K, i) = n
<1>. DEFINE N == Cardinality(K)
            T == (1 .. N) \ {n}
            f == [i \in K |-> Rank(K, i)]
<1>1. N \in Nat
  BY FS_CardinalityType
<1>2. IsFiniteSet(1 .. N) /\ Cardinality(1 .. N) = N
  BY <1>1, FS_Interval
<1>3. IsFiniteSet(T) /\ Cardinality(T) < N
  <2>1. n \in 1 .. N
    OBVIOUS
  <2>. HIDE DEF N
  <2>2. IsFiniteSet(T) /\ Cardinality(T) = N - 1
    BY <1>2, <2>1, FS_RemoveElement
  <2>. HIDE DEF T
  <2>. QED
    BY <1>1, <2>2
<1>. SUFFICES ASSUME \A i \in K : Rank(K, i) # n PROVE FALSE
  OBVIOUS
<1>4. f \in [K -> T]
  BY RankIsAPlace
<1>. HIDE DEF T
<1>5. PICK i, k \in K : i # k /\ f[i] = f[k]
  <2>. HIDE DEF f
  <2>. QED
    BY <1>3, <1>4, FS_PigeonHole
<1>6. Rank(K, i) = Rank(K, k)
  BY <1>5
<1>7. \A j \in K : Rank(K, j) \in 1 .. Cardinality(K)
  BY RankIsAPlace
<1>. HIDE DEF f, N
<1>8. i \in Nat /\ k \in Nat /\ i # k
  BY <1>5
<1>9. CASE i < k
  <2>1. Rank(K, i) < Rank(K, k)
    BY <1>9, RankGrows
  <2>. QED
    BY <1>6, <1>7, <2>1
<1>10. CASE k < i
  <2>1. Rank(K, k) < Rank(K, i)
    BY <1>10, RankGrows
  <2>. QED
    BY <1>6, <1>7, <2>1
<1>. QED
  BY <1>8, <1>9, <1>10

\* What is found is no longer than the list, is of its cards, and is of S.
LEMMA SearchedFinds ==
    ASSUME NEW C, NEW list \in Seq(C), NEW S
    PROVE  /\ Searched(list, S) \in Seq(C)
           /\ Len(Searched(list, S)) <= Len(list)
           /\ \A n \in DOMAIN Searched(list, S) : Searched(list, S)[n] \in S
<1>. DEFINE K == Kept(list, S)
            N == Cardinality(K)
            place(n) == CHOOSE i \in K : Rank(K, i) = n
            found == [n \in 1 .. N |-> list[place(n)]]
<1>1. K \subseteq 1 .. Len(list) /\ IsFiniteSet(K) /\ N \in Nat /\ N <= Len(list)
  BY KeptIsFinite
<1>2. Searched(list, S) = found
  BY DEF Searched, Kept, Rank
<1>3. ASSUME NEW n \in 1 .. N PROVE list[place(n)] \in C /\ list[place(n)] \in S
  <2>1. \E i \in K : Rank(K, i) = n
    BY <1>1, EveryPlaceIsTaken
  <2>2. place(n) \in K
    BY <2>1
  <2>. HIDE DEF place
  <2>3. place(n) \in 1 .. Len(list) /\ list[place(n)] \in S
    BY <1>1, <2>2 DEF Kept
  <2>. QED
    BY <2>3
<1>. HIDE DEF place, K, N
<1>4. found \in Seq(C) /\ Len(found) = N /\ DOMAIN found = 1 .. N
  BY <1>1, <1>3
<1>5. \A n \in 1 .. N : found[n] \in S
  BY <1>3
<1>. QED
  BY <1>1, <1>2, <1>4, <1>5

--------------------------------------------------------------------------------
(* The inductive invariant *)

\* What the last search found fits in the list it was found in; until getData
\* has been answered or has failed there is no list, and nothing is shown.
Lists ==
    /\ contents \subseteq Cards /\ popular \in Seq(Cards) /\ filtered \in Seq(Cards)
    /\ Len(filtered) <= Len(popular)
    /\ fetch \in {"none", "asked", "done"}
    /\ fetch # "done" => popular = <<>> /\ DOMAIN shown = {}

Pages ==
    /\ page \in [open : BOOLEAN, text : Texts, results : BOOLEAN, dirty : BOOLEAN,
                 clearing : BOOLEAN]
    /\ page.clearing => page.dirty

\* Until the field is emptied, what is found is found by the text in it.
FoundByText ==
    page.open /\ ~page.clearing =>
        \A n \in DOMAIN filtered : filtered[n] \in Matches[page.text]

\* A page that waits for no frame shows the list that a touch reads.
Glass ==
    page.open /\ ~page.dirty =>
        /\ page.results <=> filtered # <<>>
        /\ \A i \in DOMAIN shown : i \in DOMAIN ListTouched /\ shown[i].card = ListTouched[i]

SearchInv ==
    /\ Lists /\ Pages /\ FoundByText /\ Glass
    /\ NoBrokenItem
    /\ ~Impatient => TouchOpensCard

\* What a build shows is the list of the results or of the suggestions, and
\* every date is there if no more was found than there is.
LEMMA BuiltShowsAList ==
    ASSUME NEW ps \in Seq(Cards), NEW fs \in Seq(Cards), Len(fs) <= Len(ps),
           NEW b, b = Built(ps, fs)
    PROVE  /\ \A i \in DOMAIN b : b[i].date # NoCard
           /\ fs # <<>> => \A i \in DOMAIN b : i \in DOMAIN fs /\ b[i].card = fs[i]
           /\ fs = <<>> => \A i \in DOMAIN b : i \in DOMAIN ps /\ b[i].card = ps[i]
           /\ ps = <<>> => DOMAIN b = {}
<1>. DEFINE n == IF Len(ps) < Suggested THEN Len(ps) ELSE Suggested
<1>1. Len(ps) \in Nat /\ Len(fs) \in Nat /\ Suggested \in Nat
      /\ DOMAIN ps = 1 .. Len(ps) /\ DOMAIN fs = 1 .. Len(fs)
  BY SearchAssumption
<1>2. \A i \in DOMAIN ps : At(ps, i) = ps[i] /\ ps[i] # NoCard
  BY SearchAssumption DEF At
<1>3. \A i \in DOMAIN fs : At(fs, i) = fs[i]
  BY DEF At
<1>4. CASE fs = <<>>
  <2>1. n \in Nat /\ n <= Len(ps)
    BY <1>1
  <2>2. b = [i \in 1 .. n |-> [card |-> At(ps, i), date |-> At(ps, i)]]
    BY <1>4 DEF Built, suggestionUI
  <2>. HIDE DEF n
  <2>3. DOMAIN b = 1 .. n /\ 1 .. n \subseteq DOMAIN ps
    BY <1>1, <2>1, <2>2
  <2>4. \A i \in 1 .. n : b[i].card = At(ps, i) /\ b[i].date = At(ps, i)
    BY <2>2
  <2>5. ps = <<>> => 1 .. n = {}
    BY <1>1, <2>1
  <2>. QED
    BY <1>2, <1>4, <2>3, <2>4, <2>5
<1>5. CASE fs # <<>>
  <2>1. b = [i \in 1 .. Len(fs) |-> [card |-> At(fs, i), date |-> At(ps, i)]]
    BY <1>5 DEF Built, afterSearchUI
  <2>2. DOMAIN b = 1 .. Len(fs) /\ 1 .. Len(fs) \subseteq DOMAIN ps
    BY <1>1, <2>1
  <2>3. \A i \in 1 .. Len(fs) : b[i].card = At(fs, i) /\ b[i].date = At(ps, i)
    BY <2>1
  <2>4. ps # <<>>
    BY <1>1, <1>5
  <2>. QED
    BY <1>1, <1>2, <1>3, <1>5, <2>2, <2>3, <2>4
<1>. QED
  BY <1>4, <1>5

\* The documents in some order.
LEMMA ContentsAreCards ==
    ASSUME NEW S \in SUBSET Cards, NEW q \in SetToSeqs(S)
    PROVE  q \in Seq(Cards)
<1>1. Cardinality(S) \in Nat
  BY SearchAssumption, FS_Subset, FS_CardinalityType
<1>2. q \in [1 .. Cardinality(S) -> S]
  BY DEF SetToSeqs
<1>. QED
  BY <1>1, <1>2

LEMMA SearchInit == Init => SearchInv
<1>. SUFFICES ASSUME Init PROVE SearchInv
  OBVIOUS
<1>1. Lists
  BY DEF Init, Lists
<1>2. Pages
  BY SearchAssumption DEF Init, Pages, ClosedPage
<1>3. FoundByText /\ Glass /\ NoBrokenItem /\ TouchOpensCard
  BY DEF Init, FoundByText, Glass, NoBrokenItem, TouchOpensCard, ClosedPage
<1>. QED
  BY <1>1, <1>2, <1>3 DEF SearchInv

\* A search done now: what is found fits, and is found by its text.
LEMMA SearchKeeps ==
    ASSUME SearchInv, NEW t \in Texts, afterSearch(t), UNCHANGED <<contents, fetch, popular, shown, taps>>,
           NEW text \in Texts, NEW clearing \in BOOLEAN, clearing \/ text = t,
           page' = [page EXCEPT !.text = text, !.dirty = TRUE, !.clearing = clearing]
    PROVE  SearchInv'
<1>1. Lists /\ Pages /\ NoBrokenItem /\ (~Impatient => TouchOpensCard)
  BY DEF SearchInv
<1>2. /\ filtered' \in Seq(Cards) /\ Len(filtered') <= Len(popular)
      /\ \A n \in DOMAIN filtered' : filtered'[n] \in Matches[t]
  BY <1>1, SearchedFinds DEF afterSearch, Lists
<1>3. Lists'
  BY <1>1, <1>2 DEF Lists, taps
<1>4. page' \in [open : BOOLEAN, text : Texts, results : BOOLEAN, dirty : BOOLEAN,
                 clearing : BOOLEAN]
      /\ page'.dirty /\ page'.text = text /\ page'.clearing = clearing
  <2>. DEFINE a == [page EXCEPT !.text = text]
              b == [a EXCEPT !.dirty = TRUE]
  <2>1. page' = [b EXCEPT !.clearing = clearing]
    BY <1>1 DEF Pages
  <2>2. a \in [open : BOOLEAN, text : Texts, results : BOOLEAN, dirty : BOOLEAN,
               clearing : BOOLEAN] /\ a.text = text
    BY <1>1 DEF Pages
  <2>3. b \in [open : BOOLEAN, text : Texts, results : BOOLEAN, dirty : BOOLEAN,
               clearing : BOOLEAN] /\ b.text = text /\ b.dirty
    <3>. HIDE DEF a
    <3>. QED
      BY <2>2
  <2>. HIDE DEF b
  <2>. QED
    BY <2>1, <2>3
<1>5. Pages' /\ Glass'
  BY <1>4 DEF Pages, Glass
<1>6. FoundByText'
  BY <1>2, <1>4 DEF FoundByText
<1>7. NoBrokenItem' /\ (~Impatient => TouchOpensCard)'
  BY <1>1 DEF NoBrokenItem, TouchOpensCard, taps
<1>. QED
  BY <1>3, <1>5, <1>6, <1>7 DEF SearchInv

LEMMA SearchStep == SearchInv /\ [Next]_vars => SearchInv'
<1>. SUFFICES ASSUME SearchInv, [Next]_vars PROVE SearchInv'
  OBVIOUS
<1>. USE DEF lists, taps
<1>0. Lists /\ Pages /\ FoundByText /\ Glass /\ NoBrokenItem /\ (~Impatient => TouchOpensCard)
  BY DEF SearchInv
<1>z. popular \in Seq(Cards) /\ filtered \in Seq(Cards) /\ Len(filtered) <= Len(popular)
  BY <1>0 DEF Lists
<1>1. CASE EditContents
  BY <1>0, <1>1 DEF EditContents, SearchInv, Lists, Pages, FoundByText, Glass, ListTouched,
                    NoBrokenItem, TouchOpensCard
<1>2. CASE OpenSearch
  <2>1. /\ fetch' = IF fetch = "none" THEN "asked" ELSE fetch
        /\ shown' = Built(popular, filtered)
        /\ UNCHANGED <<contents, popular, filtered, touched, details>>
    BY <1>2 DEF OpenSearch
  <2>2. /\ page' = [open |-> TRUE, text |-> EmptyText, results |-> filtered # <<>>,
                    dirty |-> FALSE, clearing |-> FALSE]
    BY <1>2 DEF OpenSearch, ClosedPage
  <2>3. /\ \A i \in DOMAIN shown' : shown'[i].date # NoCard
        /\ filtered # <<>> => \A i \in DOMAIN shown' : i \in DOMAIN filtered
                                                     /\ shown'[i].card = filtered[i]
        /\ filtered = <<>> => \A i \in DOMAIN shown' : i \in DOMAIN popular
                                                     /\ shown'[i].card = popular[i]
        /\ popular = <<>> => DOMAIN shown' = {}
    BY <1>z, <2>1, BuiltShowsAList
  <2>4. Lists'
    BY <1>0, <2>1, <2>3 DEF Lists
  <2>5. Pages'
    <3>1. (filtered # <<>>) \in BOOLEAN
      OBVIOUS
    <3>. QED
      BY <2>2, <3>1, SearchAssumption DEF Pages
  <2>6. FoundByText'
    BY <1>z, <2>1, <2>2, SearchAssumption DEF FoundByText
  <2>7. Glass'
    BY <2>1, <2>2, <2>3 DEF Glass, ListTouched
  <2>. QED
    BY <1>0, <2>1, <2>3, <2>4, <2>5, <2>6, <2>7 DEF SearchInv, NoBrokenItem, TouchOpensCard
<1>3. CASE CloseSearch
  <2>1. /\ page' = [open |-> FALSE, text |-> EmptyText, results |-> FALSE, dirty |-> FALSE,
                    clearing |-> FALSE]
        /\ shown' = <<>> /\ details = NoCard
        /\ UNCHANGED <<contents, fetch, popular, filtered, details>>
    BY <1>3 DEF CloseSearch, ClosedPage
  <2>2. Lists' /\ NoBrokenItem'
    BY <1>0, <2>1 DEF Lists, NoBrokenItem
  <2>3. Pages'
    BY <2>1, SearchAssumption DEF Pages
  <2>4. FoundByText' /\ Glass' /\ TouchOpensCard'
    BY <2>1 DEF FoundByText, Glass, TouchOpensCard
  <2>. QED
    BY <2>2, <2>3, <2>4 DEF SearchInv
\* Nothing had been found, and nothing was shown, of a list that was not there.
<1>4. CASE FetchAnswered
  <2>1. /\ fetch = "asked" /\ fetch' = "done" /\ popular' \in SetToSeqs(contents)
        /\ UNCHANGED <<contents, filtered, shown, touched, details>>
    BY <1>4 DEF FetchAnswered
  <2>2. PICK dirty \in BOOLEAN : page' = [page EXCEPT !.dirty = dirty] /\ (page.dirty => dirty)
    <3>1. PICK sorted \in BOOLEAN :
             page' = [page EXCEPT !.dirty = page.dirty \/ (sorted /\ page.open)]
      BY <1>0, <1>4 DEF FetchAnswered, Pages
    <3>2. (page.dirty \/ (sorted /\ page.open)) \in BOOLEAN
      OBVIOUS
    <3>. QED
      BY <3>1, <3>2
  <2>3. popular = <<>> /\ DOMAIN shown = {}
    BY <1>0, <2>1 DEF Lists
  <2>4. filtered = <<>>
    BY <1>z, <2>3
  <2>5. popular' \in Seq(Cards)
    BY <1>0, <2>1, ContentsAreCards DEF Lists
  <2>6. Lists'
    BY <1>0, <2>1, <2>4, <2>5 DEF Lists
  <2>7. Pages'
    BY <1>0, <2>2 DEF Pages
  <2>8. page'.open = page.open /\ page'.results = page.results /\ page'.dirty = dirty
        /\ page'.clearing = page.clearing /\ page'.text = page.text
    BY <1>0, <2>2 DEF Pages
  <2>9. FoundByText' /\ Glass'
    BY <1>0, <2>1, <2>2, <2>3, <2>4, <2>8 DEF FoundByText, Glass
  <2>. QED
    BY <1>0, <2>1, <2>6, <2>7, <2>9 DEF SearchInv, NoBrokenItem, TouchOpensCard
<1>5. CASE FetchFails
  <2>1. fetch' = "done" /\ UNCHANGED <<contents, popular, filtered, page, shown, touched, details>>
    BY <1>5 DEF FetchFails
  <2>. QED
    BY <1>0, <2>1 DEF SearchInv, Lists, Pages, FoundByText, Glass, ListTouched,
                      NoBrokenItem, TouchOpensCard
<1>6. ASSUME NEW t \in Texts, Type(t) PROVE SearchInv'
  <2>1. /\ afterSearch(t) /\ page' = [page EXCEPT !.text = t, !.dirty = TRUE]
        /\ UNCHANGED <<contents, fetch, popular, shown, taps>>
    BY <1>6 DEF Type
  <2>2. page' = [page EXCEPT !.text = t, !.dirty = TRUE, !.clearing = page.clearing]
        /\ page.clearing \in BOOLEAN
    BY <1>0, <2>1 DEF Pages
  <2>. QED
    BY <2>1, <2>2, SearchKeeps
<1>7. CASE ClearText
  <2>1. /\ afterSearch(EmptyText) /\ page' = [page EXCEPT !.clearing = TRUE, !.dirty = TRUE]
        /\ UNCHANGED <<contents, fetch, popular, shown, taps>>
    BY <1>7 DEF ClearText
  <2>2. page' = [page EXCEPT !.text = page.text, !.dirty = TRUE, !.clearing = TRUE]
        /\ page.text \in Texts
    BY <1>0, <2>1 DEF Pages
  <2>. QED
    BY <2>1, <2>2, SearchKeeps, SearchAssumption
<1>8. CASE Frame
  <2>. DEFINE text == IF page.clearing THEN EmptyText ELSE page.text
  <2>1. /\ shown' = Built(popular, filtered)
        /\ UNCHANGED <<contents, fetch, popular, filtered, touched, details>>
    BY <1>8 DEF Frame
  <2>2. page' = [open |-> page.open, text |-> text, results |-> filtered # <<>>,
                 dirty |-> FALSE, clearing |-> FALSE]
    BY <1>0, <1>8 DEF Frame, Pages
  <2>3. /\ \A i \in DOMAIN shown' : shown'[i].date # NoCard
        /\ filtered # <<>> => \A i \in DOMAIN shown' : i \in DOMAIN filtered
                                                     /\ shown'[i].card = filtered[i]
        /\ filtered = <<>> => \A i \in DOMAIN shown' : i \in DOMAIN popular
                                                     /\ shown'[i].card = popular[i]
        /\ popular = <<>> => DOMAIN shown' = {}
    BY <1>z, <2>1, BuiltShowsAList
  <2>4. Lists'
    BY <1>0, <2>1, <2>3 DEF Lists
  <2>5. page.open \in BOOLEAN /\ text \in Texts
    BY <1>0, SearchAssumption DEF Pages
  <2>6. page.open /\ filtered # <<>> =>
            \A n \in DOMAIN filtered : filtered[n] \in Matches[text]
    BY <1>0, <1>z, SearchAssumption DEF FoundByText
  <2>. HIDE DEF text
  <2>7. Pages'
    <3>1. (filtered # <<>>) \in BOOLEAN
      OBVIOUS
    <3>. QED
      BY <2>2, <2>5, <3>1 DEF Pages
  <2>8. FoundByText'
    BY <2>1, <2>2, <2>6 DEF FoundByText
  <2>9. Glass'
    BY <2>1, <2>2, <2>3 DEF Glass, ListTouched
  <2>. QED
    BY <1>0, <2>1, <2>3, <2>4, <2>7, <2>8, <2>9 DEF SearchInv, NoBrokenItem, TouchOpensCard
<1>9. ASSUME NEW i \in DOMAIN shown, Tap(i) PROVE SearchInv'
  <2>1. /\ page.open /\ (Impatient \/ ~page.dirty)
        /\ touched' = shown[i].card /\ details' = At(ListTouched, i)
        /\ UNCHANGED <<contents, fetch, popular, filtered, page, shown>>
    BY <1>9 DEF Tap
  <2>2. ~Impatient => details' = touched'
    BY <1>0, <2>1 DEF Glass, At
  <2>3. (~Impatient => TouchOpensCard)'
    BY <2>2 DEF TouchOpensCard
  <2>. QED
    BY <1>0, <2>1, <2>3 DEF SearchInv, Lists, Pages, FoundByText, Glass, ListTouched,
                            NoBrokenItem
<1>10. CASE BackFromDetails
  <2>1. details' = NoCard /\ UNCHANGED <<contents, fetch, popular, filtered, page, shown>>
    BY <1>10 DEF BackFromDetails
  <2>. QED
    BY <1>0, <2>1 DEF SearchInv, Lists, Pages, FoundByText, Glass, ListTouched,
                      NoBrokenItem, TouchOpensCard
<1>11. CASE UNCHANGED vars
  BY <1>0, <1>11 DEF vars, SearchInv, Lists, Pages, FoundByText, Glass, ListTouched,
                     NoBrokenItem, TouchOpensCard
<1>. QED
  BY <1>1, <1>2, <1>3, <1>4, <1>5, <1>6, <1>7, <1>8, <1>9, <1>10, <1>11 DEF Next

--------------------------------------------------------------------------------
\* No item of a search lacks its date, which is read from the list that was not
\* searched: for any cards and texts, whenever the answer comes.
THEOREM SearchItemsAreWhole == Spec => []NoBrokenItem
<1>1. SearchInv => NoBrokenItem
  BY DEF SearchInv
<1>. QED
  BY <1>1, SearchInit, SearchStep, PTL DEF Spec

\* The results on the glass are found by the text in the field, in whatever
\* order texts are typed, the cross is touched and frames are drawn.
THEOREM SearchResultsMatch == Spec => []ResultsMatchText
<1>1. SearchInv => ResultsMatchText
  BY DEF SearchInv, Pages, FoundByText, Glass, ListTouched, ResultsMatchText
<1>. QED
  BY <1>1, SearchInit, SearchStep, PTL DEF Spec

\* The card that opens is the card that was touched, if no touch comes between
\* a change of the lists and the frame that shows it.
THEOREM SearchTouchesAreTrue == ~Impatient => (Spec => []TouchOpensCard)
<1>. SUFFICES ASSUME ~Impatient PROVE Spec => []TouchOpensCard
  OBVIOUS
<1>1. SearchInv => TouchOpensCard
  BY DEF SearchInv
<1>. QED
  BY <1>1, SearchInit, SearchStep, PTL DEF Spec
================================================================================
