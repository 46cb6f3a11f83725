SPECIFICATION Spec
CONSTANTS
    c1 = c1
    c2 = c2
    c3 = c3
    t0 = t0
    t1 = t1
    t2 = t2
    t3 = t3
    Cards <- MCCards
    NoCard = NoCard
    Texts <- MCTexts
    EmptyText = t0
    Matches <- MCMatches
    Suggested = 2
    Impatient = FALSE
INVARIANTS
    NoBrokenItem
    ResultsMatchText
    TouchOpensCard
