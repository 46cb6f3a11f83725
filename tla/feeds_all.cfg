SPECIFICATION FairSpec
CONSTANTS
    Drugs <- AllDrugs
    ObDrugs <- AllObDrugs
    NoCard = 0
    CategoryOf <- AllCategory
    Stamp <- AllStamp
    MaxDocs = 1
INVARIANT
    CardsUnderTheirLabel
PROPERTY
    LoadingEnds
