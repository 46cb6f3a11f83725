SPECIFICATION Spec
CONSTANTS
    Drugs <- FewDrugs
    ObDrugs <- FewObDrugs
    NoCard = 0
    CategoryOf <- FewCategory
    Stamp <- FewStamp
    MaxDocs = 3
INVARIANTS
    ShownIsCurrent
    TouchOpensCard
