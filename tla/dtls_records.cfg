SPECIFICATION Spec
CONSTANTS
    MaxEpoch = 2
    MaxSeq = 3
    Width = 2
    Saturation = 2
    Limit = 2
    Payload = {"data", "alert"}
INVARIANTS
    TypeOK
    OnceEach
    NumbersFresh
    DataAfterFinished
    QueuesFit
PROPERTIES
    KeptIsHandedUp
    RecordsAreDatagrams
CHECK_DEADLOCK FALSE
