SPECIFICATION Spec
CONSTANTS
    MaxEpoch = 2
    MaxSeq = 4
    Width = 2
    Saturation = 2
    Limit = 2
    Payload = {"data"}
INVARIANT InsertNeverFails
CHECK_DEADLOCK FALSE
