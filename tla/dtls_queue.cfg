SPECIFICATION Spec
CONSTANTS
    Modes = {"full"}
    Long = {"Certificate"}
    MaxAlerts = 12
    ShrinkAfter = 2
    MaxFaults = 1
INVARIANT
    DesiredIsFound
CHECK_DEADLOCK FALSE
