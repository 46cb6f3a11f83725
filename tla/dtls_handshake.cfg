SPECIFICATION FairSpec
CONSTANTS
    Modes = {"full", "resumed", "cookie"}
    Long = {"Certificate", "KeyExchange"}
    MaxAlerts = 12
    ShrinkAfter = 2
    MaxFaults = 4
INVARIANTS
    NeverUnexpected
    SomebodyWakesUp
PROPERTY
    HandshakeCompletes
CHECK_DEADLOCK FALSE
