SPECIFICATION Spec
CONSTANTS
    Users = {u1}
    NoUser = NoUser
    Flows = {f1, f2}
    NoFlow = NoFlow
    Impatient = TRUE
    MaxPending = 2
INVARIANTS
    ProfileWrittenOnce
PROPERTIES
    HomeEntryHasSession
