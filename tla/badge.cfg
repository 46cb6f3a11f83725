SPECIFICATION Spec
CONSTANTS
    Fetches = {f1, f2}
    First = f1
    MaxPublished = 2
    MaxReloads = 2
    MaxPending = 1
INVARIANTS
    BadgeCountsSomething
    AcksOnlyPublished
