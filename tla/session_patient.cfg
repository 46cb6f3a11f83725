SPECIFICATION FairSpec
CONSTANTS
    Users = {u1, u2}
    NoUser = NoUser
    Flows = {f1}
    NoFlow = NoFlow
    Impatient = FALSE
    MaxPending = 3
INVARIANTS
    TypeOK
    PersistedSessionComplete
    PersistedSessionOneUser
    NoFlowBehindHome
    WelcomeMeansSignedOut
    UserBlocFresh
PROPERTIES
    OnlyRestartSplitsAuth
    SessionRefinesContract
    DiskCatchesUp
    SubmissionEnds
