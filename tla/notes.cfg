SPECIFICATION Spec
CONSTANTS
    Users = {u1, u2}
    NoUser = NoUser
    Devices = {d1, d2}
    Notes = {n1, n2}
    NoNote = NoNote
    Flows = {f1, f2}
    Impatient = {"delete"}
    MaxSecond = 1
    MaxRuns = 1
    Lingering = {d1}
    MaxQueued = 1
SYMMETRY Sym
INVARIANTS
    TypeOK
    NoteKept
    DeletedGoes
    OnlyAuthorsDelete
PROPERTY
    NotesRefineBoard
