SPECIFICATION Spec
CONSTANTS
    Bios = {b1, b2}
    NoBio = NoBio
    Byte <- SomeBytes
    Data <- SomeData
    DefaultSize = 2
    Sizes = {0, 3}
    Asks = {0, 1, 3}
    Junk = {3}
SYMMETRY Sym
INVARIANTS
    TypeOK
    PeersPointBack
    RingFits
PROPERTIES
    PairIsPipe
