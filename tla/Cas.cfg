SPECIFICATION Spec
CONSTANTS
    Hash = {h1, h2}
    Temp = {t1, t2}
    Writer = {w1, w2}
    Dir = {d1}
    DirOf <- MCDirOf
    Junk = Junk
    NoTemp = NoTemp
    NoOne = NoOne
    Collector = Collector
    MaxFaults = 2
SYMMETRY Symmetry
INVARIANTS
    IInv
    NeverCorrupted
    ReceiptsTrue
    InFlightProtected
PROPERTY
    ObjectsImmutable
CHECK_DEADLOCK FALSE
