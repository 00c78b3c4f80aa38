SPECIFICATION Spec
CONSTANTS
    b1 = b1
    b2 = b2
    Absent = Absent
    Blank = Blank
    NoPlan = NoPlan
    NoJob = NoJob
    Bundle <- MCBundles
    Size <- MCSize
    MaxStops = 2
    MaxLosses = 1
INVARIANTS
    CommittedDurable
CHECK_DEADLOCK FALSE
