SPECIFICATION FairSpec
CONSTANTS
    Process = {p1, p2}
    r4 = r4
    r5 = r5
    Run <- MCRuns
    Schema <- MCSchema
    Size <- MCSize
    MaxCandidates = 1
    MaxScanBytes = 1
    MaxEvents = 2
    MaxOps = 3
    MaxFaults = 1
    MaxLosses = 1
    None = None
INVARIANTS
    IInv
    ReadsAreCurrent
    PublicationAtomic
    CandidatesStayBounded
PROPERTIES
    OperationsReturn
CHECK_DEADLOCK FALSE
