SPECIFICATION Spec
CONSTANTS
    Run = {r1, r2}
    MaxAttempt = 2
    Raw <- MCRaw
    Structured <- MCStructured
    Answers <- MCAnswers
    NoRaw = NoRaw
    MaxFaults = 2
SYMMETRY Symmetry
INVARIANTS
    IInv
    NeverAmbiguous
    RecordedFromRegistered
PROPERTY
    NeverReinvoked
CHECK_DEADLOCK FALSE
