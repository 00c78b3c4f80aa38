SPECIFICATION OrderedSpec
CONSTANTS
    Run = {r1}
    MaxAttempt = 2
    Raw <- MCRaw
    Structured <- MCStructured
    Answers <- MCAnswers
    NoRaw = NoRaw
    MaxFaults = 2
PROPERTY
    ResumeSettles
CHECK_DEADLOCK FALSE
