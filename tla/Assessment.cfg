SPECIFICATION Spec
CONSTANTS
    c1 = c1
    f1 = f1
    s1 = s1
    u1 = u1
    h1 = h1
    h2 = h2
    None = None
    Claim = {c1}
    Issue = {c1}
    Run = {f1, s1, u1}
    Of <- MCOf
    Shape <- MCShape
    Human = {h1, h2}
    Grants <- MCGrants
    MaxSet = 2
    MaxLog = 7
    MaxTokens = 2
INVARIANTS
    IInv
    AcceptedRestsOnLog
    StandingMatchesLog
    CurrentFindingExact
    DecisionSawItsClosure
    ReplayNeverRefuses
    SessionIsCurrent
