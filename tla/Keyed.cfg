SPECIFICATION FairSpecV4
CONSTANTS
    e1 = e1
    e2 = e2
    n1 = n1
    n2 = n2
    NL = NL
    NoIntent = NoIntent
    NoKey = NoKey
    NoLog = NoLog
    Event <- MCEvent
    Genesis = e1
    Reader = {r1}
    Nonce <- MCNonce
    MaxEvents = 3
    MaxBatch = 2
    MaxReceipts = 4
    MaxFaults = 2
INVARIANTS
    IInvV4
    PublishedStays
    NotCommittedIsFinal
PROPERTIES
    TailReopens
CHECK_DEADLOCK FALSE
