SPECIFICATION Spec
CONSTANTS
    e1 = e1
    e2 = e2
    n1 = n1
    n2 = n2
    n3 = n3
    NL = NL
    NoIntent = NoIntent
    Event <- MCEvent
    Genesis = e1
    Reader = {r1}
    Nonce <- MCNonce
    MaxEvents = 3
    MaxBatch = 2
    MaxReceipts = 4
    MaxFaults = 2
INVARIANT
    MarkedLogRecovers
CHECK_DEADLOCK FALSE
