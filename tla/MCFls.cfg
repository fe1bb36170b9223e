\* Two real-time bearers and a best-effort bearer of one of their UEs.
SPECIFICATION Spec
CONSTANTS
    rt1 = rt1
    rt2 = rt2
    be1 = be1
    u1 = u1
    u2 = u2
    RealTime = {rt1, rt2}
    BestEffort = {be1}
    UEs = {u1, u2}
    GetDestination <- MCDestination
    NbOfRBs = 3
    TBSize <- MCTBSize
    M = 3
    Waiting = {0, 50}
    MaxWaiting = 2
    Scenarios <- MCScenarios
INVARIANTS
    TypeOK
    BestEffortGetsLeftovers
    QuotaKept
    WaitsLessThanAFrame
    CheckedOnOwnRBs
