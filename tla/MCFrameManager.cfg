\* FDD and every TDD configuration, two gNBs, two frames and the start of a
\* third.
SPECIFICATION FairSpec
CONSTANTS
    g1 = g1
    g2 = g2
    GNBs <- MCTwoCells
    Structures = {"FDD", "TDD"}
    Configs = {0, 1, 2, 3, 4, 5, 6}
    MaxTTI = 22
INVARIANTS
    TtisInStep
    EveryCellEveryTTI
PROPERTIES
    ClockRuns
CHECK_DEADLOCK FALSE
