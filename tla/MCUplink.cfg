\* Five scenarios: three schedulers with two UEs, a handover, lost bursts.
SPECIFICATION Spec
CONSTANTS
    UEs = {1, 2}
    GNBs = {1, 2}
    NbOfRBs = 3
    NbPrbToAssign = 1
    Channels <- MCChannels
    TBSize <- MCTBSize
    Reserved <- MCReserved
    Sizes <- MCSizes
    RetxTimer = 2
    MAX_AMD_RETX = 1
    Scenarios <- MCScenarios
INVARIANTS
    TypeOK
    QueueSizeCovers
    OneUserPerRB
    EveryTtiServesAReport
PROPERTIES
    ReportTracksQueue
CHECK_DEADLOCK FALSE
