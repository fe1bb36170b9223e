\* Two UEs on one subcarrier.
SPECIFICATION Spec
CONSTANTS
    u1 = u1
    u2 = u2
    NULL = NULL
    UEs <- MCUEs
    Classes = {0, 1}
    m_subcarriers <- MCSubcarriers
    m_resPeriodicity <- MCPeriod
    Scenarios <- MCScenarios
    m_rarWindow <- MCWindow
    PreambleDuration <- MCDuration
    Waits <- MCWaits
    m_maxPreambleTx <- MCMaxTx
    m_maxFailedAttempts = 3
    m_activityTimeout = 4
    MaxPackets = 3
    MaxTTI = 24
    Schedulers = {"FIFO", "RR"}
    NbOfSubcarriers = 1
    RUs = {1, 2}
    TBSize <- MCTBSize
    ttiLength = 2
    Sizes = {3}
INVARIANTS
    AttemptInOnePlace
    PreambleAnswered
    AwakeWhileReported
    CopiesAreCurrent
CHECK_DEADLOCK FALSE
