\* Two UEs whose retransmissions become due in the same TTI.
SPECIFICATION Spec
CONSTANTS
    NbUEs = 2
    UEOf <- TwoUEs
    NbRBs = 2
    m_maxProcesses = 2
    m_maxRetransmissions = 3
    m_retransmissionDelay = 1
INVARIANTS
    SameNumberOfRBs
