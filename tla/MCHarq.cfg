\* Two UEs with a bearer each on two RBs.
SPECIFICATION FairSpec
CONSTANTS
    NbUEs = 2
    UEOf <- TwoUEs
    NbRBs = 2
    m_maxProcesses = 2
    m_maxRetransmissions = 4
    m_retransmissionDelay = 1
INVARIANTS
    BothEndsAgree
PROPERTIES
    NotGivenUpEarly
    EveryProcessEnds
