\* Both procedures; two UEs with up to two inputs each: collisions, timeouts, a second attempt,
\* idle timers.  An opportunity in every second TTI, and between two of them one
\* RB for messages 3, so that a response may find no resource.
SPECIFICATION Spec
CONSTANTS
    u1 = u1
    u2 = u2
    p1 = p1
    p2 = p2
    r1 = r1
    r2 = r2
    UEs = {u1, u2}
    Types = {"BASELINE", "ENHANCED"}
    RARs = {r1, r2}
    Preambles = {p1, p2}
    NbRBs = 2
    NbRachRBs = 1
    NbCcchRBs <- MCNbCcchRBs
    m_ripInt = 2
    m_PreambleDuration = 1
    m_responseWindowDelay = 1
    m_responseWindowDuration = 3
    m_RAProcedureTimeout = 8
    m_activityTimeout = 9
    Backoffs = {0, 2}
    m_maxFailedAttempts = 2
    MaxInputs = 2
    MaxTTI = 18
SYMMETRY Symmetry
INVARIANTS
    TypeOK
    ResourcesKept
    AttemptInOnePlace
CHECK_DEADLOCK FALSE
