\* Two UEs, a macro cell and two home base stations, one of them without
\* downlink scheduler, with a multicast destination; the idle timer is shorter
\* than two detach times.
SPECIFICATION Spec
CONSTANTS
    u1 = u1
    u2 = u2
    g1 = g1
    h1 = h1
    h2 = h2
    mc = mc
    UEs = {u1, u2}
    MulticastDestinations = {mc}
    GNBs = {g1}
    HeNBs = {h1, h2}
    Permitted <- MCAllPermitted
    WithDLScheduler = {g1, h1}
    ChannelKinds = {"Dl", "McDl"}
    m_detachTime = 2
    m_activityTimeout = 3
    MaxInputs = 1
    MaxTime = 6
INVARIANTS
    CellListsRight
    EventsPending
CHECK_DEADLOCK FALSE
