\* Two packets, the PDUs of which are retransmitted side by side.
SPECIFICATION Spec
CONSTANTS
    Sizes <- MCSizes
    Grants <- MCFewGrants
    RetxTimer = 1
    MAX_AMD_RETX = 1
    MaxPackets = 2
    MaxRetx = 2
    MaxInAir = 1
INVARIANTS
    SizesKept
    NothingLost
    ReassembledOnce
CHECK_DEADLOCK FALSE
