\* With and without HARQ; a packet may be larger than every grant.
SPECIFICATION FairSpec
CONSTANTS
    Sizes <- MCSizes
    Grants <- MCGrants
    MaxPackets = 2
    MaxInAir = 3
INVARIANTS
    SizesKept
    SinkServed
PROPERTIES
    EveryPacketLeaves
    ImplementsService
CHECK_DEADLOCK FALSE
