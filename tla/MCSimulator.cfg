\* The event loop: four events, scheduled at setup or by handlers.
SPECIFICATION FairSpec
CONSTANTS
    Delays <- MCDelays
    MaxUid = 4
INVARIANTS
    TypeOK
    RunningEventIsFirst
PROPERTIES
    DispatchOrder
    ImplementsOrder
    ServedInTurn
CHECK_DEADLOCK FALSE
