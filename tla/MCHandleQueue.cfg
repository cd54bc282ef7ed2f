\* Three events and three waits of up to two responses each.
CONSTANTS
    Handles = {e1, e2, e3}
    Irps = {i1, i2, i3}
    MaxItems = 2
    Null = Null
SPECIFICATION FairSpec
CHECK_DEADLOCK FALSE
INVARIANTS
    TypeOK
    WaitCompletedOnce
    CancelledWithoutHandles
PROPERTIES
    ClosedWaitsEnd
    ImplementsChannel
