\* Output, a break or a keepalive, a second activation.
SPECIFICATION FairSpec
CONSTANTS
    MaxSeq = 3
    Retry = 2
    Limit = 2
    MaxFailures = 1
    ToBmcCapacity = 1
    ToConCapacity = 1
    MaxTyped = 1
    MaxPrinted = 2
    MaxExtras = 1
    MaxActivations = 2
INVARIANTS OutputOnce OutputComplete
PROPERTY SendReturns
CHECK_DEADLOCK FALSE
