\* Input in reads of one or two characters, a break or a keepalive.
SPECIFICATION Spec
CONSTANTS
    MaxSeq = 3
    Retry = 2
    Limit = 1
    MaxFailures = 0
    ToBmcCapacity = 2
    ToConCapacity = 1
    MaxTyped = 2
    MaxPrinted = 1
    MaxExtras = 1
    MaxActivations = 1
INVARIANTS TypeOK InputComplete InputOnce
CHECK_DEADLOCK FALSE
