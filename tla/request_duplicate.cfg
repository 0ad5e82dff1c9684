\* Nothing goes wrong but a Duplicate Request answer.
SPECIFICATION Spec
CONSTANTS
    Cmds = {c1, c2}
    SendMessage = SendMessage
    SeqMod = 3
    Retry = 2
    BaseTimeout = 1
    MaxCalls = 2
    Faults = {}
SYMMETRY CommandSymmetry
INVARIANT AwaitedRequestListed
CHECK_DEADLOCK FALSE
