\* The BMC falls silent in the middle of the handshake.
SPECIFICATION Spec
CONSTANTS
    Keys = {k1, k2}
    NoKey = NoKey
    LanRetry = 2
    MaxOpens = 1
    MaxIds = 2
    MaxRands = 2
SYMMETRY KeySymmetry
INVARIANT OpenedMeansActive
CHECK_DEADLOCK FALSE
